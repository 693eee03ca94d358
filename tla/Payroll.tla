------------------------------- MODULE Payroll -------------------------------
(***************************************************************************)
(* One pay period and its variables (tables payroll_periods and            *)
(* payroll_variables, backend/app/modules/payroll/router.py): the steps    *)
(* from draft to locked, the import of CSV files, which add to the values, *)
(* and the computation from missions, which replaces them.                 *)
(*                                                                         *)
(* An import or a computation checks that the period is a draft, then      *)
(* works on the variables in one transaction, statement by statement, and  *)
(* commits.  A variable is the row of a key, a driver and a type, which    *)
(* uq_payvar_period_driver_type keeps single: a transaction holds the keys *)
(* it has written until it ends, and the others wait for them.  A value is *)
(* kept as the set of its summands: <<c, 0>> is what the computation c     *)
(* found for the key, <<c, n>> line n of the file of the import c.         *)
(***************************************************************************)
EXTENDS Naturals, Sequences

CONSTANTS Drivers,
          Types,         \* codes of payroll_variable_types
          Computed,      \* PAYROLL_VARIABLE_CODES, those a computation writes
          Files,         \* the files of imports: sequences of the keys of
                         \* their valid lines
          Imports,       \* calls of import_csv
          Computations,  \* calls of compute_from_missions
          None,
          Untouched

Calls == Imports \union Computations
Keys == Drivers \X Types

\* by: the call that inserted the row; a row that is deleted and inserted
\* again is another row.
Rows == [by : Calls, parts : SUBSET (Calls \X Nat)]

VARIABLES
    period,   \* payroll_periods.status, None before create_period
    rows,     \* the committed variables, None where there is none
    pc,       \* where the call is
    file,     \* the file of an import
    line,     \* the lines of it that are stored
    counted,  \* the drivers of whom a computation found missions
    seen,     \* the inserters of the rows its DELETE works on
    todo,     \* the keys it still has to delete, then to insert
    mine      \* mine[c][k]: what c wrote for k and has not committed

callVars == <<pc, file, line, counted, seen, todo, mine>>
vars == <<period, rows, callVars>>

ASSUME PayrollAssumption ==
    /\ Imports \intersect Computations = {}
    /\ Computed \subseteq Types
    /\ Files \subseteq Seq(Keys)
    /\ None # Untouched
    /\ None \notin Rows /\ Untouched \notin Rows
    /\ None \notin Calls

NoneWritten == [k \in Keys |-> Untouched]
NoRowSeen == [k \in Keys |-> None]

Init ==
    /\ period = None
    /\ rows = [k \in Keys |-> None]
    /\ pc = [c \in Calls |-> "start"]
    /\ file = [c \in Calls |-> <<>>]
    /\ line = [c \in Calls |-> 0]
    /\ counted = [c \in Calls |-> {}]
    /\ seen = [c \in Calls |-> NoRowSeen]
    /\ todo = [c \in Calls |-> {}]
    /\ mine = [c \in Calls |-> NoneWritten]

-----------------------------------------------------------------------------
(* create_period, submit_period, approve_period, lock_period: the condition *)
(* is part of the UPDATE, or a unique constraint.                           *)

Advance(from, to) ==
    /\ period = from
    /\ period' = to
    /\ UNCHANGED <<rows, callVars>>

\* Mistake ruled out by TypeOK: a status that no other step knows.
OpenPeriod == Advance(None, "open")

CreatePeriod  == Advance(None, "draft")
SubmitPeriod  == Advance("draft", "submitted")
ApprovePeriod == Advance("submitted", "approved")
LockPeriod    == Advance("approved", "locked")

-----------------------------------------------------------------------------
(* Transactions                                                             *)

\* No other open transaction has written the row of k.
Free(c, k) == \A other \in Calls \ {c} : mine[other][k] = Untouched

\* The row of k as c sees it: its own write, or else what is committed.
View(c, k) == IF mine[c][k] = Untouched THEN rows[k] ELSE mine[c][k]

\* The row after c has added summands to it; its own row if there was none.
Plus(row, c, parts) ==
    IF row = None THEN [by |-> c, parts |-> parts]
    ELSE [by |-> row.by, parts |-> row.parts \union parts]

\* The call of c is over, and what it knew and had written is gone.
Leave(c, outcome) ==
    /\ pc' = [pc EXCEPT ![c] = outcome]
    /\ file' = [file EXCEPT ![c] = <<>>]
    /\ line' = [line EXCEPT ![c] = 0]
    /\ counted' = [counted EXCEPT ![c] = {}]
    /\ seen' = [seen EXCEPT ![c] = NoRowSeen]
    /\ todo' = [todo EXCEPT ![c] = {}]
    /\ mine' = [mine EXCEPT ![c] = NoneWritten]

Rollback(c) == Leave(c, "failed") /\ UNCHANGED <<period, rows>>

\* The check at the head of import_csv and of compute_from_missions, and the
\* reading of the file.  404 without a period, 400 if it is no draft.
CheckDraft(c) ==
    /\ pc[c] = "start" /\ period = "draft"
    /\ pc' = [pc EXCEPT ![c] = "checked"]
    /\ IF c \in Imports
       THEN \E f \in Files : file' = [file EXCEPT ![c] = f]
       ELSE UNCHANGED file
    /\ UNCHANGED <<period, rows, line, counted, seen, todo, mine>>

Refuse(c) ==
    /\ pc[c] = "start" /\ period # "draft"
    /\ Rollback(c)

\* A statement fails, a deadlock is resolved at the cost of c, the process
\* ends, or a code of Computed has no type (400).
Fail(c) ==
    /\ pc[c] \in {"checked", "deleting", "inserting"}
    /\ Rollback(c)

-----------------------------------------------------------------------------
(* import_csv                                                               *)

\* Mistake ruled out by ImportAddsItsFile: the sum is made in the program, of
\* the value read before the wait for the row.
StaleImportLine(c) ==
    /\ c \in Imports /\ pc[c] = "checked" /\ line[c] < Len(file[c])
    /\ LET k == file[c][line[c] + 1]
       IN mine' = [mine EXCEPT ![c][k] = Plus(View(c, k), c, {<<c, line[c] + 1>>})]
    /\ line' = [line EXCEPT ![c] = @ + 1]
    /\ UNCHANGED <<period, rows, pc, file, counted, seen, todo>>

\* INSERT ... ON CONFLICT DO UPDATE SET value = value + EXCLUDED.value, which
\* waits for the row and adds to what it finds then.
ImportLine(c) ==
    /\ c \in Imports /\ pc[c] = "checked" /\ line[c] < Len(file[c])
    /\ LET k == file[c][line[c] + 1]
       IN /\ Free(c, k)
          /\ mine' = [mine EXCEPT ![c][k] = Plus(View(c, k), c, {<<c, line[c] + 1>>})]
    /\ line' = [line EXCEPT ![c] = @ + 1]
    /\ UNCHANGED <<period, rows, pc, file, counted, seen, todo>>

-----------------------------------------------------------------------------
(* compute_from_missions                                                    *)

\* Mistake ruled out by RecomputationReplaces: only the variables of the drivers
\* with missions are deleted.
StartDeleteOfCounted(c, drivers) ==
    /\ c \in Computations /\ pc[c] = "checked"
    /\ pc' = [pc EXCEPT ![c] = "deleting"]
    /\ counted' = [counted EXCEPT ![c] = drivers]
    /\ seen' = [seen EXCEPT ![c] =
                  [k \in Keys |-> IF rows[k] = None THEN None ELSE rows[k].by]]
    /\ todo' = [todo EXCEPT ![c] = {k \in drivers \X Types : rows[k] # None}]
    /\ UNCHANGED <<period, rows, file, line, mine>>

\* The missions of the month are read: which drivers have some is up to the
\* missions, and may differ between two readings.  Then the DELETE starts, on
\* the rows that are committed at this moment.
StartDelete(c, drivers) ==
    /\ c \in Computations /\ pc[c] = "checked"
    /\ pc' = [pc EXCEPT ![c] = "deleting"]
    /\ counted' = [counted EXCEPT ![c] = drivers]
    /\ seen' = [seen EXCEPT ![c] =
                  [k \in Keys |-> IF rows[k] = None THEN None ELSE rows[k].by]]
    /\ todo' = [todo EXCEPT ![c] = {k \in Keys : rows[k] # None}]
    /\ UNCHANGED <<period, rows, file, line, mine>>

\* Mistake ruled out by ComputedTogether: a row that another transaction has
\* replaced meanwhile is left alone, and a row that one is changing is too.
SkipBusyRow(c, k) ==
    /\ pc[c] = "deleting" /\ k \in todo[c]
    /\ mine' = IF Free(c, k) /\ rows[k] # None /\ rows[k].by = seen[c][k]
               THEN [mine EXCEPT ![c][k] = None] ELSE mine
    /\ todo' = [todo EXCEPT ![c] = @ \ {k}]
    /\ UNCHANGED <<period, rows, pc, file, line, counted, seen>>

\* The DELETE comes to the row of k, in whatever order: it waits for the row,
\* deletes it even if its value has changed, and skips it if it is gone or
\* replaced by another one.
DeleteRow(c, k) ==
    /\ pc[c] = "deleting" /\ k \in todo[c]
    /\ Free(c, k)
    /\ mine' = IF rows[k] # None /\ rows[k].by = seen[c][k]
               THEN [mine EXCEPT ![c][k] = None] ELSE mine
    /\ todo' = [todo EXCEPT ![c] = @ \ {k}]
    /\ UNCHANGED <<period, rows, pc, file, line, counted, seen>>

\* The DELETE is done; the INSERTs follow.
StartInsert(c) ==
    /\ pc[c] = "deleting" /\ todo[c] = {}
    /\ pc' = [pc EXCEPT ![c] = "inserting"]
    /\ todo' = [todo EXCEPT ![c] = counted[c] \X Computed]
    /\ UNCHANGED <<period, rows, file, line, counted, seen, mine>>

\* The INSERT of a variable, drivers in whatever order.
InsertRow(c, k) ==
    /\ pc[c] = "inserting" /\ k \in todo[c]
    /\ Free(c, k) /\ View(c, k) = None
    /\ mine' = [mine EXCEPT ![c][k] = [by |-> c, parts |-> {<<c, 0>>}]]
    /\ todo' = [todo EXCEPT ![c] = @ \ {k}]
    /\ UNCHANGED <<period, rows, pc, file, line, counted, seen>>

\* The unique constraint fails the INSERT: k has a row the DELETE did not see.
Duplicate(c, k) ==
    /\ pc[c] = "inserting" /\ k \in todo[c]
    /\ Free(c, k) /\ View(c, k) # None
    /\ Rollback(c)

-----------------------------------------------------------------------------
\* The last statement of c is done.
AtEnd(c) == \/ c \in Imports /\ pc[c] = "checked" /\ line[c] = Len(file[c])
            \/ pc[c] = "inserting" /\ todo[c] = {}

\* What c wrote becomes visible.
Commit(c) ==
    /\ AtEnd(c)
    /\ rows' = [k \in Keys |-> View(c, k)]
    /\ Leave(c, "committed")
    /\ UNCHANGED period

Next ==
    \/ CreatePeriod \/ SubmitPeriod \/ ApprovePeriod \/ LockPeriod
    \/ \E c \in Calls : CheckDraft(c) \/ Refuse(c) \/ Fail(c) \/ Commit(c)
    \/ \E c \in Calls : ImportLine(c) \/ StartInsert(c)
    \/ \E c \in Calls, drivers \in SUBSET Drivers : StartDelete(c, drivers)
    \/ \E c \in Calls, k \in Keys : DeleteRow(c, k) \/ InsertRow(c, k) \/ Duplicate(c, k)

Spec == Init /\ [][Next]_vars

-----------------------------------------------------------------------------
(* Properties                                                               *)

\* Every variable has a value of its type.
TypeOK ==
    /\ period \in {None, "draft", "submitted", "approved", "locked"}
    /\ rows \in [Keys -> Rows \union {None}]
    /\ pc \in [Calls -> {"start", "checked", "deleting", "inserting",
                         "committed", "failed"}]
    /\ file \in [Calls -> Seq(Keys)]
    /\ line \in [Calls -> Nat]
    /\ counted \in [Calls -> SUBSET Drivers]
    /\ seen \in [Calls -> [Keys -> Calls \union {None}]]
    /\ todo \in [Calls -> SUBSET Keys]
    /\ mine \in [Calls -> [Keys -> Rows \union {None, Untouched}]]

\* Two transactions never have uncommitted writes of one variable.
OneWriterPerKey ==
    \A c, other \in Calls, k \in Keys :
        mine[c][k] # Untouched /\ mine[other][k] # Untouched => c = other

\* Computations that overlap never share a driver: all computed variables of
\* a driver come from one computation, so his hours, missions and kilometres
\* tell of the same missions (compute_from_missions).
ComputedTogether ==
    \A d \in Drivers : \A x, y \in Computed :
        LET one == rows[<<d, x>>]
            two == rows[<<d, y>>]
        IN one # None /\ one.by \in Computations => two # None /\ two.by = one.by

\* A variable that a computation inserted still has the computed value among
\* its summands, and exactly that one: imports add to it and never to another.
OneBase ==
    \A k \in Keys : rows[k] # None =>
        {p \in rows[k].parts : p[2] = 0} =
            IF rows[k].by \in Computations THEN {<<rows[k].by, 0>>} ELSE {}

Commits(c) == pc[c] # "committed" /\ pc'[c] = "committed"

\* The first n lines of the file f of the import c, those for k.
Lines(c, k, f, n) == {<<c, i>> : i \in {m \in 1..n : f[m] = k}}
LinesOf(c, k) == Lines(c, k, file[c], Len(file[c]))

\* Whatever happens between its lines, an import that commits adds its lines
\* to the values of that moment, each once, and changes nothing else: no
\* addition of another import is lost.
ImportAddsItsFile ==
    [][\A c \in Imports : Commits(c) =>
          \A k \in Keys :
             rows'[k] = IF LinesOf(c, k) = {} THEN rows[k]
                        ELSE Plus(rows[k], c, LinesOf(c, k))]_vars

\* A computation removes every row that its DELETE saw, whoever has added to
\* it since, leaves one variable of each type for each driver it counted, and
\* touches no other row.
RecomputationReplaces ==
    [][\A c \in Computations : Commits(c) =>
          \A k \in Keys :
             IF k \in counted[c] \X Computed
             THEN rows'[k] = [by |-> c, parts |-> {<<c, 0>>}]
             ELSE IF rows[k] # None /\ rows[k].by # seen[c][k]
             THEN rows'[k] = rows[k]
             ELSE rows'[k] = None]_vars

\* "Can only import into draft periods", "Can only compute into draft
\* periods": once the period is submitted its variables stay as they are.
SubmittedIsFrozen ==
    [][period \notin {None, "draft"} => UNCHANGED rows]_vars

=============================================================================
