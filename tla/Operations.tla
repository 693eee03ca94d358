------------------------------ MODULE Operations ------------------------------
(***************************************************************************)
(* The registers of day-to-day operations (modules/operations/router.py):  *)
(* complaints, traffic violations, leaves and repairs, where each call     *)
(* adds a row, and monthly infractions and daily schedules, where a call   *)
(* writes over the row of its driver and month or day (ON CONFLICT DO      *)
(* UPDATE).  A client that got no answer sends its call again.             *)
(***************************************************************************)
EXTENDS Calls, Naturals, FiniteSets

CONSTANTS Months,      \* driver and month of an infractions row
          Shifts,      \* driver and day of a schedule row
          Spans,       \* first and last day of a leave
          MaxReports   \* bounds the calls

VARIABLES entries,     \* committed rows of the six tables
          upsert,      \* upsert[s]: the row that the call s has written and not committed, or None
          lastEntry,   \* ids given: gen_random_uuid, uuid4
          reports

operationsVars == <<entries, upsert, lastEntry, reports>>

Registers == {"complaints", "violations", "repairs"}   \* nothing is asked of their rows
LeaveSpans == {w \in Spans : w[1] <= w[2]}             \* date_fin < date_debut is refused

Values == 1..2

ASSUME OperationsAssumption ==
    /\ Spans \subseteq Nat \X Nat /\ MaxReports \in Nat
    /\ None \notin [id : Nat, table : {"infractions", "schedules"}, key : Months \union Shifts,
                    value : Values]

OperationsInit ==
    /\ entries = {} /\ lastEntry = 0 /\ reports = 0
    /\ upsert = [s \in Sessions |-> None]

Report == reports < MaxReports /\ reports' = reports + 1 /\ lastEntry' = lastEntry + 1

-----------------------------------------------------------------------------

\* One INSERT and the commit: a call that is repeated adds a second row.
Add(row) ==
    /\ Report
    /\ entries' = entries \union {row}
    /\ UNCHANGED upsert

CreateComplaint == Add([id |-> lastEntry', table |-> "complaints"])
CreateViolation == Add([id |-> lastEntry', table |-> "violations"])
CreateRepair    == Add([id |-> lastEntry', table |-> "repairs"])
CreateLeave     == \E w \in LeaveSpans : Add([id |-> lastEntry', table |-> "leaves", span |-> w])

\* Rows of the key that the call can see, and those that others have not committed.
EntryOf(table, key) == {e \in entries : e.table = table /\ e.key = key}
Open(table, key) ==
    {s \in Sessions : upsert[s] # None /\ upsert[s].table = table /\ upsert[s].key = key}

\* INSERT ... ON CONFLICT DO UPDATE waits for another call that has written the
\* key; then it changes the row there is, or adds one.
WriteEntry(s, table, key, value) ==
    /\ Report
    /\ upsert[s] = None
    /\ Open(table, key) = {}
    /\ \E id \in IF EntryOf(table, key) = {} THEN {lastEntry'}
                 ELSE {e.id : e \in EntryOf(table, key)} :
          upsert' = [upsert EXCEPT ![s] = [id |-> id, table |-> table, key |-> key, value |-> value]]
    /\ UNCHANGED entries

CreateInfraction(s) == \E k \in Months, v \in Values : WriteEntry(s, "infractions", k, v)
CreateShift(s)   == \E k \in Shifts, v \in Values : WriteEntry(s, "schedules", k, v)

CommitEntry(s) ==
    /\ upsert[s] # None
    /\ entries' = {e \in entries : e.id # upsert[s].id} \union {upsert[s]}
    /\ upsert' = [upsert EXCEPT ![s] = None]
    /\ UNCHANGED <<lastEntry, reports>>

\* The call is cut off before its commit.
EntryFails(s) ==
    /\ upsert[s] # None
    /\ upsert' = [upsert EXCEPT ![s] = None]
    /\ UNCHANGED <<entries, lastEntry, reports>>

OperationsNext ==
    \/ CreateComplaint \/ CreateViolation \/ CreateRepair \/ CreateLeave
    \/ \E s \in Sessions : CreateInfraction(s) \/ CreateShift(s) \/ CommitEntry(s) \/ EntryFails(s)

OperationsSpec == OperationsInit /\ [][OperationsNext]_operationsVars

-----------------------------------------------------------------------------

Keyed == [id : Nat, table : {"infractions"}, key : Months, value : Values] \union
         [id : Nat, table : {"schedules"}, key : Shifts, value : Values]

\* A driver has one infractions row for a month and one schedule row for a day,
\* however often a call is repeated and however calls overlap: whoever adds the
\* infractions of a year up counts none twice.
OneEntryPerKey ==
    \A e, f \in entries : e \in Keyed /\ f \in Keyed /\ e.table = f.table /\ e.key = f.key => e = f

\* The entries and what the calls have written are of the kinds of their registers.
OperationsTypeOK ==
    /\ OneEntryPerKey
    /\ entries \subseteq [id : Nat, table : Registers] \union Keyed \union
                         [id : Nat, table : {"leaves"}, span : LeaveSpans]
    /\ upsert \in [Sessions -> Keyed \union {None}]
    /\ {lastEntry, reports} \subseteq Nat

=============================================================================
