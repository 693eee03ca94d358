------------------------------ MODULE RouteRuns ------------------------------
(***************************************************************************)
(* Route runs (the day's tours, table route_runs) and their regulation:    *)
(* the closing of runs that are still out after their service date, by a   *)
(* manager's call or by the daily Celery task                              *)
(* (backend/app/modules/route_runs, route_run_regulation_daily).           *)
(*                                                                         *)
(* A transition call reads the status, checks it, and updates the row by   *)
(* its id.  A regulation reads the eligible runs once and then updates     *)
(* them one by one in a single transaction, which holds the row of every   *)
(* run it has updated until it commits; its updates are not conditional    *)
(* either.                                                                 *)
(***************************************************************************)
EXTENDS Naturals, FiniteSets

CONSTANTS Runs,         \* ids of route runs
          Sessions,     \* calls of dispatch, start, complete and cancel
          Managers,     \* calls of regulate, source "manual"
          Daily,        \* executions of the daily task, source "automatic"
          Accepted,     \* the targets whose UPDATE the driver accepts
          MaxFailures,  \* bounds the regulations that fail for other reasons
                        \* than a deadlock
          None

Regulators == Managers \union Daily

RunStatuses == {"DRAFT", "PLANNED", "DISPATCHED", "IN_PROGRESS", "COMPLETED",
                "CANCELLED"}

\* RUN_TRANSITIONS of schemas.py.
RunTransitions ==
    {<<"DRAFT", "PLANNED">>, <<"DRAFT", "CANCELLED">>,
     <<"PLANNED", "DISPATCHED">>, <<"PLANNED", "DRAFT">>,
     <<"PLANNED", "CANCELLED">>,
     <<"DISPATCHED", "IN_PROGRESS">>, <<"DISPATCHED", "PLANNED">>,
     <<"DISPATCHED", "CANCELLED">>,
     <<"IN_PROGRESS", "COMPLETED">>, <<"IN_PROGRESS", "CANCELLED">>}

\* The transitions an endpoint asks for: dispatch, start, complete, cancel.
Targets == {"DISPATCHED", "IN_PROGRESS", "COMPLETED", "CANCELLED"}

\* REGULATABLE_STATUSES of service.py.
Regulatable == {"DISPATCHED", "IN_PROGRESS"}

VARIABLES
    \* table route_runs, and the audit log of regulations
    status,     \* status[r], None before the INSERT
    totalled,   \* aggregated_sale/purchase/margin are set
    regulated,  \* regulated_at is set
    entries,    \* entries[r][g]: REGULATE entries that g has logged for r
    \* transition calls
    on, seen,   \* the run whose status the session has read, and that status
    \* regulations
    working,    \* the regulators whose transaction is open
    todo,       \* todo[g]: the runs g selected and has not updated yet
    wrote,      \* wrote[g]: the runs g has updated and not committed
    \* the calendar, failures, and what is observed and not stored
    overdue,    \* overdue[r]: the service date of r is past
    failures,
    past        \* past[r]: every status r has had

runVars  == <<status, past, totalled, regulated, entries>>
callVars == <<on, seen>>
regVars  == <<working, todo, wrote>>
vars     == <<runVars, callVars, regVars, overdue, failures>>

ASSUME RouteRunsAssumption ==
    /\ Managers \intersect Daily = {}
    /\ Accepted \subseteq Targets
    /\ MaxFailures \in Nat
    /\ None \notin RunStatuses \union Runs

Init ==
    /\ status = [r \in Runs |-> None]
    /\ past = [r \in Runs |-> {}]
    /\ totalled = [r \in Runs |-> FALSE]
    /\ regulated = [r \in Runs |-> FALSE]
    /\ entries = [r \in Runs |-> [g \in Regulators |-> 0]]
    /\ on = [s \in Sessions |-> None]
    /\ seen = [s \in Sessions |-> None]
    /\ working = {}
    /\ todo = [g \in Regulators |-> {}]
    /\ wrote = [g \in Regulators |-> {}]
    /\ overdue = [r \in Runs |-> FALSE]
    /\ failures = 0

-----------------------------------------------------------------------------
\* Mistake ruled out by TypeOK: the run gets the status of its mission, which
\* generate_runs creates beside it.
CreateRunAsMission(r) ==
    /\ status[r] = None
    /\ status' = [status EXCEPT ![r] = "PLANIFIEE"]
    /\ past' = [past EXCEPT ![r] = {"PLANIFIEE"}]
    /\ UNCHANGED <<totalled, regulated, entries, callVars, regVars, overdue, failures>>

\* create_run, and generate_runs of route_templates: a run is born PLANNED.
CreateRun(r) ==
    /\ status[r] = None
    /\ status' = [status EXCEPT ![r] = "PLANNED"]
    /\ past' = [past EXCEPT ![r] = {"PLANNED"}]
    /\ UNCHANGED <<totalled, regulated, entries, callVars, regVars, overdue, failures>>

\* The day after the service date of r comes.
DayPasses(r) ==
    /\ ~overdue[r]
    /\ overdue' = [overdue EXCEPT ![r] = TRUE]
    /\ UNCHANGED <<runVars, callVars, regVars, failures>>

-----------------------------------------------------------------------------
(* dispatch_run, start_run, complete_run, cancel_run: _transition_run       *)

ReadStatus(s, r) ==
    /\ on[s] = None
    /\ status[r] # None
    /\ on' = [on EXCEPT ![s] = r]
    /\ seen' = [seen EXCEPT ![s] = status[r]]
    /\ UNCHANGED <<runVars, regVars, overdue, failures>>

\* The call of s is over.
Answer(s) ==
    /\ on' = [on EXCEPT ![s] = None]
    /\ seen' = [seen EXCEPT ![s] = None]

\* No open regulation holds the row of r.
Free(r) == \A g \in Regulators : r \notin wrote[g]

\* Mistake ruled out by FollowsLifecycle: the target is not looked up.
WriteAnyStatus(s, target) ==
    /\ on[s] # None
    /\ target \in Accepted
    /\ Free(on[s])
    /\ status' = [status EXCEPT ![on[s]] = target]
    /\ past' = [past EXCEPT ![on[s]] = @ \union {target}]
    /\ totalled' = [totalled EXCEPT ![on[s]] = @ \/ target = "COMPLETED"]
    /\ Answer(s)
    /\ UNCHANGED <<regulated, entries, regVars, overdue, failures>>

\* The UPDATE, which waits for a regulation that holds the row, and its
\* commit.  complete_run has summed up the missions before and stores the sums.
\* start_run and complete_run bind an ISO string to a timestamptz column, which
\* asyncpg refuses: as written, the driver accepts the targets of dispatch and
\* cancel only.
WriteStatus(s, target) ==
    /\ on[s] # None
    /\ target \in Accepted
    /\ <<seen[s], target>> \in RunTransitions
    /\ Free(on[s])
    /\ status' = [status EXCEPT ![on[s]] = target]
    /\ past' = [past EXCEPT ![on[s]] = @ \union {target}]
    /\ totalled' = [totalled EXCEPT ![on[s]] = @ \/ target = "COMPLETED"]
    /\ Answer(s)
    /\ UNCHANGED <<regulated, entries, regVars, overdue, failures>>

\* 422 for a transition that is not in the table, or the call fails, as every
\* call with a target outside Accepted does.
GiveUp(s) ==
    /\ on[s] # None
    /\ Answer(s)
    /\ UNCHANGED <<runVars, regVars, overdue, failures>>

-----------------------------------------------------------------------------
(* regulate_runs, and route_run_regulation_daily with service.py            *)

\* Mistake ruled out by OnlyOverdueRegulated: today's runs are eligible too.
EligibleAnyDay == {r \in Runs : status[r] \in Regulatable /\ ~regulated[r]}

Eligible == {r \in Runs : overdue[r] /\ status[r] \in Regulatable /\ ~regulated[r]}

\* Mistake ruled out by OncePerRegulator: nobody looks at regulated_at.
SelectRegulatedToo(g, ids) ==
    /\ g \notin working
    /\ {r \in ids : overdue[r] /\ status[r] \in Regulatable} # {}
    /\ working' = working \union {g}
    /\ todo' = [todo EXCEPT ![g] = {r \in ids : overdue[r] /\ status[r] \in Regulatable}]
    /\ UNCHANGED <<wrote, runVars, callVars, overdue, failures>>

\* find_eligible_runs; a manager may restrict it to some run_ids.
Select(g, ids) ==
    /\ g \notin working
    /\ g \in Daily => ids = Runs
    /\ Eligible \intersect ids # {}
    /\ working' = working \union {g}
    /\ todo' = [todo EXCEPT ![g] = Eligible \intersect ids]
    /\ UNCHANGED <<wrote, runVars, callVars, overdue, failures>>

\* regulate_single_run: sums and UPDATE of the next run.  Runs come in the
\* order of their service dates; runs of one date, the case modelled, come in
\* any order.
RegulateRun(g, r) ==
    /\ r \in todo[g]
    /\ Free(r)
    /\ todo' = [todo EXCEPT ![g] = @ \ {r}]
    /\ wrote' = [wrote EXCEPT ![g] = @ \union {r}]
    /\ UNCHANGED <<working, runVars, callVars, overdue, failures>>

\* Mistake ruled out by EligibleGetsClosed: a transaction that ends keeps its rows.
CloseKeepsRows(g) ==
    /\ working' = working \ {g}
    /\ todo' = [todo EXCEPT ![g] = {}]
    /\ UNCHANGED wrote

\* The transaction of g is over.
Close(g) ==
    /\ working' = working \ {g}
    /\ todo' = [todo EXCEPT ![g] = {}]
    /\ wrote' = [wrote EXCEPT ![g] = {}]

\* The sums, the stamp and the status of every run g updated become visible.
Commit(g) ==
    /\ g \in working /\ todo[g] = {}
    /\ status' = [r \in Runs |-> IF r \in wrote[g] THEN "COMPLETED" ELSE status[r]]
    /\ past' = [r \in Runs |->
                  IF r \in wrote[g] THEN past[r] \union {"COMPLETED"} ELSE past[r]]
    /\ totalled' = [r \in Runs |-> totalled[r] \/ r \in wrote[g]]
    /\ regulated' = [r \in Runs |-> regulated[r] \/ r \in wrote[g]]
    /\ entries' = [r \in Runs |->
                     IF r \in wrote[g] THEN [entries[r] EXCEPT ![g] = @ + 1]
                     ELSE entries[r]]
    /\ Close(g)
    /\ UNCHANGED <<callVars, overdue, failures>>

\* PostgreSQL ends a deadlock, g waiting for a row of h and h for the row r of
\* g, by failing one of the two, here g; h, which is queued for r, gets it.
\* The code of g swallows the exception, but the transaction is aborted: every
\* statement that follows fails too, and the final COMMIT rolls back.
Deadlock(g, h, r) ==
    /\ g # h
    /\ todo[g] \intersect wrote[h] # {}
    /\ r \in todo[h] \intersect wrote[g]
    /\ working' = working \ {g}
    /\ todo' = [todo EXCEPT ![g] = {}, ![h] = @ \ {r}]
    /\ wrote' = [wrote EXCEPT ![g] = {}, ![h] = @ \union {r}]
    /\ UNCHANGED <<runVars, callVars, overdue, failures>>

\* Any other failure of a statement, or the end of the process.
Fail(g) ==
    /\ g \in working
    /\ failures < MaxFailures
    /\ failures' = failures + 1
    /\ Close(g)
    /\ UNCHANGED <<runVars, callVars, overdue>>

-----------------------------------------------------------------------------
Next ==
    \/ \E r \in Runs : CreateRun(r) \/ DayPasses(r)
    \/ \E s \in Sessions, r \in Runs : ReadStatus(s, r)
    \/ \E s \in Sessions, target \in Targets : WriteStatus(s, target)
    \/ \E s \in Sessions : GiveUp(s)
    \/ \E g \in Regulators, ids \in SUBSET Runs : Select(g, ids)
    \/ \E g \in Regulators, r \in Runs : RegulateRun(g, r)
    \/ \E g, h \in Regulators, r \in Runs : Deadlock(g, h, r)
    \/ \E g \in Regulators : Commit(g) \/ Fail(g)

Spec == Init /\ [][Next]_vars

(***************************************************************************)
(* Fairness.  A daily task comes every day, a regulation that is running   *)
(* goes on, and PostgreSQL breaks every deadlock.  Nobody has to call the  *)
(* endpoints.                                                              *)
(***************************************************************************)
Fairness ==
    /\ \A g \in Daily : WF_vars(Select(g, Runs))
    /\ \A g \in Regulators :
          /\ WF_vars(\E r \in Runs : RegulateRun(g, r))
          /\ WF_vars(Commit(g))
    /\ WF_vars(\E g, h \in Regulators, r \in Runs : Deadlock(g, h, r))

FairSpec == Spec /\ Fairness

-----------------------------------------------------------------------------
(* Properties                                                              *)

\* Every variable has a value of its type.
TypeOK ==
    /\ status \in [Runs -> RunStatuses \union {None}]
    /\ past \in [Runs -> SUBSET RunStatuses]
    /\ totalled \in [Runs -> BOOLEAN]
    /\ regulated \in [Runs -> BOOLEAN]
    /\ entries \in [Runs -> [Regulators -> Nat]]
    /\ on \in [Sessions -> Runs \union {None}]
    /\ seen \in [Sessions -> RunStatuses \union {None}]
    /\ working \subseteq Regulators
    /\ todo \in [Regulators -> SUBSET Runs]
    /\ wrote \in [Regulators -> SUBSET Runs]
    /\ overdue \in [Runs -> BOOLEAN]
    /\ failures \in 0..MaxFailures

\* A regulation never closes a run before its day is over or one that never
\* left, even if the run changed after it was selected, and it stamps every
\* run it closes (find_eligible_runs, regulate_single_run).
OnlyOverdueRegulated ==
    \A r \in Runs : regulated[r] =>
        overdue[r] /\ "DISPATCHED" \in past[r] /\ "COMPLETED" \in past[r]

\* Whoever completes a run, driver, manager or daily task, leaves its totals.
CompletedIsTotalled ==
    \A r \in Runs : "COMPLETED" \in past[r] => totalled[r]

\* Overlapping regulations may both log a run, but none logs a run twice, and
\* a run with an entry is stamped.
OncePerRegulator ==
    \A r \in Runs, g \in Regulators :
        entries[r][g] <= 1 /\ (entries[r][g] = 1 => regulated[r])

\* Two open regulations never hold updates of the same run, and what one
\* holds it no longer waits for.
OneWriterPerRun ==
    \A g \in Regulators :
        /\ wrote[g] \intersect todo[g] = {}
        /\ g \notin working => wrote[g] = {} /\ todo[g] = {}
        /\ \A h \in Regulators \ {g} : wrote[g] \intersect wrote[h] = {}

\* A run only moves to a status that follows one it has had; a regulation may
\* complete a run that was dispatched and never started.
Lifecycle == INSTANCE StaleLifecycle WITH
                 Items <- Runs, First <- {"PLANNED"},
                 Follows <- RunTransitions \union {<<"DISPATCHED", "COMPLETED">>}

FollowsLifecycle == Lifecycle!Spec

\* An eligible run does not stay eligible for ever: the daily task, a manager
\* or the driver closes it, whatever deadlocks and failures come first.
EligibleGetsClosed ==
    \A r \in Runs : (r \in Eligible) ~> (r \notin Eligible)

\* Docstring of route_run_regulation_daily: runs whose service date is past
\* and that are still DISPATCHED or IN_PROGRESS are brought to COMPLETED.
OverdueGetsClosed ==
    \A r \in Runs :
        (overdue[r] /\ status[r] \in Regulatable) ~> (status[r] \notin Regulatable)

=============================================================================
