------------------------------- MODULE RunOrder -------------------------------
(***************************************************************************)
(* The order of the missions of one run: assign_mission, remove_mission    *)
(* and reorder_missions of backend/app/modules/route_runs/router.py over   *)
(* route_run_missions, where a mission and a place occur once per run.     *)
(* Nothing compares these calls with the status of the run.                *)
(***************************************************************************)
EXTENDS Calls, Integers, Sequences

CONSTANTS Stops,        \* the missions
          MaxPlace,     \* bounds the places a body asks for
          MaxListed     \* bounds the missions a reorder names

ASSUME RunOrderAssumption == {MaxPlace, MaxListed} \subseteq Nat /\ None \notin Int

VARIABLES places,       \* places[m]: route_run_missions.sequence of m, or None
          orderCall     \* orderCall[s]: the call of s that is under way

runOrderVars == <<places, orderCall>>

NoOrderCall == [step |-> "idle"]
NoPlaces    == [m \in Stops |-> None]

OrderInit ==
    /\ places = NoPlaces
    /\ orderCall = [s \in Sessions |-> NoOrderCall]

Placed(p) == {m \in Stops : p[m] # None}

\* The places that a reorder has written and not committed, and its view of the run.
Draft(s) == IF orderCall[s].step = "renumber" THEN orderCall[s].draft ELSE NoPlaces
Seen(s)  == [m \in Stops |-> IF Draft(s)[m] # None THEN Draft(s)[m] ELSE places[m]]

\* The row of a mission that another call has written is waited for.
Unheld(s, m) == \A t \in Sessions \ {s} : Draft(t)[m] = None

\* No other mission has the place, and no call that is open gives it to one:
\* uq_run_sequence holds row by row, statement by statement.
Free(s, m, n) == \A x \in Stops \ {m} :
    Seen(s)[x] # n /\ \A t \in Sessions \ {s} : Draft(t)[x] # n

-----------------------------------------------------------------------------

\* The last place of the run, COALESCE(MAX(sequence), 0).
IsLast(n) == LET taken == {places[x] : x \in Placed(places)}
             IN  IF taken = {} THEN n = 0 ELSE n \in taken /\ \A p \in taken : p <= n

\* assign_mission without a sequence: the SELECT locks nothing.
ReadLastPlace(s, m) ==
    /\ orderCall[s] = NoOrderCall
    /\ \E last \in {0} \union {places[x] : x \in Placed(places)} :
        /\ IsLast(last) /\ last < MaxPlace
        /\ orderCall' = [orderCall EXCEPT ![s] =
                [step |-> "insert", mission |-> m, place |-> last + 1]]
    /\ UNCHANGED places

AskForPlace(s, m, n) ==
    /\ orderCall[s] = NoOrderCall
    /\ orderCall' = [orderCall EXCEPT ![s] = [step |-> "insert", mission |-> m, place |-> n]]
    /\ UNCHANGED places

\* Mistake ruled out by OrderTypeOK: no unique index on the place in a run.
InsertPlaceAnyway(s) ==
    LET m == orderCall[s].mission
        n == orderCall[s].place
    IN  /\ orderCall[s].step = "insert"
        /\ Unheld(s, m) /\ places[m] = None
        /\ places' = [places EXCEPT ![m] = n]
        /\ orderCall' = [orderCall EXCEPT ![s] = NoOrderCall]

InsertPlace(s) ==
    LET m == orderCall[s].mission
        n == orderCall[s].place
    IN  /\ orderCall[s].step = "insert"
        /\ Unheld(s, m) /\ places[m] = None /\ Free(s, m, n)
        /\ places' = [places EXCEPT ![m] = n]
        /\ orderCall' = [orderCall EXCEPT ![s] = NoOrderCall]

RemoveMission(m) ==
    /\ places[m] # None /\ \A s \in Sessions : Draft(s)[m] = None
    /\ places' = [places EXCEPT ![m] = None]
    /\ UNCHANGED orderCall

-----------------------------------------------------------------------------
(* reorder_missions: one transaction, which keeps the rows it has written    *)
(* until its COMMIT                                                          *)

\* UPDATE ... SET sequence = -sequence of every mission of the run, which fails
\* when a place and its opposite are both taken.
Negate(s, listed) ==
    LET rows == Placed(places) IN
    /\ orderCall[s] = NoOrderCall
    /\ \A m \in rows : Unheld(s, m)
    /\ \A x, y \in rows : x # y => places[x] # - places[y]
    /\ orderCall' = [orderCall EXCEPT ![s] =
            [step |-> "renumber", listed |-> listed, next |-> 1,
             draft |-> [m \in Stops |-> IF m \in rows THEN - places[m] ELSE None]]]
    /\ UNCHANGED places

\* UPDATE ... SET sequence = i of the i-th mission of the list, if the run has it.
Renumber(s) ==
    LET call == orderCall[s]
        m == call.listed[call.next]
    IN  /\ call.step = "renumber" /\ call.next <= Len(call.listed)
        /\ Seen(s)[m] # None => Unheld(s, m) /\ Free(s, m, call.next)
        /\ orderCall' = [orderCall EXCEPT ![s] =
                [step |-> "renumber", listed |-> call.listed, next |-> call.next + 1,
                 draft |-> IF Seen(s)[m] = None THEN call.draft
                           ELSE [call.draft EXCEPT ![m] = call.next]]]
        /\ UNCHANGED places

CommitReorder(s) ==
    /\ orderCall[s].step = "renumber" /\ orderCall[s].next > Len(orderCall[s].listed)
    /\ places' = Seen(s)
    /\ orderCall' = [orderCall EXCEPT ![s] = NoOrderCall]

\* A constraint refuses a statement, or the call is cut off: all is rolled back.
OrderCallFails(s) ==
    /\ orderCall[s] # NoOrderCall
    /\ orderCall' = [orderCall EXCEPT ![s] = NoOrderCall]
    /\ UNCHANGED places

-----------------------------------------------------------------------------

Lists == UNION {[1..n -> Stops] : n \in 0..MaxListed}

OrderNext ==
    \/ \E s \in Sessions :
        \/ \E m \in Stops : ReadLastPlace(s, m) \/ \E n \in 1..MaxPlace : AskForPlace(s, m, n)
        \/ InsertPlace(s)
        \/ \E listed \in Lists : Negate(s, listed)
        \/ Renumber(s) \/ CommitReorder(s) \/ OrderCallFails(s)
    \/ \E m \in Stops : RemoveMission(m)

OrderSpec == OrderInit /\ [][OrderNext]_runOrderVars

-----------------------------------------------------------------------------

\* No two missions of a run have one place, whatever is assigned, removed and
\* reordered at once (uq_run_sequence).
OrderTypeOK ==
    /\ places \in [Stops -> Int \union {None}]
    /\ \A m, x \in Placed(places) : places[m] = places[x] => m = x
    /\ DOMAIN orderCall = Sessions
    /\ \A s \in Sessions : LET call == orderCall[s] IN
        \/ call = NoOrderCall
        \/ call \in [step : {"insert"}, mission : Stops, place : Int]
        \/ /\ call \in [step : {"renumber"}, listed : Lists, next : Nat,
                         draft : [Stops -> Int \union {None}]]
           /\ call.next \in 1..(Len(call.listed) + 1)

\* The negative places of a reorder are temporary: "Temporarily set sequences to
\* negative to avoid unique constraint conflicts" (reorder_missions).
\* The code does not keep this.
NegativeIsTemporary == \A m \in Placed(places) : places[m] >= 0

=============================================================================
