------------------------------- MODULE Planning -------------------------------
(***************************************************************************)
(* Who drives what when: the overlap warnings of assign_mission            *)
(* (backend/app/modules/jobs/router.py) and the questions of the planning  *)
(* board (modules/planning/router.py).  A crew member is a driver or a     *)
(* vehicle, which are treated alike.  Time is counted in half days; the    *)
(* board knows days only.                                                  *)
(***************************************************************************)
EXTENDS Calls, Integers, FiniteSets

CONSTANTS Tours,        \* missions
          Crew,         \* drivers and vehicles
          MaxDay        \* bounds the calendar

VARIABLES tours,        \* tours[m]: the dates, the crew and the status of m, or None
          warned,       \* {m, n}: an assignment was answered with a warning about them
          assigning     \* assigning[s]: the call of assign_mission under way, or None

planningVars == <<tours, warned, assigning>>

HalfDays == 0..(2 * MaxDay + 1)
BoardDays == 0..MaxDay
Midnight(day) == 2 * day

TourRows == [from : HalfDays \union {None}, to : HalfDays \union {None}, who : Crew \union {None},
             status : {"BROUILLON", "PLANIFIEE", "AFFECTEE", "EN_COURS", "LIVREE", "CLOTUREE", "ANNULEE"}]

ASSUME PlanningAssumption == MaxDay \in Nat /\ None \notin Int \union Crew \union TourRows

PlanningInit ==
    tours = [m \in Tours |-> None] /\ warned = {} /\ assigning = [s \in Sessions |-> None]

Stored == {m \in Tours : tours[m] # None}

-----------------------------------------------------------------------------
(* Missions                                                                  *)

\* create_mission compares the dates with nothing.
PlanTour(m, from, to) ==
    /\ tours[m] = None
    /\ tours' = [tours EXCEPT ![m] = [from |-> from, to |-> to, who |-> None, status |-> "BROUILLON"]]
    /\ UNCHANGED <<warned, assigning>>

\* generate_runs: both dates are the day of the run, the crew is the template's,
\* and nobody compares them with anything.
GenerateTour(m, day, w) ==
    /\ tours[m] = None
    /\ tours' = [tours EXCEPT ![m] =
            [from |-> Midnight(day), to |-> Midnight(day), who |-> w, status |-> "PLANIFIEE"]]
    /\ UNCHANGED <<warned, assigning>>

Given(new, old) == IF new = None THEN old ELSE new

\* update_mission moves what nobody drives yet: COALESCE(:dcp, ...).
MoveTour(m, from, to) ==
    /\ m \in Stored /\ tours[m].status \in {"BROUILLON", "PLANIFIEE"}
    /\ tours' = [tours EXCEPT ![m].from = Given(from, @), ![m].to = Given(to, @)]
    /\ UNCHANGED <<warned, assigning>>

UnassignTour(m) ==
    /\ m \in Stored /\ tours[m].status = "AFFECTEE"
    /\ tours' = [tours EXCEPT ![m].who = None, ![m].status = "PLANIFIEE"]
    /\ UNCHANGED <<warned, assigning>>

Transitions ==
    {<<"BROUILLON", "PLANIFIEE">>, <<"BROUILLON", "ANNULEE">>, <<"PLANIFIEE", "AFFECTEE">>,
     <<"PLANIFIEE", "BROUILLON">>, <<"PLANIFIEE", "ANNULEE">>, <<"AFFECTEE", "EN_COURS">>,
     <<"AFFECTEE", "PLANIFIEE">>, <<"AFFECTEE", "ANNULEE">>, <<"EN_COURS", "LIVREE">>,
     <<"EN_COURS", "AFFECTEE">>, <<"EN_COURS", "ANNULEE">>, <<"LIVREE", "CLOTUREE">>}

\* transition_mission: the crew stays what it is, and is compared with nothing.
AdvanceTour(m, status) ==
    /\ m \in Stored /\ <<tours[m].status, status>> \in Transitions
    /\ tours' = [tours EXCEPT ![m].status = status]
    /\ UNCHANGED <<warned, assigning>>

-----------------------------------------------------------------------------
(* assign_mission                                                            *)

\* SQL's (a, b) OVERLAPS (c, d): PostgreSQL puts the ends in order, takes the end
\* of a period as outside of it, and a moment as inside.
Overlaps(a, b, c, d) ==
    LET first == IF a <= b THEN <<a, b>> ELSE <<b, a>>
        second == IF c <= d THEN <<c, d>> ELSE <<d, c>>
    IN  \/ first[1] > second[1] /\ first[1] < second[2]
        \/ second[1] > first[1] /\ second[1] < first[2]
        \/ first[1] = second[1]

End(row) == IF row.to = None THEN row.from ELSE row.to

OverlapRows(r, x) == /\ r.from # None /\ x.from # None
                     /\ Overlaps(r.from, End(r), x.from, End(x))

\* Missions of w that are assigned or under way; planned ones are passed over.
OverlapsOf(m, w) ==
    {n \in Stored \ {m} : /\ tours[n].who = w /\ tours[n].status \in {"AFFECTEE", "EN_COURS"}
                          /\ OverlapRows(tours[m], tours[n])}

ReadOverlaps(s, m, w) ==
    /\ assigning[s] = None
    /\ m \in Stored /\ tours[m].status \in {"BROUILLON", "PLANIFIEE", "AFFECTEE"}
    /\ assigning' = [assigning EXCEPT ![s] = [tour |-> m, who |-> w, overlaps |-> OverlapsOf(m, w)]]
    /\ UNCHANGED <<tours, warned>>

AssignTour(s) ==
    LET call == assigning[s] IN
    /\ call # None
    /\ tours' = [tours EXCEPT ![call.tour].who = call.who, ![call.tour].status = "AFFECTEE"]
    /\ warned' = warned \union {{call.tour, n} : n \in call.overlaps}
    /\ assigning' = [assigning EXCEPT ![s] = None]

AssignFails(s) ==
    /\ assigning[s] # None
    /\ assigning' = [assigning EXCEPT ![s] = None]
    /\ UNCHANGED <<tours, warned>>

-----------------------------------------------------------------------------
(* The board                                                                 *)

\* check_availability: dates become midnights, and both ends are excluded.
Conflicts(w, first, last) ==
    {m \in Stored : /\ tours[m].who = w /\ tours[m].status \notin {"ANNULEE", "BROUILLON", "CLOTUREE"}
                    /\ tours[m].from # None /\ tours[m].from < Midnight(last)
                    /\ tours[m].to # None /\ tours[m].to > Midnight(first)}

\* validate_assignment passes the dates of the mission on as texts with a time,
\* which date.fromisoformat refuses; a missing date is today.
Refused(m) == tours[m].from # None \/ tours[m].to # None

ValidateAssignment(m, w, today) ==
    IF Refused(m) THEN "error"
    ELSE IF Conflicts(w, today, today) = {} THEN "available" ELSE "conflict"

-----------------------------------------------------------------------------

PlanningNext ==
    \/ \E m \in Tours :
        \/ \E from, to \in HalfDays \union {None} : PlanTour(m, from, to) \/ MoveTour(m, from, to)
        \/ \E day \in BoardDays, w \in Crew : GenerateTour(m, day, w)
        \/ UnassignTour(m)
        \/ \E status \in {t[2] : t \in Transitions} : AdvanceTour(m, status)
    \/ \E s \in Sessions :
        \/ \E m \in Tours, w \in Crew : ReadOverlaps(s, m, w)
        \/ AssignTour(s) \/ AssignFails(s)

PlanningSpec == PlanningInit /\ [][PlanningNext]_planningVars

-----------------------------------------------------------------------------

\* Warnings name two stored missions.
PlanningTypeOK ==
    /\ \A m \in Stored : tours[m] \in TourRows
    /\ \A pair \in warned : pair \subseteq Stored /\ Cardinality(pair) = 2
    /\ \A s \in Sessions : assigning[s] # None =>
        /\ assigning[s].tour \in Stored /\ assigning[s].who \in Crew
        /\ assigning[s].overlaps \subseteq Stored \ {assigning[s].tour}

\* Two missions of one driver or vehicle at one time were assigned with a warning:
\* "Affectation conducteur/vehicule ... avertissement si overlap (RG-C-013/014)"
\* (README.md).
\* The code does not keep this.
OverlapIsWarned ==
    \A m, n \in Stored :
        (/\ m # n /\ tours[m].who = tours[n].who /\ tours[m].who # None
         /\ {tours[m].status, tours[n].status} \subseteq {"AFFECTEE", "EN_COURS"}
         /\ OverlapRows(tours[m], tours[n])) => {m, n} \in warned

\* Who is available from a day to a day has no mission on these days: "Le
\* conducteur ne doit pas etre deja affecte a une autre mission sur la meme plage
\* horaire" (RG-C-013), which check_availability answers for the board.
\* The code does not keep this.
AvailableIsFree ==
    \A w \in Crew, first, last \in BoardDays :
        (first <= last /\ Conflicts(w, first, last) = {}) =>
            ~ \E m \in Stored : /\ tours[m].who = w /\ tours[m].status \in {"AFFECTEE", "EN_COURS"}
                                /\ tours[m].from # None
                                /\ Midnight(first) <= tours[m].from /\ tours[m].from < Midnight(last + 1)

\* "La date de livraison prevue doit etre superieure ou egale a la date de
\* chargement" (RG-C-004).
\* The code does not keep this.
DeliveryFollowsLoading ==
    \A m \in Stored : tours[m].from # None /\ tours[m].to # None => tours[m].from <= tours[m].to

\* The validation of an assignment answers: "Verification automatique" (step 3a of
\* the assignment in docs/02-modules-A-D.md; validate_assignment).
\* The code does not keep this.
ValidationAnswers ==
    \A m \in Stored, w \in Crew : ValidateAssignment(m, w, 0) # "error"

=============================================================================
