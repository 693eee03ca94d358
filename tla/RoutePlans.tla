------------------------------ MODULE RoutePlans ------------------------------
(***************************************************************************)
(* Route templates and the runs that are generated from them: backend/app/ *)
(* modules/route_templates/router.py, and create_run of route_runs, which  *)
(* may name a template and a code too.  What happens to a run afterwards   *)
(* is the subject of RouteRuns, the order of its missions of RunOrder.     *)
(* The stops of a template, which nothing reads back, are left out.        *)
(***************************************************************************)
EXTENDS Calls, Integers, Sequences, FiniteSetsExt

CONSTANTS Codes,          \* codes of templates
          OtherCodes,     \* codes of runs that no generation makes
          YearWeeks,      \* ISO weeks of a year: 52 or 53
          MonthDays,      \* days of a month
          MaxDate,        \* the calendar is 0..MaxDate, and day 0 is a Monday
          MaxRuns         \* bounds the runs

ASSUME RoutePlansAssumption ==
    /\ {YearWeeks, MonthDays} \subseteq Nat \ {0} /\ {MaxDate, MaxRuns} \subseteq Nat
    /\ None \notin Codes \union Nat

VARIABLES templates,    \* templates[c]: route_templates of code c, or None
          runs,         \* route_runs, in the order of their INSERT
          generation    \* generation[s]: the open call of generate_runs, or none

routePlansVars == <<templates, runs, generation>>

Recurrences  == {"QUOTIDIENNE", "LUN_VEN", "LUN_SAM", "HEBDOMADAIRE", "BIMENSUELLE", "MENSUELLE"}
TemplateStatuses == {"ACTIVE", "SUSPENDED", "ARCHIVED"}
Dates        == 0..MaxDate

Templates == [status : TemplateStatuses, recurrence : Recurrences]

\* A generated run has the code of its template and date; missions counts the
\* missions that were created with it.
GeneratedCode(c, d) == <<c, d>>
RunCodes == OtherCodes \union {GeneratedCode(c, d) : c \in Codes, d \in Dates}
Runs == [template : Codes \union {None}, date : Dates, code : RunCodes,
         generated : BOOLEAN, missions : 0..1]

NoGeneration == [step |-> "idle"]

\* left: the dates still to do, made: the runs inserted so far; step "insert":
\* no run was found for the first date.
Generation(step, c, dates, withMissions, made) ==
    [step |-> step, template |-> c, left |-> dates, withMissions |-> withMissions, made |-> made]

RoutePlansInit ==
    /\ templates = [c \in Codes |-> None] /\ runs = << >>
    /\ generation = [s \in Sessions |-> NoGeneration]

-----------------------------------------------------------------------------
(* Templates                                                                 *)

\* create_template: another one of this code is refused by the check or by the
\* unique index.
CreateTemplate(c, recurrence) ==
    /\ templates[c] = None
    /\ templates' = [templates EXCEPT ![c] = [status |-> "ACTIVE", recurrence |-> recurrence]]
    /\ UNCHANGED <<runs, generation>>

UpdateTemplate(c, recurrence, status) ==
    /\ templates[c] # None
    /\ templates' = [templates EXCEPT ![c] = [status |-> status, recurrence |-> recurrence]]
    /\ UNCHANGED <<runs, generation>>

SetStatus(c, status) ==
    /\ templates[c] # None
    /\ templates' = [templates EXCEPT ![c].status = status]
    /\ UNCHANGED <<runs, generation>>

-----------------------------------------------------------------------------
(* The dates of a template                                                   *)

Weekday(d) == d % 7
IsoWeek(d) == ((d \div 7) % YearWeeks) + 1
MonthDay(d) == d % MonthDays

Falls(recurrence, d, first) ==
    CASE recurrence = "QUOTIDIENNE"  -> TRUE
      [] recurrence = "LUN_VEN"      -> Weekday(d) < 5
      [] recurrence = "LUN_SAM"      -> Weekday(d) < 6
      [] recurrence = "HEBDOMADAIRE" -> Weekday(d) = 0
      [] recurrence = "BIMENSUELLE"  -> Weekday(d) = 0 /\ IsoWeek(d) % 2 = 0
      [] recurrence = "MENSUELLE"    -> MonthDay(d) = MonthDay(first)

\* _expand_dates, a list in the order of the calendar
ExpandDates(recurrence, first, last) == {d \in first..last : Falls(recurrence, d, first)}

-----------------------------------------------------------------------------
(* Runs                                                                      *)

Run(c, d, code, generated, missions) ==
    [template |-> c, date |-> d, code |-> code, generated |-> generated, missions |-> missions]

\* The rows an INSERT of this code meets in the unique index: committed ones,
\* which refuse it, and those of open calls, for which it waits.
Taken(code) == \E i \in DOMAIN runs : runs[i].code = code
Pended(code) == \E s \in Sessions : /\ generation[s] # NoGeneration
                                    /\ \E i \in DOMAIN generation[s].made :
                                            generation[s].made[i].code = code

\* create_run
CreateRunByHand(c, d, code) ==
    /\ Len(runs) < MaxRuns
    /\ c # None => templates[c] # None
    /\ ~ Taken(code) /\ ~ Pended(code)
    /\ runs' = Append(runs, Run(c, d, code, FALSE, 0))
    /\ UNCHANGED <<templates, generation>>

\* generate_runs: the template is read once, and may be switched off meanwhile.
StartGeneration(s, c, first, last, withMissions) ==
    /\ generation[s] = NoGeneration /\ Len(runs) < MaxRuns
    /\ templates[c] # None /\ templates[c].status = "ACTIVE"
    /\ LET dates == ExpandDates(templates[c].recurrence, first, last) IN
        /\ dates # {}
        /\ generation' = [generation EXCEPT ![s] =
                Generation("look", c, dates, withMissions, << >>)]
    /\ UNCHANGED <<templates, runs>>

NextDate(call) == Min(call.left)

\* The next date is skipped if a run of the template is found, committed ...
LookForRun(s) ==
    LET call == generation[s] IN
    /\ call.step = "look" /\ call.left # {}
    /\ generation' =
        IF \E i \in DOMAIN runs : runs[i].template = call.template /\ runs[i].date = NextDate(call)
        THEN [generation EXCEPT ![s].left = @ \ {NextDate(call)}]
        ELSE [generation EXCEPT ![s].step = "insert"]
    /\ UNCHANGED <<templates, runs>>

NewRun(call) == Run(call.template, NextDate(call), GeneratedCode(call.template, NextDate(call)),
                    TRUE, IF call.withMissions THEN 1 ELSE 0)

\* Mistake ruled out by GeneratedOnce: the code of a run is not unique.
InsertRunUnindexed(s) ==
    LET call == generation[s] IN
    /\ call.step = "insert"
    /\ generation' = [generation EXCEPT ![s] =
            [call EXCEPT !.step = "look", !.left = @ \ {NextDate(call)},
                         !.made = Append(@, NewRun(call))]]
    /\ UNCHANGED <<templates, runs>>

\* ... and otherwise gets a run, with its mission and the link between them.
InsertRun(s) ==
    LET call == generation[s] IN
    /\ call.step = "insert"
    /\ ~ Taken(NewRun(call).code) /\ ~ Pended(NewRun(call).code)
    /\ generation' = [generation EXCEPT ![s] =
            [call EXCEPT !.step = "look", !.left = @ \ {NextDate(call)},
                         !.made = Append(@, NewRun(call))]]
    /\ UNCHANGED <<templates, runs>>

CommitGeneration(s) ==
    LET call == generation[s] IN
    /\ call.step = "look" /\ call.left = {}
    /\ Len(runs) + Len(call.made) <= MaxRuns
    /\ runs' = runs \o call.made
    /\ generation' = [generation EXCEPT ![s] = NoGeneration]
    /\ UNCHANGED templates

\* The index refuses a row, or the call is cut off: none of its runs stays.
GenerationFails(s) ==
    /\ generation[s] # NoGeneration
    /\ generation' = [generation EXCEPT ![s] = NoGeneration]
    /\ UNCHANGED <<templates, runs>>

-----------------------------------------------------------------------------

RoutePlansNext ==
    \/ \E c \in Codes :
        \/ \E recurrence \in Recurrences :
            \/ CreateTemplate(c, recurrence)
            \/ \E status \in TemplateStatuses : UpdateTemplate(c, recurrence, status)
        \/ \E status \in TemplateStatuses : SetStatus(c, status)
    \/ \E c \in Codes \union {None}, d \in Dates, code \in RunCodes : CreateRunByHand(c, d, code)
    \/ \E s \in Sessions :
        \/ \E c \in Codes, first, last \in Dates, withMissions \in BOOLEAN :
                StartGeneration(s, c, first, last, withMissions)
        \/ LookForRun(s) \/ InsertRun(s) \/ CommitGeneration(s) \/ GenerationFails(s)

RoutePlansSpec == RoutePlansInit /\ [][RoutePlansNext]_routePlansVars

-----------------------------------------------------------------------------

RoutePlansTypeOK ==
    /\ templates \in [Codes -> Templates \union {None}]
    /\ runs \in Seq(Runs)
    /\ DOMAIN generation = Sessions
    /\ \A s \in Sessions : LET g == generation[s] IN
        g = NoGeneration \/
            /\ g = Generation(g.step, g.template, g.left, g.withMissions, g.made)
            /\ g.step \in {"look", "insert"} /\ g.template \in Codes
            /\ g.left \subseteq Dates /\ g.withMissions \in BOOLEAN /\ g.made \in Seq(Runs)

\* A template has one generated run at most for each date, however many
\* generations overlap (generate_runs: "Idempotency: skip if run already exists
\* for this template+date").
GeneratedOnce ==
    \A i, j \in DOMAIN runs :
        (/\ runs[i].generated /\ runs[j].generated
         /\ runs[i].template = runs[j].template /\ runs[i].date = runs[j].date) => i = j

\* The dates of a fortnightly template are two weeks apart.
\* The code does not keep this.
FortnightsAreTwoWeeks ==
    LET dates == ExpandDates("BIMENSUELLE", 0, MaxDate)
    IN  \A d \in dates : d + 14 <= MaxDate => d + 14 \in dates

=============================================================================
