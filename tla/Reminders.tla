------------------------------- MODULE Reminders -------------------------------
(***************************************************************************)
(* Reminders and dunning of the invoices of a tenant: the daily tasks      *)
(* send_due_reminders_daily and dunning_check_daily of backend/app/infra/  *)
(* tasks.py, the dunning levels and the manual dunning action of backend/  *)
(* app/modules/billing/router_extensions.py.  Both tasks add a row to      *)
(* tasks beside what is counted here; nothing reads the status of those    *)
(* rows, which update_task of modules/tasks changes.                       *)
(***************************************************************************)
EXTENDS Naturals, FiniteSets

CONSTANTS Debts,            \* invoices
          Levels,           \* dunning_levels, as they are created
          DailyRuns,        \* runs of the daily tasks that may overlap
          NoDate,           \* the due date of an invoice that is not validated
          Ahead,            \* days between a reminder and the due date: 7
          MaxReminderDay,   \* bounds the calendar
          MaxLevelCalls,    \* bounds the changes of the levels and manual relances
          MaxCutOff         \* bounds the runs that are cut off

ASSUME RemindersAssumption ==
    /\ IsFiniteSet(DailyRuns)
    /\ {Ahead, MaxReminderDay, MaxLevelCalls, MaxCutOff} \subseteq Nat
    /\ NoDate \notin Nat

VARIABLES due,          \* due[i]: the due date of a validated invoice, or NoDate
          after,        \* after[l]: jours_apres_echeance of a level, or NoDate
          relances,     \* relances[i][l]: rows of dunning_actions
          reminders,    \* reminders[i]: tasks of category billing_reminder
          daily,        \* daily[w]: the run w of a daily task
          reminderDay,  \* date.today()
          levelCalls,   \* calls so far
          cutOff        \* runs cut off so far

remindersVars == <<due, after, relances, reminders, daily, reminderDay, levelCalls, cutOff>>

Days == 0..MaxReminderDay

NoRun == [task |-> "none"]

\* todo: the invoices and levels not looked at yet; made: the rows inserted.
DailyStates ==
    {NoRun} \union [task : {"dun"}, todo : SUBSET (Debts \X Levels), made : SUBSET (Debts \X Levels)]
            \union [task : {"remind"}, made : SUBSET Debts]

RemindersInit ==
    /\ due = [i \in Debts |-> NoDate] /\ after = [l \in Levels |-> NoDate]
    /\ relances = [i \in Debts |-> [l \in Levels |-> 0]]
    /\ reminders = [i \in Debts |-> 0]
    /\ daily = [w \in DailyRuns |-> NoRun]
    /\ reminderDay = 0 /\ levelCalls = 0 /\ cutOff = 0

-----------------------------------------------------------------------------

\* validate_invoice; no code ends this state of an invoice, a credit note neither.
BecomeDue(i, day) ==
    /\ due[i] = NoDate
    /\ due' = [due EXCEPT ![i] = day]
    /\ UNCHANGED <<after, relances, reminders, daily, reminderDay, levelCalls, cutOff>>

\* create_dunning_level and update_dunning_level; two levels may have one delay.
SaveLevel(l, days) ==
    /\ levelCalls < MaxLevelCalls
    /\ after' = [after EXCEPT ![l] = days]
    /\ levelCalls' = levelCalls + 1
    /\ UNCHANGED <<due, relances, reminders, daily, reminderDay, cutOff>>

Overdue(i) == due[i] # NoDate /\ due[i] < reminderDay

\* create_dunning_action: offered for overdue invoices, but checks nothing.
RelanceByHand(i, l) ==
    /\ due[i] # NoDate /\ after[l] # NoDate
    /\ levelCalls < MaxLevelCalls
    /\ relances' = [relances EXCEPT ![i][l] = @ + 1]
    /\ levelCalls' = levelCalls + 1
    /\ UNCHANGED <<due, after, reminders, daily, reminderDay, cutOff>>

-----------------------------------------------------------------------------
(* dunning_check_daily                                                       *)

\* The levels that an invoice has reached, and those with the longest delay,
\* of which the query returns any first.
Reached(i) == {l \in Levels : after[l] # NoDate /\ Overdue(i) /\ reminderDay - due[i] >= after[l]}

Applicable(i) == {l \in Reached(i) : \A x \in Reached(i) : after[x] <= after[l]}

\* The levels and then the overdue invoices are read.  A change of the levels in
\* between does as much as one after both.
StartDunning(w) ==
    /\ daily[w] = NoRun
    /\ \E chosen \in [{i \in Debts : Applicable(i) # {}} -> Levels] :
        /\ \A i \in DOMAIN chosen : chosen[i] \in Applicable(i)
        /\ DOMAIN chosen # {}
        /\ daily' = [daily EXCEPT ![w] =
                [task |-> "dun", todo |-> {<<i, chosen[i]>> : i \in DOMAIN chosen}, made |-> {}]]
    /\ UNCHANGED <<due, after, relances, reminders, reminderDay, levelCalls, cutOff>>

\* Mistake ruled out by RelancesCatchUp: a relance of any level will do.
DunOnce(w) ==
    /\ daily[w].task = "dun"
    /\ \E x \in daily[w].todo :
        daily' = [daily EXCEPT ![w].todo = @ \ {x},
                               ![w].made = IF \A l \in Levels : relances[x[1]][l] = 0
                                           THEN @ \union {x} ELSE @]
    /\ UNCHANGED <<due, after, relances, reminders, reminderDay, levelCalls, cutOff>>

\* An invoice gets its relance unless one of this level is committed.
Dun(w) ==
    /\ daily[w].task = "dun"
    /\ \E x \in daily[w].todo :
        daily' = [daily EXCEPT ![w].todo = @ \ {x},
                               ![w].made = IF relances[x[1]][x[2]] = 0 THEN @ \union {x} ELSE @]
    /\ UNCHANGED <<due, after, relances, reminders, reminderDay, levelCalls, cutOff>>

CommitDunning(w) ==
    /\ daily[w].task = "dun" /\ daily[w].todo = {}
    /\ relances' = [i \in Debts |-> [l \in Levels |->
                        IF <<i, l>> \in daily[w].made THEN relances[i][l] + 1 ELSE relances[i][l]]]
    /\ daily' = [daily EXCEPT ![w] = NoRun]
    /\ UNCHANGED <<due, after, reminders, reminderDay, levelCalls, cutOff>>

-----------------------------------------------------------------------------
(* send_due_reminders_daily                                                  *)

StartReminding(w) ==
    /\ daily[w] = NoRun
    /\ LET soon == {i \in Debts : /\ due[i] # NoDate /\ reminders[i] = 0
                                  /\ due[i] \in reminderDay..reminderDay + Ahead}
       IN  /\ soon # {}
           /\ daily' = [daily EXCEPT ![w] = [task |-> "remind", made |-> soon]]
    /\ UNCHANGED <<due, after, relances, reminders, reminderDay, levelCalls, cutOff>>

CommitReminders(w) ==
    /\ daily[w].task = "remind"
    /\ reminders' = [i \in Debts |-> IF i \in daily[w].made THEN reminders[i] + 1 ELSE reminders[i]]
    /\ daily' = [daily EXCEPT ![w] = NoRun]
    /\ UNCHANGED <<due, after, relances, reminderDay, levelCalls, cutOff>>

-----------------------------------------------------------------------------

\* The worker dies: the run is rolled back, and the next day brings another one.
CutOff(w) ==
    /\ daily[w] # NoRun /\ cutOff < MaxCutOff
    /\ daily' = [daily EXCEPT ![w] = NoRun]
    /\ cutOff' = cutOff + 1
    /\ UNCHANGED <<due, after, relances, reminders, reminderDay, levelCalls>>

NextReminderDay ==
    /\ reminderDay < MaxReminderDay
    /\ reminderDay' = reminderDay + 1
    /\ UNCHANGED <<due, after, relances, reminders, daily, levelCalls, cutOff>>

RemindersNext ==
    \/ \E i \in Debts :
        \/ \E day \in Days : BecomeDue(i, day)
        \/ \E l \in Levels : RelanceByHand(i, l)
    \/ \E l \in Levels, days \in Days : SaveLevel(l, days)
    \/ \E w \in DailyRuns :
        \/ StartDunning(w) \/ Dun(w) \/ CommitDunning(w)
        \/ StartReminding(w) \/ CommitReminders(w) \/ CutOff(w)
    \/ NextReminderDay

RemindersSpec == RemindersInit /\ [][RemindersNext]_remindersVars

\* The beat starts the tasks every day, and a run goes on until it commits.  On
\* the last day of the calendar the tasks run again and again.
RemindersFairSpec ==
    /\ RemindersSpec
    /\ \A w \in DailyRuns :
        WF_remindersVars(StartDunning(w) \/ Dun(w) \/ CommitDunning(w) \/ CommitReminders(w))

-----------------------------------------------------------------------------

RemindersTypeOK ==
    /\ due \in [Debts -> Days \union {NoDate}] /\ after \in [Levels -> Days \union {NoDate}]
    /\ relances \in [Debts -> [Levels -> 0..MaxLevelCalls + Cardinality(DailyRuns)]]
    /\ reminders \in [Debts -> 0..Cardinality(DailyRuns)]
    /\ daily \in [DailyRuns -> DailyStates]
    /\ reminderDay \in Days /\ levelCalls \in 0..MaxLevelCalls /\ cutOff \in 0..MaxCutOff

\* Again and again, each invoice either has a relance of a level that applies to
\* it or has reached none: levels that are changed, runs that overlap and runs
\* that are cut off delay a relance, none is forgotten (dunning_check_daily).
RelancesCatchUp ==
    \A i \in Debts : []<>(Applicable(i) = {} \/ \E l \in Applicable(i) : relances[i][l] > 0)

\* An invoice is dunned once at a level: the task looks for an existing action of
\* the level before it creates one (dunning_check_daily).
\* The code does not keep this.
OneRelancePerLevel == \A i \in Debts, l \in Levels : relances[i][l] <= 1

\* An invoice gets one reminder of its due date: the query leaves out those that
\* have one (send_due_reminders_daily).
\* The code does not keep this.
OneReminder == \A i \in Debts : reminders[i] <= 1

=============================================================================
