------------------------------- MODULE MCUpkeep -------------------------------
(***************************************************************************)
(* What runs beside the office: the daily reminders, the seeds and repair  *)
(* scripts, the programs that load papers and sheets, the numbering of     *)
(* missions, and the check digits of identifiers.  They share no table in  *)
(* this run, so a behaviour is a behaviour of one of them, the one in      *)
(* focus, while the others stay as they are at first.                      *)
(***************************************************************************)
EXTENDS Reminders, Seeding, Repairs, MissionNumbers, Identifiers, Uploads, FleetSheets

VARIABLE focus

UpkeepVars == <<remindersVars, seedVars, repairsVars, missionNumbersVars, typed, uploadVars,
                sheetVars, focus>>

Programs == {"reminders", "seeds", "repairs", "mission numbers", "identifiers", "uploads", "sheets"}

UpkeepInit ==
    /\ focus \in Programs
    /\ RemindersInit /\ SeedInit /\ RepairsInit /\ MissionNumbersInit /\ IdentifiersInit
    /\ UploadsInit /\ SheetsInit
    \* One of the first states of the sheets will do for the others.
    /\ focus # "sheets" => columns = [v \in Plates |-> IF v \in InFleet THEN {} ELSE Absent]
                        /\ flags = [d \in Staff |-> {}]

\* The variables of all programs but the one in focus.
Unmoved ==
    /\ focus # "reminders"       => UNCHANGED remindersVars
    /\ focus # "seeds"           => UNCHANGED seedVars
    /\ focus # "repairs"         => UNCHANGED repairsVars
    /\ focus # "mission numbers" => UNCHANGED missionNumbersVars
    /\ focus # "identifiers"     => UNCHANGED typed
    /\ focus # "uploads"         => UNCHANGED uploadVars
    /\ focus # "sheets"          => UNCHANGED sheetVars
    /\ UNCHANGED focus

UpkeepNext ==
    \/ focus = "reminders"       /\ RemindersNext      /\ Unmoved
    \/ focus = "seeds"           /\ SeedNext           /\ Unmoved
    \/ focus = "repairs"         /\ RepairsNext        /\ Unmoved
    \/ focus = "mission numbers" /\ MissionNumbersNext /\ Unmoved
    \/ focus = "identifiers"     /\ IdentifiersNext    /\ Unmoved
    \/ focus = "uploads"         /\ UploadsNext        /\ Unmoved
    \/ focus = "sheets"          /\ SheetsNext         /\ Unmoved

\* The fairness of RemindersFairSpec; nothing else is promised to happen.
UpkeepSpec ==
    /\ UpkeepInit
    /\ [][UpkeepNext]_UpkeepVars
    /\ \A w \in DailyRuns :
        WF_UpkeepVars(/\ focus = "reminders" /\ Unmoved
                      /\ StartDunning(w) \/ Dun(w) \/ CommitDunning(w) \/ CommitReminders(w))

-----------------------------------------------------------------------------

\* Two drivers of one family name, and a name of two words.
SomeWorkers  == {"aF", "aK", "el"}
SomeNoms     == [w \in SomeWorkers |-> IF w = "el" THEN "EL IDRISSI" ELSE "ABDALLAH"]
SomeSheet ==
    << [person |-> "aF", word |-> "ABDALLAH", papers |-> [adr |-> "valid", ci |-> "soon"]],
       [person |-> "aK", word |-> "ABDALLAH", papers |-> [ci |-> "expired"]],
       [person |-> "el", word |-> "EL", papers |-> [ci |-> "valid"]] >>
SomePapers   == [v \in {"v"} |-> [ct |-> "valid"]]
SomeDemands  == {[kind |-> "driver", type |-> "ci", bloquant |-> TRUE],
                 [kind |-> "driver", type |-> "adr", bloquant |-> FALSE],
                 [kind |-> "vehicle", type |-> "ct", bloquant |-> TRUE]}

SomeSirens == {<<7, 3, 2, 8, 2, 9, 3, 2, 0>>, <<5, 5, 2, 1, 0, 0, 5, 5, 4>>}
SomeSirets == {<<7, 3, 2, 8, 2, 9, 3, 2, 0, 0, 0, 0, 7, 4>>}
SomeNirs   == {<<2, 6, 9, 0, 5, 4, 9, 5, 8, 8, 1, 5, 7, 8, 0>>}
SomeIbans  == {<<15, 27, 1, 4, 2, 0, 0, 4, 1, 0, 1, 0, 0, 5, 0, 5, 0, 0, 0, 1, 3, 22, 0, 2, 6, 0, 6>>,
               <<15, 27, 5, 0, 2, 0, 0, 4, 1, 0, 1, 0, 0, 5, 0, 11, 1, 0, 0, 1, 3, 22, 0, 2, 6, 0, 6>>}

\* Three papers of one file: the lists of the programs have several of a file.
SomeParcels == [p \in Uploaders |-> <<"a", "a", "a">>]

SomeQualified == [d \in Staff |-> {"fimo", "adr"}]

-----------------------------------------------------------------------------

\* The rows, and what a program remembers between its steps, are of the kinds that
\* the tables and the programs hold.
UpkeepTypeOK ==
    /\ RemindersTypeOK /\ SeedTypeOK /\ RepairsTypeOK /\ MissionNumbersTypeOK
    /\ IdentifiersTypeOK /\ UploadsTypeOK /\ SheetsTypeOK

=============================================================================
