------------------------------- MODULE Repairs -------------------------------
(***************************************************************************)
(* backend/app/core/backfill_compliance.py fills the documents of the      *)
(* drivers from a list of names and those of the vehicles from their       *)
(* columns, commits, and recounts the checklists in a second transaction.  *)
(* It is run by hand and may be cut off and run again.                     *)
(***************************************************************************)
EXTENDS Integers, FiniteSets, Sequences

CONSTANTS Workers, Cars,  \* drivers and vehicles of the tenant
          Nom, LastName,  \* the two name columns of a driver
          Sheet,          \* DRIVER_DOCUMENTS: [person, word, papers] in the order of the file
          CarPapers,      \* CarPapers[v]: what the columns of a vehicle give: type -> state
          Demands,        \* compliance_templates: [kind, type, bloquant]
          Nobody,
          MaxFills        \* bounds the runs of the script

ASSUME RepairsAssumption ==
    /\ MaxFills \in Nat /\ Nobody \notin Workers
    /\ Len(Sheet) \in Nat /\ \A i \in 1..Len(Sheet) : Sheet[i].person \in Workers

VARIABLES papers,       \* documents: [owner, type, of, state], none archived
          conformity,   \* conformite_statut of drivers and vehicles
          recounting,   \* backfill has committed its documents
          fills         \* how often backfill has been started

repairsVars == <<papers, conformity, recounting, fills>>

RepairsInit ==
    /\ papers = {} /\ conformity = [x \in Workers \union Cars |-> "A_REGULARISER"]
    /\ recounting = FALSE /\ fills = 0

-----------------------------------------------------------------------------
(* backfill                                                                  *)

\* The driver of a line is looked up by the first word of the name alone, in nom
\* and then in last_name; LIMIT 1 has no ORDER BY.
Homonyms(word) ==
    LET byNom == {w \in Workers : Nom[w] = word}
    IN  IF byNom # {} THEN byNom ELSE {w \in Workers : LastName[w] = word}

Found(word) == IF Homonyms(word) = {} THEN {Nobody} ELSE Homonyms(word)

Lookups == {found \in [1..Len(Sheet) -> Workers \union {Nobody}] :
                \A i \in 1..Len(Sheet) : found[i] \in Found(Sheet[i].word)}

\* The documents of one owner that have no live document of their type yet.
Missing(held, owner, of, given) ==
    {[owner |-> owner, type |-> t, of |-> of, state |-> given[t]] :
        t \in {u \in DOMAIN given : \A p \in held : p.owner = owner => p.type # u}}

\* One line of the list; the driver was not found, or gets what is missing.
FiledLine(held, found, i) ==
    IF found[i] = Nobody THEN held
    ELSE held \union Missing(held, found[i], Sheet[i].person, Sheet[i].papers)

FiledDrivers(held, found) ==
    LET upTo[i \in 0..Len(Sheet)] == IF i = 0 THEN held ELSE FiledLine(upTo[i - 1], found, i)
    IN  upTo[Len(Sheet)]

FiledVehicles(held) == held \union UNION {Missing(held, v, v, CarPapers[v]) : v \in Cars}

\* Parts 1 and 2, one transaction.
FilePapers ==
    /\ ~recounting /\ fills < MaxFills
    /\ \E found \in Lookups : papers' = FiledVehicles(FiledDrivers(papers, found))
    /\ recounting' = TRUE /\ fills' = fills + 1
    /\ UNCHANGED <<conformity>>

\* Part 3: the state of one checklist.
DemandsOf(owner) == {d \in Demands : d.kind = IF owner \in Workers THEN "driver" ELSE "vehicle"}

StateOf(owner, type) ==
    LET own == {p \in papers : p.owner = owner /\ p.type = type}
    IN  IF own = {} THEN "missing" ELSE (CHOOSE p \in own : TRUE).state

Recounted(owner) ==
    LET states == {StateOf(owner, d.type) : d \in DemandsOf(owner)}
        blocking == {StateOf(owner, d.type) : d \in {x \in DemandsOf(owner) : x.bloquant}}
    IN  IF blocking \intersect {"missing", "expired"} # {} THEN "BLOQUANT"
        ELSE IF states \intersect {"missing", "expired", "soon"} # {} THEN "A_REGULARISER"
        ELSE "OK"

\* Only what has a document is recounted.
RecountPapers ==
    /\ recounting
    /\ conformity' = [x \in DOMAIN conformity |->
            IF \E p \in papers : p.owner = x THEN Recounted(x) ELSE conformity[x]]
    /\ recounting' = FALSE
    /\ UNCHANGED <<papers, fills>>

FillIsCutOff ==
    /\ recounting /\ recounting' = FALSE
    /\ UNCHANGED <<papers, conformity, fills>>

-----------------------------------------------------------------------------

RepairsNext == FilePapers \/ RecountPapers \/ FillIsCutOff

RepairsSpec == RepairsInit /\ [][RepairsNext]_repairsVars

-----------------------------------------------------------------------------

\* What is stored has the shape of the tables; a driver or vehicle has at most one
\* live document of a type.
RepairsTypeOK ==
    /\ \A p \in papers : p.owner \in Workers \union Cars /\ p.of \in Workers \union Cars
    /\ \A p, q \in papers : p.owner = q.owner /\ p.type = q.type => p = q
    /\ conformity \in [Workers \union Cars -> {"OK", "A_REGULARISER", "BLOQUANT"}]
    /\ recounting \in BOOLEAN /\ fills \in 0..MaxFills

\* The documents of a driver are those of the line with that driver's name:
\* "Find driver by name (NOM Prenom pattern)" (backfill).
\* The code does not keep this.
PapersAreTheirOwn == \A p \in papers : p.of = p.owner

\* A second run of the backfill changes nothing: "Idempotent - safe to re-run."
\* (backfill_compliance.py).
\* The code does not keep this.
AnotherFillAddsNothing == [][fills > 0 => papers' = papers]_papers

=============================================================================
