------------------------------- MODULE Missions -------------------------------
(***************************************************************************)
(* Transport missions (table jobs), their proofs of delivery and disputes  *)
(* (backend/app/modules/jobs/router.py), and the missions that route       *)
(* templates generate.                                                     *)
(*                                                                         *)
(* A handler that changes the status of a mission first reads the mission, *)
(* checks what it read, and then updates the row by its id alone, in a     *)
(* READ COMMITTED transaction: other calls may have changed the row in     *)
(* between.  Only a few handlers repeat the check in the WHERE clause of   *)
(* their single UPDATE; those are one step here.  An UPDATE and the COMMIT *)
(* that follows it are one step: until then nobody sees the row, and other *)
(* updates of it wait.                                                     *)
(***************************************************************************)
EXTENDS Integers

CONSTANTS Missions,   \* ids of missions
          Pods,       \* ids of proofs of delivery (POD)
          Disputes,   \* ids of disputes (litiges)
          Sessions,   \* database sessions, each serving one call at a time
          Parties,    \* assignment columns: driver_id, subcontractor_id, ...
          Amounts,    \* amounts of money; every handler takes 0 for no amount
          OpenStatuts,    \* statuts of a dispute: OUVERT, EN_INSTRUCTION, RESOLU
          ClosedStatuts,  \* CLOS_ACCEPTE, CLOS_REFUSE, CLOS_SANS_SUITE
          None        \* SQL's NULL

VARIABLES
    \* table jobs
    status,         \* status[m], None before the INSERT
    sale,           \* montant_vente_ht
    purchase,       \* montant_achat_ht
    margin,         \* marge_brute
    parties,        \* the assignment columns that are not NULL
    subcontracted,  \* is_subcontracted
    legacyPod,      \* pod_s3_key is set
    \* tables proof_of_delivery, disputes and audit_logs
    pods,           \* pods[p]: None or the mission and the statut of p
    disputes,       \* disputes[x]: None or the mission and the statut of x
    audited,        \* audited[m]: the new statuses logged by mission_transition
    \* sessions
    on,             \* the mission or dispute whose row the call has read
    seen,           \* the status it read
    seenSale,       \* the montant_vente_ht it read
    seenPod,        \* whether pod_s3_key was set
    proven,         \* whether it has checked that a POD exists
    \* observed, not stored
    past,           \* past[m]: every status m has had
    approved        \* the PODs that were VALIDE at some time

jobVars     == <<status, past, sale, purchase, margin, parties, subcontracted,
                 legacyPod>>
podVars     == <<pods, approved>>
sessionVars == <<on, seen, seenSale, seenPod, proven>>
vars        == <<jobVars, podVars, disputes, audited, sessionVars>>

Statuts == {"BROUILLON", "PLANIFIEE", "AFFECTEE", "EN_COURS", "LIVREE",
            "CLOTUREE", "FACTUREE", "ANNULEE"}

\* VALID_TRANSITIONS of schemas.py; a spelling of the previous version of the
\* program ("draft", "planned", ...) counts as the status it is normalised to.
ValidTransitions ==
    {<<"BROUILLON", "PLANIFIEE">>, <<"BROUILLON", "ANNULEE">>,
     <<"PLANIFIEE", "AFFECTEE">>, <<"PLANIFIEE", "BROUILLON">>,
     <<"PLANIFIEE", "ANNULEE">>,
     <<"AFFECTEE", "EN_COURS">>, <<"AFFECTEE", "PLANIFIEE">>,
     <<"AFFECTEE", "ANNULEE">>,
     <<"EN_COURS", "LIVREE">>, <<"EN_COURS", "AFFECTEE">>,
     <<"EN_COURS", "ANNULEE">>,
     <<"LIVREE", "CLOTUREE">>, <<"CLOTUREE", "FACTUREE">>}

\* assign_mission also takes a draft, without planning it first.
Successions == ValidTransitions \union {<<"BROUILLON", "AFFECTEE">>}

PodStatuts == {"EN_ATTENTE", "VALIDE", "REJETE"}

ASSUME MissionsAssumption ==
    /\ Missions \intersect Disputes = {}
    /\ Amounts \subseteq Int /\ 0 \notin Amounts
    /\ "OUVERT" \in OpenStatuts
    /\ OpenStatuts \intersect ClosedStatuts = {}
    /\ None \notin Missions \union Disputes \union Int
    /\ None \notin Statuts
    /\ None \notin Missions \X (PodStatuts \union OpenStatuts \union ClosedStatuts)

Init ==
    /\ status = [m \in Missions |-> None]
    /\ past = [m \in Missions |-> {}]
    /\ sale = [m \in Missions |-> None]
    /\ purchase = [m \in Missions |-> None]
    /\ margin = [m \in Missions |-> None]
    /\ parties = [m \in Missions |-> {}]
    /\ subcontracted = [m \in Missions |-> FALSE]
    /\ legacyPod = [m \in Missions |-> FALSE]
    /\ pods = [p \in Pods |-> None]
    /\ approved = {}
    /\ disputes = [x \in Disputes |-> None]
    /\ audited = [m \in Missions |-> {}]
    /\ on = [s \in Sessions |-> None]
    /\ seen = [s \in Sessions |-> None]
    /\ seenSale = [s \in Sessions |-> None]
    /\ seenPod = [s \in Sessions |-> FALSE]
    /\ proven = [s \in Sessions |-> FALSE]

-----------------------------------------------------------------------------
(* Calls of one statement.                                                 *)

Coalesce(new, old) == IF new = None THEN old ELSE new

\* The row of m gets status st.
SetStatus(m, st) ==
    /\ status' = [status EXCEPT ![m] = st]
    /\ past' = [past EXCEPT ![m] = @ \union {st}]

CreateMission(m, amount) ==
    /\ status[m] = None
    /\ SetStatus(m, "BROUILLON")
    /\ sale' = [sale EXCEPT ![m] = amount]
    /\ UNCHANGED <<purchase, margin, parties, subcontracted, legacyPod, podVars,
                   disputes, audited, sessionVars>>

\* generate_runs inserts a planned mission that takes its assignment and its
\* amounts from the template as they are; the margin is left NULL.
GenerateMission(m, given, sub, vente, achat) ==
    /\ status[m] = None
    /\ SetStatus(m, "PLANIFIEE")
    /\ parties' = [parties EXCEPT ![m] = given]
    /\ subcontracted' = [subcontracted EXCEPT ![m] = sub]
    /\ sale' = [sale EXCEPT ![m] = vente]
    /\ purchase' = [purchase EXCEPT ![m] = achat]
    /\ UNCHANGED <<margin, legacyPod, podVars, disputes, audited, sessionVars>>

\* UPDATE ... WHERE status IN (...): the amount may change, the margin stays.
UpdateMission(m, amount) ==
    /\ status[m] \in {"BROUILLON", "PLANIFIEE"}
    /\ sale' = [sale EXCEPT ![m] = Coalesce(amount, @)]
    /\ UNCHANGED <<status, past, purchase, margin, parties, subcontracted,
                   legacyPod, podVars, disputes, audited, sessionVars>>

UnassignMission(m) ==
    /\ status[m] = "AFFECTEE"
    /\ SetStatus(m, "PLANIFIEE")
    /\ parties' = [parties EXCEPT ![m] = {}]
    /\ subcontracted' = [subcontracted EXCEPT ![m] = FALSE]
    /\ UNCHANGED <<sale, purchase, margin, legacyPod, podVars, disputes, audited,
                   sessionVars>>

UploadPodLegacy(m) ==
    /\ status[m] \in {"EN_COURS", "LIVREE"}
    /\ legacyPod' = [legacyPod EXCEPT ![m] = TRUE]
    /\ UNCHANGED <<status, past, sale, purchase, margin, parties, subcontracted,
                   podVars, disputes, audited, sessionVars>>

\* validate_pod looks neither at the mission nor at the present statut.
ValidatePod(p, verdict) ==
    /\ pods[p] # None
    /\ pods' = [pods EXCEPT ![p] = <<@[1], verdict>>]
    /\ approved' = IF verdict = "VALIDE" THEN approved \union {p} ELSE approved
    /\ UNCHANGED <<jobVars, disputes, audited, sessionVars>>

-----------------------------------------------------------------------------
(* Calls that read, check and write.                                       *)

\* The SELECT with which transition_mission, close_mission, assign_mission,
\* create_pod and create_dispute begin.  Which of them the call is, and its
\* input, make a difference only at the write.
ReadMission(s, m) ==
    /\ on[s] = None
    /\ status[m] # None
    /\ on' = [on EXCEPT ![s] = m]
    /\ seen' = [seen EXCEPT ![s] = status[m]]
    /\ seenSale' = [seenSale EXCEPT ![s] = sale[m]]
    /\ seenPod' = [seenPod EXCEPT ![s] = legacyPod[m]]
    /\ UNCHANGED <<proven, jobVars, podVars, disputes, audited>>

ReadDispute(s, x) ==
    /\ on[s] = None
    /\ disputes[x] # None
    /\ on' = [on EXCEPT ![s] = x]
    /\ seen' = [seen EXCEPT ![s] = disputes[x][2]]
    /\ UNCHANGED <<seenSale, seenPod, proven, jobVars, podVars, disputes, audited>>

\* The call of s is over.
Answer(s) ==
    /\ on' = [on EXCEPT ![s] = None]
    /\ seen' = [seen EXCEPT ![s] = None]
    /\ seenSale' = [seenSale EXCEPT ![s] = None]
    /\ seenPod' = [seenPod EXCEPT ![s] = FALSE]
    /\ proven' = [proven EXCEPT ![s] = FALSE]

\* A check refuses the call, or it fails and its transaction is rolled back.
GiveUp(s) ==
    /\ on[s] # None
    /\ Answer(s)
    /\ UNCHANGED <<jobVars, podVars, disputes, audited>>

\* Mistake ruled out by ClosedOnEvidence: any POD will do.
CheckAnyPod(s) ==
    /\ on[s] \in Missions /\ ~proven[s]
    /\ seen[s] = "LIVREE"
    /\ seenPod[s] \/ \E p \in Pods : pods[p] # None /\ pods[p][1] = on[s]
    /\ proven' = [proven EXCEPT ![s] = TRUE]
    /\ UNCHANGED <<on, seen, seenSale, seenPod, jobVars, podVars, disputes, audited>>

\* RG-C-024: the second SELECT of a call that closes a mission, once the
\* status it read allows it.
CheckPod(s) ==
    /\ on[s] \in Missions /\ ~proven[s]
    /\ seen[s] = "LIVREE"
    /\ seenPod[s] \/ \E p \in Pods : pods[p] = <<on[s], "VALIDE">>
    /\ proven' = [proven EXCEPT ![s] = TRUE]
    /\ UNCHANGED <<on, seen, seenSale, seenPod, jobVars, podVars, disputes, audited>>

\* Mistake ruled out by DeliveredIsAudited: the status that was read is logged
\* in place of the new one.
TransitionLogsOld(s, target) ==
    /\ on[s] \in Missions
    /\ <<seen[s], target>> \in ValidTransitions
    /\ proven[s] <=> (target = "CLOTUREE")
    /\ SetStatus(on[s], target)
    /\ audited' = [audited EXCEPT ![on[s]] = @ \union {seen[s]}]
    /\ Answer(s)
    /\ UNCHANGED <<sale, purchase, margin, parties, subcontracted, legacyPod,
                   podVars, disputes>>

\* transition_mission: VALID_TRANSITIONS applied to the status read; UPDATE
\* and audit log in one transaction.
Transition(s, target) ==
    /\ on[s] \in Missions
    /\ <<seen[s], target>> \in ValidTransitions
    /\ proven[s] <=> (target = "CLOTUREE")
    /\ SetStatus(on[s], target)
    /\ audited' = [audited EXCEPT ![on[s]] = @ \union {target}]
    /\ Answer(s)
    /\ UNCHANGED <<sale, purchase, margin, parties, subcontracted, legacyPod,
                   podVars, disputes>>

\* Mistake ruled out by FollowsLifecycle: close_mission without its checks.
CloseAnyMission(s) ==
    /\ on[s] \in Missions
    /\ SetStatus(on[s], "CLOTUREE")
    /\ Answer(s)
    /\ UNCHANGED <<sale, purchase, margin, parties, subcontracted, legacyPod,
                   podVars, disputes, audited>>

\* close_mission, the older way to close: the same checks, no audit log.
CloseMission(s) ==
    /\ on[s] \in Missions
    /\ seen[s] = "LIVREE" /\ proven[s]
    /\ SetStatus(on[s], "CLOTUREE")
    /\ Answer(s)
    /\ UNCHANGED <<sale, purchase, margin, parties, subcontracted, legacyPod,
                   podVars, disputes, audited>>

\* assign_mission: columns without a value keep theirs (COALESCE) but
\* is_subcontracted is overwritten; the margin is computed from the sale
\* amount read.  RG-C-016: a subcontracted mission needs a purchase amount.
\* Whether driver and vehicle are ACTIF is left open: a refusal is a GiveUp.
AssignMission(s, given, sub, achat) ==
    LET m == on[s] IN
    /\ m \in Missions
    /\ seen[s] \in {"BROUILLON", "PLANIFIEE", "AFFECTEE"}
    /\ sub => achat # None
    /\ SetStatus(m, "AFFECTEE")
    /\ parties' = [parties EXCEPT ![m] = @ \union given]
    /\ subcontracted' = [subcontracted EXCEPT ![m] = sub]
    /\ purchase' = [purchase EXCEPT ![m] = Coalesce(achat, @)]
    /\ margin' = IF seenSale[s] # None /\ achat # None
                 THEN [margin EXCEPT ![m] = seenSale[s] - achat]
                 ELSE margin
    /\ Answer(s)
    /\ UNCHANGED <<sale, legacyPod, podVars, disputes, audited>>

\* Mistake ruled out by PaperworkFollowsTransport: RG-C-022 is not checked.
CreatePodAnytime(s, p) ==
    /\ on[s] \in Missions
    /\ pods[p] = None
    /\ pods' = [pods EXCEPT ![p] = <<on[s], "EN_ATTENTE">>]
    /\ Answer(s)
    /\ UNCHANGED <<approved, jobVars, disputes, audited>>

\* RG-C-022: a POD is added to a mission read as EN_COURS or LIVREE.
CreatePod(s, p) ==
    /\ on[s] \in Missions
    /\ seen[s] \in {"EN_COURS", "LIVREE"}
    /\ pods[p] = None
    /\ pods' = [pods EXCEPT ![p] = <<on[s], "EN_ATTENTE">>]
    /\ Answer(s)
    /\ UNCHANGED <<approved, jobVars, disputes, audited>>

\* Mistake ruled out by TypeOK: the dispute takes the statut of its mission.
CreateDisputeAsMission(s, x) ==
    /\ on[s] \in Missions
    /\ seen[s] \in {"LIVREE", "CLOTUREE", "FACTUREE"}
    /\ disputes[x] = None
    /\ disputes' = [disputes EXCEPT ![x] = <<on[s], seen[s]>>]
    /\ Answer(s)
    /\ UNCHANGED <<jobVars, podVars, audited>>

\* RG-C-030: a dispute is opened on a mission read as delivered or later.
CreateDispute(s, x) ==
    /\ on[s] \in Missions
    /\ seen[s] \in {"LIVREE", "CLOTUREE", "FACTUREE"}
    /\ disputes[x] = None
    /\ disputes' = [disputes EXCEPT ![x] = <<on[s], "OUVERT">>]
    /\ Answer(s)
    /\ UNCHANGED <<jobVars, podVars, audited>>

\* RG-C-032: a dispute read as closed is not reopened.  A call that leaves the
\* statut alone changes nothing that is modelled, like a GiveUp.
UpdateDispute(s, statut) ==
    /\ on[s] \in Disputes
    /\ seen[s] \in ClosedStatuts => statut \in ClosedStatuts
    /\ disputes' = [disputes EXCEPT ![on[s]] = <<@[1], statut>>]
    /\ Answer(s)
    /\ UNCHANGED <<jobVars, podVars, audited>>

-----------------------------------------------------------------------------
MaybeAmount == Amounts \union {None}

SingleStatement(m) ==
    \/ \E v \in MaybeAmount : CreateMission(m, v) \/ UpdateMission(m, v)
    \/ \E given \in SUBSET Parties, sub \in BOOLEAN, v, a \in MaybeAmount :
          GenerateMission(m, given, sub, v, a)
    \/ UnassignMission(m)
    \/ UploadPodLegacy(m)

ReadThenWrite(s) ==
    \/ \E m \in Missions : ReadMission(s, m)
    \/ \E x \in Disputes : ReadDispute(s, x)
    \/ CheckPod(s)
    \/ \E target \in Statuts : Transition(s, target)
    \/ CloseMission(s)
    \/ \E given \in SUBSET Parties, sub \in BOOLEAN, a \in MaybeAmount :
          AssignMission(s, given, sub, a)
    \/ \E p \in Pods : CreatePod(s, p)
    \/ \E x \in Disputes : CreateDispute(s, x)
    \/ \E statut \in OpenStatuts \union ClosedStatuts : UpdateDispute(s, statut)
    \/ GiveUp(s)

Next ==
    \/ \E m \in Missions : SingleStatement(m)
    \/ \E p \in Pods, verdict \in {"VALIDE", "REJETE"} : ValidatePod(p, verdict)
    \/ \E s \in Sessions : ReadThenWrite(s)

Spec == Init /\ [][Next]_vars

-----------------------------------------------------------------------------
(* Properties                                                              *)

\* Every variable has a value of its type.
TypeOK ==
    /\ status \in [Missions -> Statuts \union {None}]
    /\ past \in [Missions -> SUBSET Statuts]
    /\ sale \in [Missions -> MaybeAmount]
    /\ purchase \in [Missions -> MaybeAmount]
    /\ margin \in [Missions -> Int \union {None}]
    /\ parties \in [Missions -> SUBSET Parties]
    /\ subcontracted \in [Missions -> BOOLEAN]
    /\ legacyPod \in [Missions -> BOOLEAN]
    /\ pods \in [Pods -> (Missions \X PodStatuts) \union {None}]
    /\ approved \subseteq Pods
    /\ disputes \in [Disputes -> (Missions \X (OpenStatuts \union ClosedStatuts))
                                   \union {None}]
    /\ audited \in [Missions -> SUBSET Statuts]
    /\ on \in [Sessions -> Missions \union Disputes \union {None}]
    /\ seen \in [Sessions -> Statuts \union OpenStatuts
                               \union ClosedStatuts \union {None}]
    /\ seenSale \in [Sessions -> MaybeAmount]
    /\ seenPod \in [Sessions -> BOOLEAN]
    /\ proven \in [Sessions -> BOOLEAN]

\* RG-C-024 as far as interleavings leave it true: a mission that was ever
\* closed or invoiced had a proof of delivery - a POD of its own that was
\* VALIDE at some time, or a key of the older upload - whatever raced with
\* the closing call (transition_mission, close_mission).
ClosedOnEvidence ==
    \A m \in Missions : past[m] \intersect {"CLOTUREE", "FACTUREE"} # {} =>
        legacyPod[m] \/ \E p \in approved : pods[p][1] = m

\* RG-C-022 and RG-C-030 as far as interleavings leave them true: a POD, new
\* or old style, belongs to a mission that did depart, and a dispute to a
\* mission that was delivered.
PaperworkFollowsTransport ==
    /\ \A p \in Pods : pods[p] # None => "EN_COURS" \in past[pods[p][1]]
    /\ \A m \in Missions : legacyPod[m] => "EN_COURS" \in past[m]
    /\ \A x \in Disputes : disputes[x] # None => "LIVREE" \in past[disputes[x][1]]

\* The audit log alone shows the transport of every mission that was closed,
\* invoiced or disputed: its departure and its delivery are entries of it,
\* though assign_mission, unassign_mission and close_mission log nothing.
DeliveredIsAudited ==
    /\ \A m \in Missions : status[m] \in {"LIVREE", "CLOTUREE", "FACTUREE"} =>
          {"EN_COURS", "LIVREE"} \subseteq audited[m]
    /\ \A x \in Disputes : disputes[x] # None =>
          {"EN_COURS", "LIVREE"} \subseteq audited[disputes[x][1]]

\* A mission only moves to a status that follows one it has had: no
\* interleaving of stale writes skips a stage of the lifecycle.
Lifecycle == INSTANCE StaleLifecycle WITH
                 Items <- Missions, First <- {"BROUILLON", "PLANIFIEE"},
                 Follows <- Successions

FollowsLifecycle == Lifecycle!Spec

\* C.6.1 of docs/02-modules-A-D.md: ANNULEE is a terminal status.
CancelledIsTerminal ==
    \A m \in Missions : "ANNULEE" \in past[m] => status[m] = "ANNULEE"

\* docs/02-modules-A-D.md and schema-database.md: marge_brute is the amount of
\* the sale minus the amount of the purchase.
MarginIsCurrent ==
    \A m \in Missions : margin[m] # None =>
        sale[m] # None /\ purchase[m] # None /\ margin[m] = sale[m] - purchase[m]

=============================================================================
