---------------------------- MODULE MissionsProofs ----------------------------
(***************************************************************************)
(* Proofs about Missions for any number of missions, PODs, disputes and    *)
(* concurrent sessions: types, what a status proves about the past of a    *)
(* mission whatever stale writes raced, and that the handlers implement    *)
(* StaleLifecycle.                                                         *)
(***************************************************************************)
EXTENDS Missions, TLAPS

DisputeStatuts == OpenStatuts \union ClosedStatuts

\* A session that has read a dispute can rely on its row, and one that has
\* checked a POD works on a mission.
LocalsSet ==
    \A s \in Sessions :
        /\ on[s] \in Disputes => disputes[on[s]] \in Missions \X DisputeStatuts
        /\ on[s] \in Missions => seen[s] \in Statuts
        /\ proven[s] => on[s] \in Missions

Typed == TypeOK /\ LocalsSet

LEMMA TypedInit == Init => Typed
  BY MissionsAssumption DEF Init, Typed, TypeOK, LocalsSet, MaybeAmount

LEMMA TypedStep == Typed /\ [Next]_vars => Typed'
  <1> SUFFICES ASSUME Typed, [Next]_vars PROVE Typed'
    OBVIOUS
  <1> USE MissionsAssumption DEF Typed, TypeOK, LocalsSet, DisputeStatuts,
              MaybeAmount, Statuts, jobVars, podVars, sessionVars
  <1>1. ASSUME NEW m \in Missions, NEW v \in MaybeAmount, CreateMission(m, v)
        PROVE  Typed'
    BY <1>1 DEF CreateMission, SetStatus
  <1>2. ASSUME NEW m \in Missions, NEW v \in MaybeAmount, UpdateMission(m, v)
        PROVE  Typed'
    BY <1>2 DEF UpdateMission, Coalesce
  <1>3. ASSUME NEW m \in Missions, NEW given \in SUBSET Parties, NEW sub \in BOOLEAN,
               NEW v \in MaybeAmount, NEW a \in MaybeAmount,
               GenerateMission(m, given, sub, v, a)
        PROVE  Typed'
    BY <1>3 DEF GenerateMission, SetStatus
  <1>4. ASSUME NEW m \in Missions, UnassignMission(m) PROVE Typed'
    BY <1>4 DEF UnassignMission, SetStatus
  <1>5. ASSUME NEW m \in Missions, UploadPodLegacy(m) PROVE Typed'
    BY <1>5 DEF UploadPodLegacy
  <1>6. ASSUME NEW p \in Pods, NEW verdict \in {"VALIDE", "REJETE"},
               ValidatePod(p, verdict)
        PROVE  Typed'
    BY <1>6 DEF ValidatePod, PodStatuts
  <1>7. ASSUME NEW s \in Sessions, NEW m \in Missions, ReadMission(s, m) PROVE Typed'
    BY <1>7 DEF ReadMission
  <1>8. ASSUME NEW s \in Sessions, NEW x \in Disputes, ReadDispute(s, x) PROVE Typed'
    BY <1>8 DEF ReadDispute
  <1>9. ASSUME NEW s \in Sessions, CheckPod(s) PROVE Typed'
    BY <1>9 DEF CheckPod
  <1>10. ASSUME NEW s \in Sessions, NEW target \in Statuts,
                Transition(s, target)
         PROVE  Typed'
    BY <1>10 DEF Transition, SetStatus, Answer
  <1>11. ASSUME NEW s \in Sessions, CloseMission(s) PROVE Typed'
    BY <1>11 DEF CloseMission, SetStatus, Answer
  <1>12. ASSUME NEW s \in Sessions, NEW given \in SUBSET Parties, NEW sub \in BOOLEAN,
                NEW a \in MaybeAmount, AssignMission(s, given, sub, a)
         PROVE  Typed'
    <2> DEFINE m == on[s]
    <2>1. m \in Missions
      BY <1>12 DEF AssignMission
    <2>2. margin' \in [Missions -> Int \union {None}]
      <3>1. CASE seenSale[s] # None /\ a # None
        <4>1. seenSale[s] \in Int /\ a \in Int
          BY <3>1
        <4>2. seenSale[s] - a \in Int
          BY <4>1
        <4>3. margin' = [margin EXCEPT ![m] = seenSale[s] - a]
          BY <1>12, <3>1 DEF AssignMission
        <4> QED
          BY <2>1, <4>2, <4>3
      <3>2. CASE ~(seenSale[s] # None /\ a # None)
        BY <1>12, <3>2 DEF AssignMission
      <3> QED
        BY <3>1, <3>2
    <2>3. parties' \in [Missions -> SUBSET Parties]
      BY <1>12, <2>1 DEF AssignMission
    <2>4. /\ purchase' \in [Missions -> MaybeAmount]
          /\ subcontracted' \in [Missions -> BOOLEAN]
      BY <1>12, <2>1 DEF AssignMission, Coalesce
    <2>5. /\ status' \in [Missions -> Statuts \union {None}]
          /\ past' \in [Missions -> SUBSET Statuts]
      BY <1>12, <2>1 DEF AssignMission, SetStatus
    <2> QED
      BY <1>12, <2>1, <2>2, <2>3, <2>4, <2>5 DEF AssignMission, Answer
  <1>13. ASSUME NEW s \in Sessions, NEW p \in Pods, CreatePod(s, p) PROVE Typed'
    BY <1>13 DEF CreatePod, Answer, PodStatuts
  <1>14. ASSUME NEW s \in Sessions, NEW x \in Disputes, CreateDispute(s, x)
         PROVE  Typed'
    BY <1>14 DEF CreateDispute, Answer
  <1>15. ASSUME NEW s \in Sessions, NEW statut \in OpenStatuts \union ClosedStatuts,
                UpdateDispute(s, statut)
         PROVE  Typed'
    BY <1>15 DEF UpdateDispute, Answer
  <1>16. ASSUME NEW s \in Sessions, GiveUp(s) PROVE Typed'
    BY <1>16 DEF GiveUp, Answer
  <1>17. CASE UNCHANGED vars
    BY <1>17 DEF vars
  <1> HIDE DEF Typed, TypeOK, LocalsSet, DisputeStatuts, MaybeAmount,
               Statuts
  <1> QED
    BY <1>1, <1>2, <1>3, <1>4, <1>5, <1>6, <1>7, <1>8, <1>9, <1>10, <1>11,
       <1>12, <1>13, <1>14, <1>15, <1>16, <1>17
    DEF Next, SingleStatement, ReadThenWrite

-----------------------------------------------------------------------------
(* What the statuses prove.                                                *)

Evidence(m) == legacyPod[m] \/ \E p \in approved : pods[p][1] = m

\* A mission has its status; later statuses come with the ones they follow on,
\* departures and deliveries with their log entries, closings with evidence.
Story(m) ==
    /\ status[m] \in past[m] \union {None}
    /\ IF status[m] = None
       THEN past[m] = {}
       ELSE past[m] \intersect {"BROUILLON", "PLANIFIEE"} # {}
    /\ "LIVREE" \in past[m] => "EN_COURS" \in past[m]
    /\ "CLOTUREE" \in past[m] => "LIVREE" \in past[m] /\ Evidence(m)
    /\ "FACTUREE" \in past[m] => "CLOTUREE" \in past[m]
    /\ past[m] \intersect {"EN_COURS", "LIVREE"} \subseteq audited[m]
    /\ legacyPod[m] => "EN_COURS" \in past[m]

Chronicle == \A m \in Missions : Story(m)

\* What a session has read of a mission was true once, and that stays so.
Witnesses ==
    \A s \in Sessions : on[s] \in Missions =>
        /\ seen[s] \in past[on[s]]
        /\ seenPod[s] => legacyPod[on[s]]
        /\ proven[s] => Evidence(on[s]) /\ seen[s] = "LIVREE"

\* PODs and disputes.
Paperwork ==
    /\ \A p \in Pods : pods[p] # None => "EN_COURS" \in past[pods[p][1]]
    /\ \A p \in Pods : pods[p] # None /\ pods[p][2] = "VALIDE" => p \in approved
    /\ \A p \in approved : pods[p] # None
    /\ \A x \in Disputes : disputes[x] # None => "LIVREE" \in past[disputes[x][1]]

IInv == Chronicle /\ Witnesses /\ Paperwork

\* A pair is not NULL.
LEMMA RowIsNotNull ==
    /\ \A m \in Missions, st \in PodStatuts : <<m, st>> # None
    /\ \A row \in Missions \X PodStatuts : row # None
    /\ \A row \in Missions \X DisputeStatuts : row # None
  BY MissionsAssumption DEF DisputeStatuts

LEMMA IInvInit == Init => IInv
  BY MissionsAssumption
  DEF Init, IInv, Chronicle, Story, Witnesses, Paperwork

\* What the step needs to know of NULL: no id and no statut is NULL.
LEMMA NullIsNoValue ==
    /\ Missions \intersect Disputes = {}
    /\ None \notin Missions \union Disputes
    /\ None \notin Statuts
    /\ OpenStatuts \intersect ClosedStatuts = {}
    /\ None \notin Missions \X (PodStatuts \union OpenStatuts \union ClosedStatuts)
  BY MissionsAssumption

\* A mission that appears has no story yet but its first status.
LEMMA FirstStatus ==
    ASSUME Typed, IInv, NEW m \in Missions, status[m] = None,
           NEW st \in {"BROUILLON", "PLANIFIEE"}, SetStatus(m, st),
           UNCHANGED <<legacyPod, podVars, disputes, audited, sessionVars>>
    PROVE  IInv'
  <1>1. /\ past[m] = {} /\ ~legacyPod[m]
        /\ past \in [Missions -> SUBSET Statuts]
        /\ status \in [Missions -> Statuts \union {None}]
    BY DEF IInv, Chronicle, Story, Typed, TypeOK
  <1>2. /\ past'[m] = {st} /\ status'[m] = st
        /\ \A n \in Missions : n # m => past'[n] = past[n] /\ status'[n] = status[n]
        /\ \A n \in Missions : past[n] \subseteq past'[n]
        /\ UNCHANGED <<legacyPod, pods, approved, disputes, audited,
                       on, seen, seenSale, seenPod, proven>>
    BY <1>1 DEF SetStatus, podVars, sessionVars
  <1>3. ASSUME NEW n \in Missions PROVE Story(n)'
    <2>1. CASE n = m
      <3>1. st # None
        BY NullIsNoValue DEF Statuts
      <3> QED
        BY <1>1, <1>2, <2>1, <3>1 DEF Story
    <2>2. CASE n # m
      <3>1. Story(n) /\ Evidence(n)' = Evidence(n)
        BY <1>2 DEF IInv, Chronicle, Evidence
      <3> QED
        BY <1>2, <2>2, <3>1 DEF Story
    <2> QED
      BY <2>1, <2>2
  <1>4. Witnesses'
    BY <1>2 DEF IInv, Witnesses, Evidence
  <1>5. Paperwork'
    <2>1. /\ \A p \in Pods : pods[p] # None => pods[p][1] \in Missions
          /\ \A x \in Disputes : disputes[x] # None => disputes[x][1] \in Missions
      BY DEF Typed, TypeOK
    <2> QED
      BY <1>2, <2>1 DEF IInv, Paperwork
  <1> QED
    BY <1>3, <1>4, <1>5 DEF IInv, Chronicle

\* No step leaves the inductive invariant: a stale write only writes a status
\* that follows one the mission has had, and pasts only grow.
LEMMA IInvStep == Typed /\ IInv /\ [Next]_vars => IInv'
  <1> SUFFICES ASSUME Typed, IInv, [Next]_vars PROVE IInv'
    OBVIOUS
  <1> USE NullIsNoValue DEF Typed, TypeOK, LocalsSet, IInv, Chronicle, Story,
              Witnesses, Paperwork, Evidence, jobVars, podVars, sessionVars,
              Statuts
  <1>1. ASSUME NEW m \in Missions, NEW v \in MaybeAmount, CreateMission(m, v)
        PROVE  IInv'
    BY <1>1, FirstStatus DEF CreateMission
  <1>2. ASSUME NEW m \in Missions, NEW v \in MaybeAmount, UpdateMission(m, v)
        PROVE  IInv'
    BY <1>2 DEF UpdateMission, Coalesce
  <1>3. ASSUME NEW m \in Missions, NEW given \in SUBSET Parties, NEW sub \in BOOLEAN,
               NEW v \in MaybeAmount, NEW a \in MaybeAmount,
               GenerateMission(m, given, sub, v, a)
        PROVE  IInv'
    BY <1>3, FirstStatus DEF GenerateMission
  <1>4. ASSUME NEW m \in Missions, UnassignMission(m) PROVE IInv'
    BY <1>4 DEF UnassignMission, SetStatus
  <1>5. ASSUME NEW m \in Missions, UploadPodLegacy(m) PROVE IInv'
    BY <1>5 DEF UploadPodLegacy
  <1>6. ASSUME NEW p \in Pods, NEW verdict \in {"VALIDE", "REJETE"},
               ValidatePod(p, verdict)
        PROVE  IInv'
    BY <1>6, RowIsNotNull DEF ValidatePod, PodStatuts
  <1>7. ASSUME NEW s \in Sessions, NEW m \in Missions, ReadMission(s, m) PROVE IInv'
    BY <1>7 DEF ReadMission
  <1>8. ASSUME NEW s \in Sessions, NEW x \in Disputes, ReadDispute(s, x) PROVE IInv'
    BY <1>8 DEF ReadDispute
  <1>9. ASSUME NEW s \in Sessions, CheckPod(s) PROVE IInv'
    <2>1. on[s] \in Missions /\ seen[s] = "LIVREE"
      BY <1>9 DEF CheckPod
    <2>2. Evidence(on[s])
      <3>1. CASE seenPod[s]
        BY <2>1, <3>1
      <3>2. ASSUME NEW p \in Pods, pods[p] = <<on[s], "VALIDE">>
            PROVE  Evidence(on[s])
        <4>1. pods[p] # None
          BY <2>1, <3>2, RowIsNotNull DEF PodStatuts
        <4>2. pods[p][1] = on[s] /\ pods[p][2] = "VALIDE"
          BY <3>2
        <4>3. p \in approved
          BY <4>1, <4>2
        <4> QED
          BY <4>2, <4>3
      <3> QED
        BY <1>9, <3>1, <3>2 DEF CheckPod
    <2>3. UNCHANGED <<on, seen, seenSale, seenPod, jobVars, podVars, disputes, audited>>
      BY <1>9 DEF CheckPod
    <2>4. Witnesses'
      BY <1>9, <2>1, <2>2, <2>3 DEF CheckPod
    <2> QED
      BY <2>3, <2>4
  <1>10. ASSUME NEW s \in Sessions, NEW target \in Statuts,
                Transition(s, target)
         PROVE  IInv'
    BY <1>10 DEF Transition, SetStatus, Answer, ValidTransitions
  <1>11. ASSUME NEW s \in Sessions, CloseMission(s) PROVE IInv'
    BY <1>11 DEF CloseMission, SetStatus, Answer
  <1>12. ASSUME NEW s \in Sessions, NEW given \in SUBSET Parties, NEW sub \in BOOLEAN,
                NEW a \in MaybeAmount, AssignMission(s, given, sub, a)
         PROVE  IInv'
    BY <1>12 DEF AssignMission, SetStatus, Answer
  <1>13. ASSUME NEW s \in Sessions, NEW p \in Pods, CreatePod(s, p) PROVE IInv'
    BY <1>13, RowIsNotNull DEF CreatePod, Answer, PodStatuts
  <1>14. ASSUME NEW s \in Sessions, NEW x \in Disputes, CreateDispute(s, x)
         PROVE  IInv'
    BY <1>14 DEF CreateDispute, Answer
  <1>15. ASSUME NEW s \in Sessions, NEW statut \in OpenStatuts \union ClosedStatuts,
                UpdateDispute(s, statut)
         PROVE  IInv'
    <2>1. on[s] \in Disputes /\ disputes[on[s]] \in Missions \X DisputeStatuts
      BY <1>15 DEF UpdateDispute
    <2>2. disputes' = [disputes EXCEPT ![on[s]] = <<disputes[on[s]][1], statut>>]
      BY <1>15 DEF UpdateDispute
    <2>3. UNCHANGED <<jobVars, podVars, audited>>
      BY <1>15 DEF UpdateDispute
    <2>4. "LIVREE" \in past[disputes[on[s]][1]]
      BY <2>1, RowIsNotNull
    <2>5. Paperwork'
      BY <2>1, <2>2, <2>3, <2>4
    <2>6. Witnesses'
      BY <1>15, <2>3 DEF UpdateDispute, Answer
    <2>7. Chronicle'
      BY <2>3
    <2> QED
      BY <2>5, <2>6, <2>7
  <1>16. ASSUME NEW s \in Sessions, GiveUp(s) PROVE IInv'
    BY <1>16 DEF GiveUp, Answer
  <1>17. CASE UNCHANGED vars
    BY <1>17 DEF vars
  <1> HIDE DEF Typed, TypeOK, LocalsSet, IInv, Chronicle, Story, Witnesses, Paperwork,
               Statuts
  <1> QED
    BY <1>1, <1>2, <1>3, <1>4, <1>5, <1>6, <1>7, <1>8, <1>9, <1>10, <1>11,
       <1>12, <1>13, <1>14, <1>15, <1>16, <1>17
    DEF Next, SingleStatement, ReadThenWrite

LEMMA Always == Spec => [](Typed /\ IInv)
  <1>1. Init => Typed /\ IInv
    BY TypedInit, IInvInit
  <1>2. Typed /\ IInv /\ [Next]_vars => (Typed /\ IInv)'
    BY TypedStep, IInvStep
  <1> QED
    BY <1>1, <1>2, PTL DEF Spec

-----------------------------------------------------------------------------
(* Theorems                                                                *)

\* The variables of Missions always have values of their types.
THEOREM TypeCorrect == Spec => []TypeOK
  BY Always, PTL DEF Typed

\* However many sessions race, a mission that was ever closed or invoiced had
\* a valid proof of delivery (transition_mission, close_mission).
THEOREM ClosingNeedsEvidence == Spec => []ClosedOnEvidence
  <1>1. IInv => ClosedOnEvidence
    BY DEF IInv, Chronicle, Story, Evidence, ClosedOnEvidence
  <1> QED
    BY <1>1, Always, PTL

\* PODs belong to missions that departed and disputes to missions that were
\* delivered (create_pod, upload_pod_legacy, create_dispute).
THEOREM PaperworkInOrder == Spec => []PaperworkFollowsTransport
  <1>1. IInv => PaperworkFollowsTransport
    BY DEF IInv, Chronicle, Story, Paperwork, PaperworkFollowsTransport
  <1> QED
    BY <1>1, Always, PTL

\* The audit log shows departure and delivery of every mission that is
\* delivered, closed or invoiced, and of every disputed one.
THEOREM AuditShowsDelivery == Spec => []DeliveredIsAudited
  <1> USE DEF Typed, TypeOK, IInv, Chronicle, Story, Paperwork, DeliveredIsAudited
  <1>1. ASSUME Typed, IInv,
               NEW m \in Missions, status[m] \in {"LIVREE", "CLOTUREE", "FACTUREE"}
        PROVE  {"EN_COURS", "LIVREE"} \subseteq audited[m]
    <2>1. status[m] \in past[m]
      BY <1>1, MissionsAssumption DEF Statuts
    <2> QED
      BY <1>1, <2>1
  <1>2. ASSUME Typed, IInv, NEW x \in Disputes, disputes[x] # None
        PROVE  {"EN_COURS", "LIVREE"} \subseteq audited[disputes[x][1]]
    <2>1. disputes[x][1] \in Missions
      BY <1>2
    <2> QED
      BY <1>2, <2>1
  <1>3. Typed /\ IInv => DeliveredIsAudited
    BY <1>1, <1>2
  <1> QED
    BY <1>3, Always, PTL

\* The handlers implement StaleLifecycle: each of their steps creates a
\* mission, moves it to a status that follows one it has had, or changes
\* neither status nor past.
THEOREM ImplementsLifecycle == Spec => FollowsLifecycle
  <1>1. Init => Lifecycle!Init
    BY DEF Init, Lifecycle!Init
  <1>2. ASSUME Typed, IInv, [Next]_vars
        PROVE  [Lifecycle!Next]_<<status, past>>
    <2> USE <1>2 DEF Typed, TypeOK, LocalsSet, IInv, Chronicle, Story, Witnesses,
                     SetStatus, Lifecycle!Next, jobVars, podVars, sessionVars
    <2>1. ASSUME NEW m \in Missions, NEW st \in Statuts, SetStatus(m, st),
                 NEW was \in past[m], <<was, st>> \in Successions
          PROVE  Lifecycle!Next
      <3>1. Lifecycle!Move({m}, st)
        <4>1. status' = [i \in Missions |-> IF i \in {m} THEN st ELSE status[i]]
          BY <2>1
        <4>2. past' = [i \in Missions |->
                         IF i \in {m} THEN past[i] \union {st} ELSE past[i]]
          BY <2>1
        <4> QED
          BY <2>1, <4>1, <4>2 DEF Lifecycle!Move
      <3>2. st \in {edge[2] : edge \in Successions}
        <4>1. st = <<was, st>>[2]
          OBVIOUS
        <4> QED
          BY <2>1, <4>1
      <3> QED
        BY <3>1, <3>2, {m} \in SUBSET Missions
    <2>2. ASSUME NEW m \in Missions, status[m] = None,
                 NEW st \in {"BROUILLON", "PLANIFIEE"}, SetStatus(m, st)
          PROVE  Lifecycle!Next
      <3>1. past[m] = {} /\ past[m] \union {st} = {st}
        BY <2>2
      <3>2. past' = [past EXCEPT ![m] = {st}]
        BY <2>2, <3>1
      <3> QED
        BY <2>2, <3>2 DEF Lifecycle!Appear
    <2>3. ASSUME NEW s \in Sessions, on[s] \in Missions
          PROVE  seen[s] \in past[on[s]]
      BY <2>3
    <2>4. ASSUME NEW m \in Missions, SingleStatement(m)
          PROVE  Lifecycle!Next \/ UNCHANGED <<status, past>>
      <3>1. ASSUME NEW v \in MaybeAmount, CreateMission(m, v) PROVE Lifecycle!Next
        BY <2>2, <3>1 DEF CreateMission
      <3>2. ASSUME NEW given \in SUBSET Parties, NEW sub \in BOOLEAN,
                   NEW v \in MaybeAmount, NEW a \in MaybeAmount,
                   GenerateMission(m, given, sub, v, a)
            PROVE  Lifecycle!Next
        BY <2>2, <3>2 DEF GenerateMission
      <3>3. CASE UnassignMission(m)
        <4>1. /\ SetStatus(m, "PLANIFIEE")
              /\ "AFFECTEE" \in past[m]
          BY <3>3, MissionsAssumption DEF UnassignMission, Statuts
        <4> QED
          BY <2>1, <4>1 DEF Statuts, Successions,
                            ValidTransitions
      <3> QED
        BY <2>4, <3>1, <3>2, <3>3
        DEF SingleStatement, UpdateMission, UploadPodLegacy
    <2>5. ASSUME NEW s \in Sessions, NEW target \in Statuts,
                 Transition(s, target)
          PROVE  Lifecycle!Next
      BY <2>1, <2>3, <2>5 DEF Transition, Successions
    <2>6. ASSUME NEW s \in Sessions, CloseMission(s) PROVE Lifecycle!Next
      <3>1. on[s] \in Missions /\ SetStatus(on[s], "CLOTUREE") /\ seen[s] = "LIVREE"
        BY <2>6 DEF CloseMission
      <3> QED
        BY <2>1, <2>3, <3>1 DEF Statuts, Successions,
                                ValidTransitions
    <2>7. ASSUME NEW s \in Sessions, NEW given \in SUBSET Parties,
                 NEW sub \in BOOLEAN, NEW a \in MaybeAmount,
                 AssignMission(s, given, sub, a)
          PROVE  Lifecycle!Next \/ UNCHANGED <<status, past>>
      \* The status read may have been AFFECTEE: then the mission once came to
      \* be assigned, from a draft or from a planned mission.
      <3>1. /\ on[s] \in Missions
            /\ SetStatus(on[s], "AFFECTEE")
            /\ seen[s] \in {"BROUILLON", "PLANIFIEE", "AFFECTEE"}
        BY <2>7 DEF AssignMission
      <3>2. past[on[s]] \intersect {"BROUILLON", "PLANIFIEE"} # {}
        BY <2>3, <3>1
      <3>3. \E was \in past[on[s]] : <<was, "AFFECTEE">> \in Successions
        BY <3>2 DEF Successions, ValidTransitions
      <3> QED
        BY <2>1, <3>1, <3>3 DEF Statuts
    <2>8. ASSUME NEW s \in Sessions, ReadThenWrite(s)
          PROVE  Lifecycle!Next \/ UNCHANGED <<status, past>>
      BY <2>5, <2>6, <2>7, <2>8
      DEF ReadThenWrite, ReadMission, ReadDispute, CheckPod, CreatePod,
          CreateDispute, UpdateDispute, GiveUp
    <2> QED
      BY <2>4, <2>8 DEF Next, ValidatePod, vars
  <1> QED
    BY <1>1, <1>2, Always, PTL DEF Spec, FollowsLifecycle, Lifecycle!Spec

=============================================================================
