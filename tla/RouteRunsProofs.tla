--------------------------- MODULE RouteRunsProofs ---------------------------
(***************************************************************************)
(* Proofs about RouteRuns, for any number of runs, calls and regulations   *)
(* that overlap in any way: the safety properties of the run RouteRuns,    *)
(* and that transitions and regulations together implement StaleLifecycle. *)
(***************************************************************************)
EXTENDS RouteRuns, TLAPS

\* What TypeOK does not say of a call: it knows a status exactly while it has
\* a run.
CallsSet ==
    \A s \in Sessions : /\ on[s] = None => seen[s] = None
                        /\ on[s] # None => seen[s] \in past[on[s]]

Typed == TypeOK /\ CallsSet

\* A run has had its status, and was dispatched before it was started.
Story ==
    \A r \in Runs :
        /\ status[r] = None => past[r] = {}
        /\ status[r] # None => status[r] \in past[r]
        /\ "IN_PROGRESS" \in past[r] => "DISPATCHED" \in past[r]

\* A regulation at work on a run found it overdue and out, and has not logged
\* it yet, whatever happened to the run since.
Claimed ==
    \A g \in Regulators : \A r \in todo[g] \union wrote[g] :
        overdue[r] /\ "DISPATCHED" \in past[r] /\ entries[r][g] = 0

IInv == /\ Story
        /\ Claimed
        /\ CompletedIsTotalled
        /\ OnlyOverdueRegulated
        /\ OncePerRegulator
        /\ OneWriterPerRun

-----------------------------------------------------------------------------
\* Initially there is no run.
LEMMA InitHolds == Init => Typed /\ IInv
  BY RouteRunsAssumption
  DEF Init, Typed, TypeOK, CallsSet, IInv, Story, Claimed, CompletedIsTotalled,
      OnlyOverdueRegulated, OncePerRegulator, OneWriterPerRun, RunStatuses

\* Every step keeps the types.
LEMMA TypedKept == ASSUME Typed, Story, [Next]_vars PROVE Typed'
  <1> USE RouteRunsAssumption
      DEF Typed, TypeOK, CallsSet, RunStatuses, runVars, callVars, regVars
  <1>1. ASSUME NEW r \in Runs, CreateRun(r) PROVE Typed'
    BY <1>1 DEF CreateRun, Story
  <1>2. ASSUME NEW r \in Runs, DayPasses(r) PROVE Typed'
    BY <1>2 DEF DayPasses
  <1>3. ASSUME NEW s \in Sessions, NEW r \in Runs, ReadStatus(s, r) PROVE Typed'
    BY <1>3 DEF ReadStatus, Story
  <1>4. ASSUME NEW s \in Sessions, NEW target \in Targets, WriteStatus(s, target)
        PROVE  Typed'
    BY <1>4 DEF WriteStatus, Answer, Targets
  <1>5. ASSUME NEW s \in Sessions, GiveUp(s) PROVE Typed'
    BY <1>5 DEF GiveUp, Answer
  <1>6. ASSUME NEW g \in Regulators, NEW ids \in SUBSET Runs, Select(g, ids)
        PROVE  Typed'
    BY <1>6 DEF Select
  <1>7. ASSUME NEW g \in Regulators, NEW r \in Runs, RegulateRun(g, r)
        PROVE  Typed'
    BY <1>7 DEF RegulateRun
  <1>8. ASSUME NEW g \in Regulators, NEW h \in Regulators, NEW r \in Runs,
               Deadlock(g, h, r)
        PROVE  Typed'
    BY <1>8 DEF Deadlock
  <1>9. ASSUME NEW g \in Regulators, Commit(g) PROVE Typed'
    <2>1. entries' \in [Runs -> [Regulators -> Nat]]
      BY <1>9 DEF Commit
    <2> QED
      BY <1>9, <2>1 DEF Commit, Close
  <1>10. ASSUME NEW g \in Regulators, Fail(g) PROVE Typed'
    BY <1>10 DEF Fail, Close
  <1>11. CASE UNCHANGED vars
    BY <1>11 DEF vars
  <1> QED
    BY <1>1, <1>2, <1>3, <1>4, <1>5, <1>6, <1>7, <1>8, <1>9, <1>10, <1>11
    DEF Next

\* The count of entries of a regulation, before and after its only one.
LEMMA AtMostOne == \A n \in Nat : n <= 1 /\ n # 1 => n = 0
  OBVIOUS

LEMMA FirstEntry ==
    ASSUME NEW count \in [Regulators -> Nat], NEW g \in Regulators, count[g] = 0
    PROVE  /\ [count EXCEPT ![g] = @ + 1][g] = 1
           /\ \A h \in Regulators \ {g} : [count EXCEPT ![g] = @ + 1][h] = count[h]
  OBVIOUS

\* Nobody has logged an eligible run, and an eligible run was dispatched.
LEMMA EligibleIsFresh ==
    ASSUME Typed, IInv
    PROVE  \A r \in Eligible : /\ overdue[r] /\ "DISPATCHED" \in past[r]
                               /\ \A g \in Regulators : entries[r][g] = 0
  <1>1. ASSUME NEW r \in Runs, ~regulated[r], NEW g \in Regulators
        PROVE  entries[r][g] = 0
    <2>1. entries[r][g] \in Nat
      BY DEF Typed, TypeOK
    <2>2. entries[r][g] <= 1 /\ entries[r][g] # 1
      BY <1>1 DEF IInv, OncePerRegulator
    <2> QED
      BY <2>1, <2>2, AtMostOne
  <1>2. ASSUME NEW r \in Runs, status[r] \in Regulatable
        PROVE  "DISPATCHED" \in past[r]
    <2>1. status[r] # None
      BY <1>2, RouteRunsAssumption DEF Regulatable, RunStatuses
    <2>2. status[r] \in past[r]
      BY <2>1 DEF IInv, Story
    <2> QED
      BY <1>2, <2>2 DEF IInv, Story, Regulatable
  <1> QED
    BY <1>1, <1>2 DEF Eligible

\* What a write to one run can disturb of the invariant: its story, which the
\* edge of the transition table continues.
LEMMA Kept == ASSUME Typed, IInv, [Next]_vars PROVE IInv'
  <1> USE RouteRunsAssumption
      DEF Typed, TypeOK, CallsSet, IInv, Story, Claimed, CompletedIsTotalled,
          OnlyOverdueRegulated, OncePerRegulator, OneWriterPerRun,
          runVars, callVars, regVars
  <1>1. ASSUME NEW r \in Runs, CreateRun(r) PROVE IInv'
    BY <1>1 DEF CreateRun, RunStatuses
  <1>2. ASSUME NEW r \in Runs, DayPasses(r) PROVE IInv'
    BY <1>2 DEF DayPasses
  <1>3. ASSUME NEW s \in Sessions, NEW r \in Runs, ReadStatus(s, r) PROVE IInv'
    BY <1>3 DEF ReadStatus
  <1>4. ASSUME NEW s \in Sessions, NEW target \in Targets, WriteStatus(s, target)
        PROVE  IInv'
    <2>1. /\ on[s] \in Runs /\ seen[s] \in past[on[s]]
          /\ target \in RunStatuses
          /\ target = "IN_PROGRESS" => seen[s] = "DISPATCHED"
          /\ status' = [status EXCEPT ![on[s]] = target]
          /\ past' = [past EXCEPT ![on[s]] = @ \union {target}]
          /\ totalled' = [totalled EXCEPT ![on[s]] = @ \/ target = "COMPLETED"]
          /\ UNCHANGED <<regulated, entries, regVars, overdue, failures>>
      BY <1>4 DEF WriteStatus, RunTransitions, Targets, RunStatuses
    <2>2. Story'
      BY <2>1 DEF RunStatuses
    <2>3. Claimed' /\ OnlyOverdueRegulated'
      BY <2>1
    <2>4. CompletedIsTotalled'
      <3>1. ASSUME NEW r \in Runs, r # on[s] PROVE past'[r] = past[r] /\ totalled'[r] = totalled[r]
        BY <2>1, <3>1
      <3>2. past'[on[s]] = past[on[s]] \union {target}
        BY <2>1
      <3>3. totalled'[on[s]] = (totalled[on[s]] \/ target = "COMPLETED")
        BY <2>1
      <3>4. "COMPLETED" \in past'[on[s]] => totalled'[on[s]]
        BY <2>1, <3>2, <3>3
      <3> QED
        BY <3>1, <3>4
    <2> QED
      BY <2>1, <2>2, <2>3, <2>4
  <1>5. ASSUME NEW s \in Sessions, GiveUp(s) PROVE IInv'
    BY <1>5 DEF GiveUp
  <1>6. ASSUME NEW g \in Regulators, NEW ids \in SUBSET Runs, Select(g, ids)
        PROVE  IInv'
    BY <1>6, EligibleIsFresh DEF Select
  <1>7. ASSUME NEW g \in Regulators, NEW r \in Runs, RegulateRun(g, r)
        PROVE  IInv'
    BY <1>7 DEF RegulateRun, Free
  <1>8. ASSUME NEW g \in Regulators, NEW h \in Regulators, NEW r \in Runs,
               Deadlock(g, h, r)
        PROVE  IInv'
    <2>1. /\ todo' = [todo EXCEPT ![g] = {}, ![h] = @ \ {r}]
          /\ wrote' = [wrote EXCEPT ![g] = {}, ![h] = @ \union {r}]
          /\ working' = working \ {g}
          /\ g # h /\ r \in todo[h] /\ r \in wrote[g]
          /\ UNCHANGED <<status, past, totalled, regulated, entries, overdue>>
      BY <1>8 DEF Deadlock
    <2>2. Story' /\ CompletedIsTotalled' /\ OnlyOverdueRegulated' /\ OncePerRegulator'
      BY <2>1
    <2>3. Claimed'
      BY <2>1
    <2>4. OneWriterPerRun'
      BY <2>1
    <2> QED
      BY <2>2, <2>3, <2>4
  <1>9. ASSUME NEW g \in Regulators, Commit(g) PROVE IInv'
    <2>1. \A r \in Runs : entries'[r] =
             IF r \in wrote[g] THEN [entries[r] EXCEPT ![g] = @ + 1] ELSE entries[r]
      BY <1>9 DEF Commit
    <2>2. \A r \in Runs, h \in Regulators :
             /\ r \in wrote[g] /\ h = g => entries'[r][h] = 1
             /\ r \notin wrote[g] \/ h # g => entries'[r][h] = entries[r][h]
      <3>1. ASSUME NEW r \in Runs, r \in wrote[g]
            PROVE  entries'[r] = [entries[r] EXCEPT ![g] = @ + 1] /\ entries[r][g] = 0
        BY <2>1, <3>1
      <3>2. ASSUME NEW r \in Runs, r \notin wrote[g] PROVE entries'[r] = entries[r]
        BY <2>1, <3>2
      <3>3. ASSUME NEW r \in Runs, r \in wrote[g]
            PROVE  /\ entries'[r][g] = 1
                   /\ \A h \in Regulators \ {g} : entries'[r][h] = entries[r][h]
        <4>1. entries[r] \in [Regulators -> Nat]
          OBVIOUS
        <4>2. /\ [entries[r] EXCEPT ![g] = @ + 1][g] = 1
              /\ \A h \in Regulators \ {g} :
                    [entries[r] EXCEPT ![g] = @ + 1][h] = entries[r][h]
          <5> HIDE DEF Typed, TypeOK, IInv
          <5> QED
            BY <3>1, <3>3, <4>1, FirstEntry, Zenon
        <4> QED
          BY <3>1, <3>3, <4>2, Zenon
      <3> QED
        BY <3>2, <3>3
    <2>3. Story'
      <3>1. \A r \in Runs :
               /\ r \in wrote[g] => /\ status'[r] = "COMPLETED"
                                    /\ past'[r] = past[r] \union {"COMPLETED"}
               /\ r \notin wrote[g] => status'[r] = status[r] /\ past'[r] = past[r]
        BY <1>9 DEF Commit
      <3>2. None # "COMPLETED"
        BY DEF RunStatuses
      <3> QED
        BY <3>1, <3>2
    <2>4. OnlyOverdueRegulated' /\ CompletedIsTotalled'
      BY <1>9 DEF Commit
    <2>5. OneWriterPerRun'
      BY <1>9 DEF Commit, Close
    <2>6. Claimed'
      BY <1>9, <2>2 DEF Commit, Close
    <2>7. OncePerRegulator'
      BY <1>9, <2>2 DEF Commit
    <2> QED
      BY <2>3, <2>4, <2>5, <2>6, <2>7
  <1>10. ASSUME NEW g \in Regulators, Fail(g) PROVE IInv'
    BY <1>10 DEF Fail, Close
  <1>11. CASE UNCHANGED vars
    BY <1>11 DEF vars
  <1> QED
    BY <1>1, <1>2, <1>3, <1>4, <1>5, <1>6, <1>7, <1>8, <1>9, <1>10, <1>11
    DEF Next

\* The invariants hold for ever.
THEOREM Always == Spec => [](Typed /\ IInv)
  <1>1. Typed /\ IInv /\ [Next]_vars => (Typed /\ IInv)'
    BY TypedKept, Kept DEF IInv
  <1> QED
    BY InitHolds, <1>1, PTL DEF Spec

-----------------------------------------------------------------------------
\* Every variable has a value of its type.
THEOREM TypeCorrect == Spec => []TypeOK
  BY Always, PTL DEF Typed

\* No run is regulated before its day is over, or without having left.
THEOREM RegulatesOverdueRuns == Spec => []OnlyOverdueRegulated
  BY Always, PTL DEF IInv

\* Whoever completes a run leaves its totals.
THEOREM CompletionLeavesTotals == Spec => []CompletedIsTotalled
  BY Always, PTL DEF IInv

\* No regulation logs a run twice, however many overlap.
THEOREM LogsOncePerRegulator == Spec => []OncePerRegulator
  BY Always, PTL DEF IInv

\* Open regulations never share a row they have updated.
THEOREM RowsAreExclusive == Spec => []OneWriterPerRun
  BY Always, PTL DEF IInv

\* Transitions and regulations implement StaleLifecycle: a transition moves
\* its run along an edge from a status it has had, and a commit moves all the
\* runs of the regulation, which were dispatched, to COMPLETED.
THEOREM ImplementsLifecycle == Spec => FollowsLifecycle
  <1> DEFINE Follows == RunTransitions \union {<<"DISPATCHED", "COMPLETED">>}
  <1>1. Init => Lifecycle!Init
    BY DEF Init, Lifecycle!Init
  <1>2. ASSUME Typed, IInv, [Next]_vars
        PROVE  [Lifecycle!Next]_<<status, past>>
    <2> USE <1>2 DEF Typed, TypeOK, CallsSet, IInv, runVars
    <2>1. ASSUME NEW was, NEW st, <<was, st>> \in Follows
          PROVE  st \in {edge[2] : edge \in Follows}
      <3>1. st = <<was, st>>[2]
        OBVIOUS
      <3> QED
        BY <2>1, <3>1
    <2>2. ASSUME NEW r \in Runs, CreateRun(r) PROVE Lifecycle!Next
      BY <2>2 DEF CreateRun, Lifecycle!Next, Lifecycle!Appear
    <2>3. ASSUME NEW s \in Sessions, NEW target \in Targets, WriteStatus(s, target)
          PROVE  Lifecycle!Next
      <3>1. /\ on[s] \in Runs /\ seen[s] \in past[on[s]]
            /\ <<seen[s], target>> \in Follows
            /\ status' = [status EXCEPT ![on[s]] = target]
            /\ past' = [past EXCEPT ![on[s]] = @ \union {target}]
        BY <2>3 DEF WriteStatus
      <3>2. status' = [r \in Runs |-> IF r \in {on[s]} THEN target ELSE status[r]]
        BY <3>1
      <3>3. past' = [r \in Runs |->
                       IF r \in {on[s]} THEN past[r] \union {target} ELSE past[r]]
        BY <3>1
      <3>4. Lifecycle!Move({on[s]}, target)
        BY <3>1, <3>2, <3>3 DEF Lifecycle!Move
      <3> QED
        BY <2>1, <3>1, <3>4, {on[s]} \in SUBSET Runs DEF Lifecycle!Next
    <2>4. ASSUME NEW g \in Regulators, Commit(g) PROVE Lifecycle!Next
      <3>1. <<"DISPATCHED", "COMPLETED">> \in Follows
        OBVIOUS
      <3>2. \A r \in wrote[g] : "DISPATCHED" \in past[r]
        BY DEF Claimed
      <3>3. Lifecycle!Move(wrote[g], "COMPLETED")
        BY <2>4, <3>1, <3>2 DEF Lifecycle!Move, Commit
      <3> QED
        BY <2>1, <3>1, <3>3 DEF Lifecycle!Next
    <2> QED
      BY <2>2, <2>3, <2>4
      DEF Next, vars, DayPasses, ReadStatus, GiveUp, Select, RegulateRun,
          Deadlock, Fail
  <1> QED
    BY <1>1, <1>2, Always, PTL DEF Spec, FollowsLifecycle, Lifecycle!Spec

=============================================================================
