---------------------------- MODULE StaleLifecycle ----------------------------
(***************************************************************************)
(* What handlers that check a status, and later write one without checking *)
(* again, promise together (jobs/router.py and route_runs/router.py of     *)
(* backend/app/modules).                                                   *)
(*                                                                         *)
(* The status of an item does not always move along an edge of its         *)
(* transition table: a call that read the item before another one changed  *)
(* it still writes.  What is promised is weaker, and enough for a status   *)
(* to prove that the ones it follows on were reached: an item only moves   *)
(* to a status that follows one it has already had.                        *)
(***************************************************************************)
CONSTANTS Items,
          First,     \* the statuses an item is created with
          Follows,   \* pairs of a status and one that may follow it
          None

VARIABLES status,   \* status[i], None as long as the item does not exist
          past      \* past[i]: every status i has had

Init == /\ status = [i \in Items |-> None]
        /\ past = [i \in Items |-> {}]

Appear(i) ==
    /\ status[i] = None
    /\ \E st \in First : /\ status' = [status EXCEPT ![i] = st]
                         /\ past' = [past EXCEPT ![i] = {st}]

\* One transaction moves the items to the status st: a handler one item, a
\* regulation all the runs it closes.
Move(items, st) ==
    /\ \A i \in items : \E was \in past[i] : <<was, st>> \in Follows
    /\ status' = [i \in Items |-> IF i \in items THEN st ELSE status[i]]
    /\ past' = [i \in Items |-> IF i \in items THEN past[i] \union {st} ELSE past[i]]

Next == \/ \E i \in Items : Appear(i)
        \/ \E items \in SUBSET Items, st \in {edge[2] : edge \in Follows} :
              Move(items, st)

Spec == Init /\ [][Next]_<<status, past>>
=============================================================================
