--------------------------- MODULE GaplessNumbering ---------------------------
(***************************************************************************)
(* What modules/billing/numbering.py promises to the rest of billing       *)
(* ("Atomic invoice numbering - per-tenant monthly sequences"): every      *)
(* sequence hands out 1, 2, 3, ... without a hole and without handing out  *)
(* a number twice, whatever transactions do in the meantime.               *)
(* Invoicing implements this specification (PROPERTY GaplessIssue there).  *)
(***************************************************************************)
EXTENDS Naturals

CONSTANTS Documents,   \* the documents that may receive a number
          Sequences    \* the rows of number_sequences: one per prefix and month

VARIABLES last,        \* last[s]: the last number sequence s handed out
          given        \* {<<document, sequence, number>>}: what was handed out

vars == <<last, given>>

Init == /\ last = [s \in Sequences |-> 0]
        /\ given = {}

\* Document d receives the next number of sequence s.
Issue(d, s) ==
    /\ last' = [last EXCEPT ![s] = @ + 1]
    /\ given' = given \union {<<d, s, last[s] + 1>>}

Next == \E d \in Documents, s \in Sequences : Issue(d, s)

Spec == Init /\ [][Next]_vars

=============================================================================
