----------------------------- MODULE MCInvoicing -----------------------------
(* Instances of Invoicing for TLC: the calls are interchangeable, and so are *)
(* the workers and the invoices.                                             *)
EXTENDS Invoicing, TLC

Symmetry == Permutations(Requests) \union Permutations(Workers)
                \union Permutations(Invoices)

=============================================================================
