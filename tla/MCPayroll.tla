------------------------------ MODULE MCPayroll ------------------------------
(* An instance of Payroll for TLC: two drivers, of whom one has a bonus that *)
(* is only imported, and two computed types.                                 *)
EXTENDS Payroll, TLC

MCFiles == {<< <<"ana", "hours">>, <<"ana", "bonus">> >>,
            << <<"ana", "hours">>, <<"ana", "hours">> >>}

Symmetry == Permutations(Imports) \union Permutations(Computations)

=============================================================================
