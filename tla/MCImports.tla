------------------------------ MODULE MCImports ------------------------------
(* Instances of Imports for TLC: files small enough, and mean enough.         *)
EXTENDS Imports, TLC

Driver(key, nir) == [kind |-> "driver", key |-> key, nir |-> nir, sortie |-> None]
Vehicle(key, ptac, charge) == [kind |-> "vehicle", key |-> key, ptac |-> ptac, charge |-> charge]

\* A driver without matricule and another with its nir; the same two vehicles
\* in opposite orders, one of them with half of its weights; rows that reach no
\* statement.
SmallFiles ==
    {<<Driver(None, "nir1"), Driver(Number(1), "nir1")>>,
     <<Vehicle(Number(1), 1, None), Vehicle(Number(2), 2, 1)>>,
     <<Vehicle(Number(2), None, 2), Vehicle(Number(1), None, 1)>>,
     <<Invalid, Dated, [kind |-> "client", key |-> Number(1), statut |-> "PROSPECT"]>>,
     <<[kind |-> "subcontractor", key |-> Number(1), statut |-> "ACTIF", conformite |-> "OK"]>>}

\* What the calls send.
SmallBodies ==
    {Driver(None, "nir1"), [Driver(Number(1), None) EXCEPT !.sortie = 0],
     Vehicle(Number(1), 2, 2), Vehicle(Number(2), None, 2),
     [kind |-> "client", key |-> None, statut |-> "ACTIF"],
     [kind |-> "subcontractor", key |-> Number(1), statut |-> "ACTIF", conformite |-> "BLOQUANT"]}

Symmetry == Permutations(Sessions)

=============================================================================
