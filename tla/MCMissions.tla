------------------------------ MODULE MCMissions ------------------------------
EXTENDS Missions, TLC

\* Sessions are interchangeable.
Symmetry == Permutations(Sessions)
=============================================================================
