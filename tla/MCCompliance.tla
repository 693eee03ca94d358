---------------------------- MODULE MCCompliance ----------------------------
(***************************************************************************)
(* Instances of Compliance for TLC.  The five alert levels of the code,    *)
(* 60, 30, 15, 7 and 0 days ahead, become two, one day ahead and none: a   *)
(* document that expires on day 1 is due its first alert on day 0, its     *)
(* last one on day 1, and is expired on day 2.                             *)
(***************************************************************************)
EXTENDS Compliance, TLC

MCAhead == <<1, 0>>

\* Scans of several workers are alike.
MCSymmetry == Permutations(Sessions) \union Permutations(Scanners)
=============================================================================
