---------------------------- MODULE MCUserRoles ----------------------------
(* Instances of the API that share one database.                           *)
EXTENDS UserRoles, TLC

MCSymmetry == Permutations(Instances) \cup Permutations(Calls)
=============================================================================
