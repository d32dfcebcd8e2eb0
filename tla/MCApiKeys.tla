---------------------------- MODULE MCApiKeys ----------------------------
(* Two accounts that one user can bind to a key, and another user who has  *)
(* keys but nothing to bind to them.  An external key is left to the       *)
(* proofs: it differs from an account in never being refreshed or chatted  *)
(* with.                                                                   *)
EXTENDS ApiKeys

CONSTANT u1

MCOneOwner == [t \in Targets |-> u1]
=============================================================================
