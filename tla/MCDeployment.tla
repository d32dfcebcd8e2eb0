---------------------------- MODULE MCDeployment ----------------------------
(* Two requests under short clocks that keep TimeoutAssumptions: a tick is  *)
(* what one HTTP request may take.                                          *)
EXTENDS Deployment
=============================================================================
