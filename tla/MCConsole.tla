------------------------------ MODULE MCConsole ------------------------------
(* Two flows, and two rows that a flow, the page or somebody else changes.  *)
EXTENDS Console
=============================================================================
