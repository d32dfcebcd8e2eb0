----------------------------- MODULE MCSession -----------------------------
(* Call slots in one tab.                                                  *)
EXTENDS Session

CONSTANTS t1, c1, c2

MCOneTab == [c \in Calls |-> t1]
=============================================================================
