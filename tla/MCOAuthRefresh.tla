--------------------------- MODULE MCOAuthRefresh ---------------------------
(* Two request slots, on an API instance each.                             *)
EXTENDS OAuthRefresh, TLC

CONSTANTS r1, r2, i1, i2

MCInstanceOf == (r1 :> i1) @@ (r2 :> i2)
=============================================================================
