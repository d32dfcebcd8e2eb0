---------------------------- MODULE MCOAuthLogin ----------------------------
(* Two completion requests that meet on two flows of two users.            *)
EXTENDS OAuthLogin
=============================================================================
