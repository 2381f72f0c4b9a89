--------------------------- MODULE MCOAuthGrants ----------------------------
(* A small instance of OAuthGrants for TLC: three clients, room for two.      *)
EXTENDS OAuthGrants, TLC

CONSTANTS a, b, c

ClientSymmetry == Permutations({a, b, c})
=============================================================================
