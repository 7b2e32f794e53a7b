--------------------------- MODULE MCAccessTokens ---------------------------
(* AccessTokens with a service whose clock is behind, one whose clock is    *)
(* ahead, and auth-service itself.                                          *)
EXTENDS AccessTokens

MCServices == {"spd", "approval", "auth"}
MCSkew == [s \in MCServices |-> CASE s = "spd" -> -1 [] s = "approval" -> 1 [] OTHER -> 0]
=============================================================================
