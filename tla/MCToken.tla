------------------------------- MODULE MCToken -------------------------------
(* The token service with two users who log in one after the other, in one  *)
(* second or in two.                                                        *)
EXTENDS TokenService

=============================================================================
