------------------------------ MODULE MCTokens -------------------------------
(* Finite instances of RefreshTokens for TLC. *)
EXTENDS RefreshTokens, TLC

Symmetric == Permutations(Workers)
=============================================================================
