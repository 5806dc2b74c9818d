-------------------------- MODULE MCRefreshTokens --------------------------
(* Instances of RefreshTokens for TLC.                                     *)
EXTENDS RefreshTokens, TLC

CONSTANTS u1, d1, s1, s2

\* One device
SoleOwner == d1 :> u1

SessionSymmetry == Permutations(Sessions)
=============================================================================
