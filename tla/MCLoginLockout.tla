--------------------------- MODULE MCLoginLockout ---------------------------
(* Instance of LoginLockout for TLC.                                       *)
EXTENDS LoginLockout, TLC

SessionSymmetry == Permutations(Sessions)
=============================================================================
