----------------------------- MODULE MCCatalog -----------------------------
(* Instance of Catalog for TLC.                                            *)
EXTENDS Catalog, TLC

\* The first two events start at the same moment
MCStarted == [i \in Ids |-> IF i < 3 THEN 1 ELSE 2]

SessionSymmetry == Permutations(Sessions)
=============================================================================
