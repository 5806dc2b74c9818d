----------------------------- MODULE MCReports -----------------------------
(* Instances of Reports for TLC.                                           *)
EXTENDS Reports

RowSymmetry ==
    {p @@ q : p \in Permutations(Events), q \in Permutations(Devices)}
=============================================================================
