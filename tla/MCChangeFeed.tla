---------------------------- MODULE MCChangeFeed ----------------------------
(* Instances of ChangeFeed for TLC.                                        *)
EXTENDS ChangeFeed, TLC

CONSTANTS u1, u2, e1, e2, sys, w1, w2, c1, p1, p2

\* e1 belongs to u1, e2 is a system row every user sees
MCOwner == e1 :> u1 @@ e2 :> sys
\* e1 belongs to u1, e2 to a user no client is signed in to
TenantOwner == e1 :> u1 @@ e2 :> u2
MCUserOf == c1 :> u1

\* No transaction lasts as long as a clock tick
ShortWrites == \A w \in Writers : tx[w].state = "open" => tx[w].created = clock

(* Where the safety run spends its bounds: which states are extended.      *)

\* The last transaction id is explored only where none before it was wasted on
\* an aborted transaction: changes and prunes then fit into MaxXid together
NoneWasted ==
    nextXid <= MaxXid \/
    nextXid - 1 <= Cardinality(History) + Cardinality(pruned)
                     + Cardinality(RunningXids \ {0})

\* The last change is made once something has been pruned
LastAfterPrune == nextSeq <= MaxSeq \/ pruned # {}

Open(w) == tx[w].state = "open"

\* Transactions overlap when both started before the first tick; each may
\* still last to the end
EarlyOverlap ==
    \A v, w \in Writers : v # w /\ Open(v) /\ Open(w) =>
        tx[v].created = 0 /\ tx[w].created = 0

\* All pruners at once only between writes
PrunersAlone ==
    Cardinality(Pruners) > 1 /\ (\A p \in Pruners : prune[p].state # "idle")
        => \A w \in Writers : ~Open(w)

WriterSymmetry == Permutations(Writers)
Symmetry == Permutations(Writers) \cup Permutations(Pruners)
=============================================================================
