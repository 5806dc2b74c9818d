----------------------------- MODULE MCSyncPush -----------------------------
(* Instances of SyncPush for TLC.                                          *)
EXTENDS SyncPush, TLC

CONSTANTS u1, u2, d1, d2, d3, e1, f1, a1, t1, t2, t3

\* Two devices of one account and one of another
MCUserOf == d1 :> u1 @@ d2 :> u1 @@ d3 :> u2

Ev(del) == [type |-> "event", id |-> e1, app |-> a1, deleted |-> del]
Fo(at, tag, del) == [type |-> "focus", id |-> f1, updated |-> at, tag |-> tag,
                     deleted |-> del]
Bad == [type |-> "invalid"]

\* An event and its tombstone come from different devices; both edit one focus
\* session.  The other account pushes the same session id, its clock far ahead.
MCOutbox ==
    d1 :> {<<Ev(FALSE), Fo(1, t1, FALSE)>>} @@
    d2 :> {<<Bad, Ev(TRUE)>>, <<Fo(2, t2, TRUE)>>} @@
    d3 :> {<<Fo(9, t3, FALSE)>>}

SessionSymmetry == Permutations(Sessions)
=============================================================================
