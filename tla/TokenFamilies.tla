---------------------------- MODULE TokenFamilies ----------------------------
(***************************************************************************)
(* What the refresh tokens of internal/auth promise, without requests,     *)
(* locks and transactions: a login starts a family with one valid token, a *)
(* refresh spends that token for a new one, and a logout, a revocation or  *)
(* a detected reuse ends whole families.  A token is issued once and spent *)
(* once, and a family that has ended does not come back.                   *)
(***************************************************************************)
CONSTANT Tokens     \* families are named after their first token

VARIABLES
    valid,      \* of each family, the tokens a refresh accepts: one or none
    spent       \* of each family, the tokens that were rotated or revoked

vars == <<valid, spent>>

Issued == UNION {valid[f] \cup spent[f] : f \in Tokens}

Init ==
    /\ valid = [f \in Tokens |-> {}]
    /\ spent = [f \in Tokens |-> {}]

\* A family that never was gets its first token
Issue(t) ==
    /\ t \notin Issued /\ valid[t] = {} /\ spent[t] = {}
    /\ valid' = [valid EXCEPT ![t] = {t}]
    /\ UNCHANGED spent

\* The valid token t of f is exchanged for u
Rotate(f, t, u) ==
    /\ valid[f] = {t} /\ u \notin Issued
    /\ valid' = [valid EXCEPT ![f] = {u}]
    /\ spent' = [spent EXCEPT ![f] = @ \cup {t}]

\* The families F are over
End(F) ==
    /\ valid' = [f \in Tokens |-> IF f \in F THEN {} ELSE valid[f]]
    /\ spent' = [f \in Tokens |-> IF f \in F THEN spent[f] \cup valid[f] ELSE spent[f]]

Next ==
    \/ \E t \in Tokens : Issue(t)
    \/ \E f, t, u \in Tokens : Rotate(f, t, u)
    \/ \E F \in SUBSET Tokens : End(F)

Spec == Init /\ [][Next]_vars
=============================================================================
