-------------------------------- MODULE Xid8 --------------------------------
(***************************************************************************)
(* Transaction ids.  A row's xmin holds the low 32 bits of its             *)
(* transaction's id; xmin_xid8 (migration 000025) widens it again with the *)
(* help of the snapshot's xmax, at every query that orders or filters the  *)
(* change feed.  The width is a parameter, so that small instances cross   *)
(* an epoch.                                                               *)
(***************************************************************************)
EXTENDS Integers

\* What the tuple header stores of a transaction id (PostgreSQL)
Xmin(x, modulus) == x % modulus

\* Faulty variant: the epoch of the snapshot taken for the row's
SameEpoch(raw, xmax, modulus) == (xmax \div modulus) * modulus + raw

\* xmin_xid8: the largest id with these low bits that is at most xmax.
\* xmax & (2^32 - 1) is xmax % 2^32, xmax & ~(2^32 - 1) the rest.
XminXid8(raw, xmax, modulus) ==
    IF raw <= xmax % modulus
    THEN (xmax \div modulus) * modulus + raw
    ELSE (xmax \div modulus) * modulus - modulus + raw
=============================================================================
