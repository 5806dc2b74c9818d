-------------------------- MODULE ChangeFeedProofs --------------------------
(***************************************************************************)
(* Proofs about ChangeFeed, for every set of accounts, entities, sessions, *)
(* devices and pruners and every page and batch size.                      *)
(***************************************************************************)
EXTENDS ChangeFeed, FiniteSetTheorems, TLAPS

-----------------------------------------------------------------------------
(* xmin_xid8 gives back the transaction id a row was written by, for every *)
(* width of the stored part.  The snapshot and the row lie in the same     *)
(* epoch or in consecutive ones, because less than one turn lies between   *)
(* them; the comparison of the low parts tells the two cases apart.        *)

\* A multiple of m between -m and 2m is 0 or m
LEMMA NearMultiple ==
    ASSUME NEW k \in Int, NEW m \in Nat \ {0}, -m < k * m, k * m < 2 * m
    PROVE  k = 0 \/ k = 1
<1>1. CASE k >= 2
  <2>1. k * m >= 2 * m BY <1>1
  <2>. QED BY <2>1
<1>2. CASE k <= -1
  <2>1. k * m <= (-1) * m BY <1>2
  <2>. QED BY <2>1
<1>. QED BY <1>1, <1>2

\* migration 000025's xmin_xid8 undoes the truncation to xmin, as long as the
\* ids have not gone once around since the row was written
THEOREM WideningLossless ==
    ASSUME NEW m \in Nat \ {0}, NEW x \in Nat, NEW xmax \in Nat,
           x <= xmax, xmax < x + m
    PROVE  XminXid8(Xmin(x, m), xmax, m) = x
<1>. DEFINE q == x \div m  r == x % m  p == xmax \div m  s == xmax % m
<1>1. /\ q \in Int /\ r \in Int /\ 0 <= r /\ r < m /\ x = q * m + r
      /\ p \in Int /\ s \in Int /\ 0 <= s /\ s < m /\ xmax = p * m + s
  OBVIOUS
<1>. HIDE DEF q, r, p, s
<1>2. (p - q) * m = p * m - q * m
  BY <1>1
<1>3. p - q = 0 \/ p - q = 1
  <2>1. -m < (p - q) * m /\ (p - q) * m < 2 * m
    <3>. DEFINE P == p * m  Q == q * m
    <3>1. P \in Int /\ Q \in Int BY <1>1
    <3>2. x = Q + r /\ xmax = P + s /\ (p - q) * m = P - Q BY <1>1, <1>2
    <3>. HIDE DEF P, Q
    <3>. QED BY <1>1, <3>1, <3>2
  <2>. QED BY <1>1, <2>1, NearMultiple
<1>4. XminXid8(Xmin(x, m), xmax, m) = IF r <= s THEN p * m + r ELSE p * m - m + r
  BY DEF XminXid8, Xmin, q, r, p, s
<1>5. CASE p = q
  BY <1>1, <1>4, <1>5
<1>6. CASE p = q + 1
  <2>1. p * m = q * m + m BY <1>1, <1>6
  <2>2. ~(r <= s) BY <1>1, <2>1
  <2>. QED BY <1>1, <1>4, <2>1, <2>2
<1>. QED BY <1>1, <1>3, <1>5, <1>6

-----------------------------------------------------------------------------

(* Next, one disjunct per action.                                          *)
LEMMA NextCases ==
    ASSUME Next
    PROVE  \/ Tick
           \/ \E w \in Writers :
                \/ \E e \in Entities : BeginWrite(w, e)
                \/ AssignXid(w) \/ TakeServerSeq(w) \/ LogChange(w)
                \/ CommitWrite(w) \/ AbortWrite(w)
           \/ \E p \in Pruners :
                PruneSelect(p) \/ PruneDelete(p) \/ PruneCommit(p) \/ PruneRollback(p)
           \/ \E c \in Clients :
                \/ PullExpired(c)
                \/ \E p \in {cursor[c]} \cup {Pos(r) : r \in Page(c)} : PullPage(c, p)
                \/ Deliver(c) \/ DeliverAndCrash(c) \/ LoseResponse(c) \/ ResetCursor(c)
  BY DEF Next, Write, Retain, Pull, Receive

-----------------------------------------------------------------------------
(* Types.                                                                  *)

LEMMA ConstantTypes ==
    /\ ZeroCursor \in Position
    /\ IdleTx \in Tx
    /\ IdlePrune \in Prune
    /\ Nothing \in [Entities -> Nat]
    /\ NoResponse \in Response
<1>1. ZeroCursor \in Position /\ Nothing \in [Entities -> Nat]
  BY DEF ZeroCursor, Position, Nothing
<1>2. IdleTx \in Tx /\ IdlePrune \in Prune
  BY DEF IdleTx, Tx, IdlePrune, Prune
<1>3. NoResponse \in Response
  BY <1>1 DEF NoResponse, Response
<1> QED
  BY <1>1, <1>2, <1>3

LEMMA TypeInit == Init => TypeOK
  BY ConstantTypes DEF Init, TypeOK, IdleTx

LEMMA TypeNext ==
    ASSUME TypeOK, [Next]_vars
    PROVE  TypeOK'
<1>1. CASE UNCHANGED vars
  BY <1>1 DEF TypeOK, vars, dbVars, pruneVars, clientVars
<1>2. CASE Tick
  BY <1>2 DEF TypeOK, Tick, dbVars, pruneVars, clientVars
<1>3. ASSUME NEW w \in Writers, NEW e \in Entities, BeginWrite(w, e) PROVE TypeOK'
  <2>1. [IdleTx EXCEPT !.state = "open", !.entity = e, !.created = clock] \in Tx
    BY DEF IdleTx, Tx, TypeOK
  <2> QED
    BY <1>3, <2>1 DEF TypeOK, BeginWrite, pruneVars, clientVars, IdleTx
<1>4. ASSUME NEW w \in Writers, AssignXid(w) PROVE TypeOK'
  <2>1. tx' \in [Writers -> Tx] /\ \A v \in Writers : tx'[v].state = "open" => tx'[v].entity \in Entities
    BY <1>4 DEF TypeOK, AssignXid, Tx
  <2> QED
    BY <1>4, <2>1 DEF TypeOK, AssignXid, pruneVars, clientVars
<1>5. ASSUME NEW w \in Writers, TakeServerSeq(w) PROVE TypeOK'
  <2>1. tx' \in [Writers -> Tx] /\ \A v \in Writers : tx'[v].state = "open" => tx'[v].entity \in Entities
    BY <1>5 DEF TypeOK, TakeServerSeq, Tx
  <2> QED
    BY <1>5, <2>1 DEF TypeOK, TakeServerSeq, pruneVars, clientVars
<1>6. ASSUME NEW w \in Writers, LogChange(w) PROVE TypeOK'
  <2>1. tx' \in [Writers -> Tx] /\ \A v \in Writers : tx'[v].state = "open" => tx'[v].entity \in Entities
    BY <1>6 DEF TypeOK, LogChange, Tx
  <2> QED
    BY <1>6, <2>1 DEF TypeOK, LogChange, pruneVars, clientVars
<1>7. ASSUME NEW w \in Writers, CommitWrite(w) PROVE TypeOK'
  <2>1. RowOf(tx[w]) \in Row
    BY <1>7 DEF TypeOK, CommitWrite, RowOf, Row, Tx
  <2>2. changelog' \in SUBSET Row
    BY <1>7, <2>1 DEF TypeOK, CommitWrite
  <2>3. table' \in [Entities -> Nat]
    BY <1>7 DEF TypeOK, CommitWrite, Tx
  <2>4. tx' \in [Writers -> Tx] /\ \A v \in Writers : tx'[v].state = "open" => tx'[v].entity \in Entities
    BY <1>7, ConstantTypes DEF TypeOK, CommitWrite, IdleTx
  <2> QED
    BY <1>7, <2>2, <2>3, <2>4 DEF TypeOK, CommitWrite, pruneVars, clientVars
<1>8. ASSUME NEW w \in Writers, AbortWrite(w) PROVE TypeOK'
  <2>1. tx' \in [Writers -> Tx] /\ \A v \in Writers : tx'[v].state = "open" => tx'[v].entity \in Entities
    BY <1>8, ConstantTypes DEF TypeOK, AbortWrite, IdleTx
  <2> QED
    BY <1>8, <2>1 DEF TypeOK, AbortWrite, pruneVars, clientVars
<1>9. ASSUME NEW p \in Pruners, PruneSelect(p) PROVE TypeOK'
  <2>1. PruneBatch \in SUBSET Row
    BY DEF PruneBatch, TypeOK
  <2>2. [IdlePrune EXCEPT !.state = "selected", !.batch = PruneBatch] \in Prune
    BY <2>1 DEF IdlePrune, Prune
  <2> QED
    BY <1>9, <2>2 DEF TypeOK, PruneSelect, dbVars, clientVars
<1>10. ASSUME NEW p \in Pruners, PruneDelete(p) PROVE TypeOK'
  <2>1. prune' \in [Pruners -> Prune]
    BY <1>10 DEF TypeOK, PruneDelete, Prune
  <2> QED
    BY <1>10, <2>1 DEF TypeOK, PruneDelete, clientVars
<1>11. ASSUME NEW p \in Pruners, PruneCommit(p) PROVE TypeOK'
  <2>1. prune[p].batch \in SUBSET Row
    BY DEF TypeOK, Prune
  <2>2. horizon' \in Position
    BY <1>11, <2>1 DEF PruneCommit, AdvanceChangelogHorizon, TypeOK, Position, Row, Greater
  <2>3. prune' \in [Pruners -> Prune]
    BY <1>11, ConstantTypes DEF TypeOK, PruneCommit
  <2> QED
    BY <1>11, <2>1, <2>2, <2>3 DEF TypeOK, PruneCommit, clientVars
<1>12. ASSUME NEW p \in Pruners, PruneRollback(p) PROVE TypeOK'
  BY <1>12, ConstantTypes DEF TypeOK, PruneRollback, dbVars, clientVars
<1>13. ASSUME NEW c \in Clients, PullExpired(c) PROVE TypeOK'
  <2>1. [NoResponse EXCEPT !.kind = "gone"] \in Response
    BY ConstantTypes DEF NoResponse, Response
  <2> QED
    BY <1>13, <2>1 DEF TypeOK, PullExpired, dbVars, pruneVars
<1>14. ASSUME NEW c \in Clients,
              NEW p \in {cursor[c]} \cup {Pos(r) : r \in Page(c)}, PullPage(c, p)
       PROVE  TypeOK'
  <2>1. p \in Position
    <3>1. CASE p = cursor[c]
      BY <3>1 DEF TypeOK
    <3>2. ASSUME NEW r \in Page(c), p = Pos(r) PROVE p \in Position
      <4>1. r \in Row
        BY DEF Page, Available, TypeOK
      <4> QED
        BY <3>2, <4>1 DEF Row, Pos, Position
    <3> QED
      BY <3>1, <3>2
  <2>2. Resolve(Page(c)) \in [Entities -> Nat]
    BY DEF Resolve, CurrentState, TypeOK
  <2>3. resp' \in [Clients -> Response]
    BY <1>14, <2>1, <2>2 DEF PullPage, TypeOK, Response
  <2> QED
    BY <1>14, <2>3 DEF TypeOK, PullPage, dbVars, pruneVars
<1>15. ASSUME NEW c \in Clients, Deliver(c) PROVE TypeOK'
  <2>1. resp[c] \in Response
    BY DEF TypeOK
  <2>2. Merge(c) \in [Entities -> Nat]
    BY <2>1 DEF Merge, TypeOK, Response
  <2>3. replica' \in [Clients -> [Entities -> Nat]] /\ cursor' \in [Clients -> Position]
    BY <1>15, <2>1, <2>2 DEF Deliver, TypeOK, Response
  <2>4. lost' \in [Clients -> SUBSET Row] /\ resp' \in [Clients -> Response]
    BY <1>15, <2>1, ConstantTypes DEF Deliver, TypeOK, Response
  <2> QED
    BY <1>15, <2>3, <2>4 DEF TypeOK, Deliver, dbVars, pruneVars
<1>16. ASSUME NEW c \in Clients, DeliverAndCrash(c) PROVE TypeOK'
  <2>1. Merge(c) \in [Entities -> Nat]
    BY DEF Merge, TypeOK, Response
  <2> QED
    BY <1>16, <2>1, ConstantTypes DEF DeliverAndCrash, TypeOK, dbVars, pruneVars
<1>17. ASSUME NEW c \in Clients, LoseResponse(c) PROVE TypeOK'
  BY <1>17, ConstantTypes DEF LoseResponse, TypeOK, dbVars, pruneVars
<1>18. ASSUME NEW c \in Clients, ResetCursor(c) PROVE TypeOK'
  BY <1>18, ConstantTypes DEF ResetCursor, TypeOK, dbVars, pruneVars
<1> QED
  BY <1>1, <1>2, <1>3, <1>4, <1>5, <1>6, <1>7, <1>8, <1>9, <1>10, <1>11, <1>12,
     <1>13, <1>14, <1>15, <1>16, <1>17, <1>18, NextCases

(* Type correctness: every state of every behaviour is well-formed.        *)
THEOREM TypeCorrect == Spec => []TypeOK
  BY TypeInit, TypeNext, PTL DEF Spec

-----------------------------------------------------------------------------
(* What a step can change, for the conjuncts of the invariant.             *)

LEMMA HistoryStep ==
    ASSUME TypeOK, [Next]_vars
    PROVE  \/ History' = History
           \/ \E w \in Writers : CommitWrite(w) /\ History' = History \cup {RowOf(tx[w])}
<1>1. ASSUME NEW w \in Writers, CommitWrite(w)
      PROVE  History' = History \cup {RowOf(tx[w])}
  BY <1>1 DEF CommitWrite, History, pruneVars
<1>2. ASSUME NEW p \in Pruners, PruneCommit(p) PROVE History' = History
  BY <1>2 DEF PruneCommit, History
<1>3. ASSUME ~ \E w \in Writers : CommitWrite(w), ~ \E p \in Pruners : PruneCommit(p)
      PROVE  UNCHANGED <<changelog, pruned>>
  BY <1>3, NextCases DEF vars, Tick, BeginWrite, AssignXid, TakeServerSeq, LogChange,
     AbortWrite, PruneSelect, PruneDelete, PruneRollback, PullExpired, PullPage, Deliver,
     DeliverAndCrash, LoseResponse, ResetCursor, dbVars, pruneVars, clientVars
<1> QED
  BY <1>1, <1>2, <1>3 DEF History

LEMMA ClientStep ==
    ASSUME [Next]_vars
    PROVE  \/ UNCHANGED clientVars
           \/ \E c \in Clients :
                \/ PullExpired(c)
                \/ \E p \in {cursor[c]} \cup {Pos(r) : r \in Page(c)} : PullPage(c, p)
                \/ Deliver(c) \/ DeliverAndCrash(c) \/ LoseResponse(c) \/ ResetCursor(c)
  BY NextCases DEF vars, Tick, BeginWrite, AssignXid, TakeServerSeq, LogChange,
     AbortWrite, CommitWrite, PruneSelect, PruneDelete, PruneCommit, PruneRollback

LEMMA DatabaseStep ==
    ASSUME [Next]_vars
    PROVE  \/ UNCHANGED dbVars
           \/ \E w \in Writers :
                \/ \E e \in Entities : BeginWrite(w, e)
                \/ AssignXid(w) \/ TakeServerSeq(w) \/ LogChange(w)
                \/ CommitWrite(w) \/ AbortWrite(w)
           \/ \E p \in Pruners : PruneDelete(p) \/ PruneCommit(p)
  BY NextCases DEF vars, Tick, PruneSelect, PruneRollback, PullExpired, PullPage,
     Deliver, DeliverAndCrash, LoseResponse, ResetCursor

(* The session a step touches, and how.                                    *)
LEMMA TxAfter ==
    ASSUME TypeOK, NEW w \in Writers, NEW e \in Entities
    PROVE  /\ BeginWrite(w, e) \/ CommitWrite(w) \/ AbortWrite(w) =>
                /\ tx'[w].xid = 0 /\ tx'[w].seq = 0 /\ tx'[w].id = 0
                /\ \A v \in Writers \ {w} : tx'[v] = tx[v]
           /\ AssignXid(w) =>
                /\ tx'[w].xid = nextXid /\ tx'[w].seq = tx[w].seq
                /\ tx'[w].entity = tx[w].entity
                /\ \A v \in Writers \ {w} : tx'[v] = tx[v]
           /\ TakeServerSeq(w) =>
                /\ tx'[w].xid = tx[w].xid /\ tx'[w].seq = nextSeq
                /\ tx'[w].entity = tx[w].entity
                /\ \A v \in Writers \ {w} : tx'[v] = tx[v]
           /\ LogChange(w) =>
                /\ tx'[w].xid = tx[w].xid /\ tx'[w].seq = tx[w].seq
                /\ tx'[w].entity = tx[w].entity
                /\ \A v \in Writers \ {w} : tx'[v] = tx[v]
<1>0. tx \in [Writers -> Tx]
  BY DEF TypeOK
<1>1. ASSUME BeginWrite(w, e)
      PROVE  /\ tx'[w].xid = 0 /\ tx'[w].seq = 0 /\ tx'[w].id = 0
             /\ \A v \in Writers \ {w} : tx'[v] = tx[v]
  <2>1. tx'[w] = [IdleTx EXCEPT !.state = "open", !.entity = e, !.created = clock]
        /\ \A v \in Writers \ {w} : tx'[v] = tx[v]
    BY <1>0, <1>1 DEF BeginWrite
  <2> QED
    BY <2>1 DEF IdleTx
<1>2. ASSUME CommitWrite(w) \/ AbortWrite(w)
      PROVE  /\ tx'[w].xid = 0 /\ tx'[w].seq = 0 /\ tx'[w].id = 0
             /\ \A v \in Writers \ {w} : tx'[v] = tx[v]
  BY <1>0, <1>2 DEF CommitWrite, AbortWrite, IdleTx
<1>3. ASSUME AssignXid(w)
      PROVE  /\ tx'[w].xid = nextXid /\ tx'[w].seq = tx[w].seq
             /\ tx'[w].entity = tx[w].entity
             /\ \A v \in Writers \ {w} : tx'[v] = tx[v]
  BY <1>0, <1>3 DEF AssignXid, Tx
<1>4. ASSUME TakeServerSeq(w)
      PROVE  /\ tx'[w].xid = tx[w].xid /\ tx'[w].seq = nextSeq
             /\ tx'[w].entity = tx[w].entity
             /\ \A v \in Writers \ {w} : tx'[v] = tx[v]
  BY <1>0, <1>4 DEF TakeServerSeq, Tx
<1>5. ASSUME LogChange(w)
      PROVE  /\ tx'[w].xid = tx[w].xid /\ tx'[w].seq = tx[w].seq
             /\ tx'[w].entity = tx[w].entity
             /\ \A v \in Writers \ {w} : tx'[v] = tx[v]
  BY <1>0, <1>5 DEF LogChange, Tx
<1> QED
  BY <1>1, <1>2, <1>3, <1>4, <1>5

LEMMA PruneAfter ==
    ASSUME TypeOK, NEW p \in Pruners
    PROVE  /\ PruneSelect(p) \/ PruneCommit(p) \/ PruneRollback(p) =>
                prune'[p].xid = 0 /\ \A q \in Pruners \ {p} : prune'[q] = prune[q]
           /\ PruneDelete(p) =>
                prune'[p].xid = nextXid /\ \A q \in Pruners \ {p} : prune'[q] = prune[q]
<1>0. prune \in [Pruners -> Prune]
  BY DEF TypeOK
<1>1. ASSUME PruneSelect(p)
      PROVE  prune'[p].xid = 0 /\ \A q \in Pruners \ {p} : prune'[q] = prune[q]
  <2>1. prune'[p] = [IdlePrune EXCEPT !.state = "selected", !.batch = PruneBatch]
        /\ \A q \in Pruners \ {p} : prune'[q] = prune[q]
    BY <1>0, <1>1 DEF PruneSelect
  <2> QED
    BY <2>1 DEF IdlePrune
<1>2. PruneCommit(p) \/ PruneRollback(p) =>
          prune'[p].xid = 0 /\ \A q \in Pruners \ {p} : prune'[q] = prune[q]
  BY <1>0 DEF PruneCommit, PruneRollback, IdlePrune
<1>3. PruneDelete(p) =>
          prune'[p].xid = nextXid /\ \A q \in Pruners \ {p} : prune'[q] = prune[q]
  BY <1>0 DEF PruneDelete, Prune
<1> QED
  BY <1>1, <1>2, <1>3

-----------------------------------------------------------------------------
(* The conjuncts of IInv, one lemma each.                                  *)

LEMMA FiniteNext ==
    ASSUME TypeOK, IsFiniteSet(changelog), [Next]_vars
    PROVE  IsFiniteSet(changelog')
<1>1. CASE \E w \in Writers : CommitWrite(w)
  <2>1. PICK w \in Writers : changelog' = changelog \cup {RowOf(tx[w])}
    BY <1>1 DEF CommitWrite
  <2> QED
    BY <2>1, FS_AddElement
<1>2. CASE \E p \in Pruners : PruneCommit(p)
  BY <1>2, FS_Subset DEF PruneCommit
<1>3. CASE UNCHANGED changelog
  BY <1>3
<1> QED
  BY <1>1, <1>2, <1>3, DatabaseStep DEF dbVars, BeginWrite, AssignXid, TakeServerSeq,
     LogChange, AbortWrite, PruneDelete

LEMMA CountersNext ==
    ASSUME TypeOK, [Next]_vars
    PROVE  /\ nextXid' \in Nat /\ nextXid' >= nextXid
           /\ nextSeq' \in Nat /\ nextSeq' >= nextSeq
<1>0. nextXid \in Nat /\ nextSeq \in Nat
  BY DEF TypeOK
<1>1. ASSUME NEW w \in Writers,
             AssignXid(w) \/ TakeServerSeq(w) \/ LogChange(w) \/ CommitWrite(w) \/ AbortWrite(w)
      PROVE  nextXid' \in {nextXid, nextXid + 1} /\ nextSeq' \in {nextSeq, nextSeq + 1}
  BY <1>1 DEF AssignXid, TakeServerSeq, LogChange, CommitWrite, AbortWrite
<1>2. ASSUME NEW p \in Pruners, PruneDelete(p) \/ PruneCommit(p)
      PROVE  nextXid' \in {nextXid, nextXid + 1} /\ nextSeq' = nextSeq
  BY <1>2 DEF PruneDelete, PruneCommit
<1>3. ASSUME NEW w \in Writers, NEW e \in Entities, BeginWrite(w, e)
      PROVE  nextXid' = nextXid /\ nextSeq' = nextSeq
  BY <1>3 DEF BeginWrite
<1>4. nextXid' \in {nextXid, nextXid + 1} /\ nextSeq' \in {nextSeq, nextSeq + 1}
  BY <1>1, <1>2, <1>3, DatabaseStep DEF dbVars
<1> QED
  BY <1>0, <1>4

LEMMA RowNumbersNext ==
    ASSUME TypeOK, NumbersTaken, [Next]_vars
    PROVE  RowNumbers'
<1>1. ASSUME NEW w \in Writers, CommitWrite(w)
      PROVE  LET r == RowOf(tx[w])
             IN  r.xid # 0 /\ r.xid < nextXid /\ r.seq # 0 /\ r.seq < nextSeq
  BY <1>1 DEF CommitWrite, RowOf, NumbersTaken, TxNumbers
<1>2. History \subseteq Row /\ \A w \in Writers : RowOf(tx[w]).xid \in Nat /\ RowOf(tx[w]).seq \in Nat
  BY DEF TypeOK, History, Tx, RowOf
<1>3. nextXid \in Nat /\ nextSeq \in Nat
  BY DEF TypeOK
<1>4. \A r \in History' : r.xid # 0 /\ r.xid < nextXid /\ r.seq # 0 /\ r.seq < nextSeq
  BY <1>1, HistoryStep DEF NumbersTaken, RowNumbers
<1>5. \A r \in History' : r.xid \in Nat /\ r.seq \in Nat
  BY <1>2, HistoryStep DEF Row
<1> QED
  BY <1>3, <1>4, <1>5, CountersNext DEF RowNumbers, History

LEMMA TxNumbersNext ==
    ASSUME TypeOK, NumbersTaken, [Next]_vars
    PROVE  TxNumbers'
<1>0. nextXid \in Nat \ {0} /\ nextSeq \in Nat \ {0} /\ tx \in [Writers -> Tx]
  BY DEF TypeOK
<1>1. CASE UNCHANGED tx
  BY <1>0, <1>1, CountersNext DEF NumbersTaken, TxNumbers, Tx
<1>2. ASSUME NEW w \in Writers, NEW e \in Entities, BeginWrite(w, e) PROVE TxNumbers'
  BY <1>0, <1>2 DEF BeginWrite, NumbersTaken, TxNumbers, Tx, IdleTx
<1>3. ASSUME NEW w \in Writers, AssignXid(w) PROVE TxNumbers'
  BY <1>0, <1>3 DEF AssignXid, NumbersTaken, TxNumbers, Tx
<1>4. ASSUME NEW w \in Writers, TakeServerSeq(w) PROVE TxNumbers'
  BY <1>0, <1>4 DEF TakeServerSeq, NumbersTaken, TxNumbers, Tx
<1>5. ASSUME NEW w \in Writers, LogChange(w) PROVE TxNumbers'
  BY <1>0, <1>5 DEF LogChange, NumbersTaken, TxNumbers, Tx
<1>6. ASSUME NEW w \in Writers, CommitWrite(w) \/ AbortWrite(w) PROVE TxNumbers'
  BY <1>0, <1>6 DEF CommitWrite, AbortWrite, NumbersTaken, TxNumbers, Tx, IdleTx
<1> QED
  BY <1>1, <1>2, <1>3, <1>4, <1>5, <1>6, DatabaseStep DEF dbVars, PruneDelete, PruneCommit

LEMMA PruneNumbersNext ==
    ASSUME TypeOK, NumbersTaken, [Next]_vars
    PROVE  PruneNumbers'
<1>0. nextXid \in Nat \ {0} /\ prune \in [Pruners -> Prune]
  BY DEF TypeOK
<1>1. CASE UNCHANGED prune
  BY <1>0, <1>1, CountersNext DEF NumbersTaken, PruneNumbers, Prune
<1>2. ASSUME NEW p \in Pruners, PruneSelect(p) \/ PruneCommit(p) \/ PruneRollback(p)
      PROVE  PruneNumbers'
  <2>1. prune'[p].xid = 0 /\ \A q \in Pruners \ {p} : prune'[q] = prune[q]
    BY <1>2, PruneAfter
  <2>2. nextXid' = nextXid
    BY <1>2 DEF PruneSelect, PruneCommit, PruneRollback, dbVars
  <2> QED
    BY <1>0, <2>1, <2>2 DEF NumbersTaken, PruneNumbers
<1>3. ASSUME NEW p \in Pruners, PruneDelete(p) PROVE PruneNumbers'
  BY <1>0, <1>3 DEF PruneDelete, NumbersTaken, PruneNumbers, Prune
<1> QED
  BY <1>1, <1>2, <1>3, NextCases DEF vars, pruneVars, Tick, BeginWrite, AssignXid,
     TakeServerSeq, LogChange, CommitWrite, AbortWrite, PullExpired, PullPage, Deliver,
     DeliverAndCrash, LoseResponse, ResetCursor

LEMMA VersionsNext ==
    ASSUME TypeOK, NumbersTaken, VersionsInOrder, [Next]_vars
    PROVE  VersionsInOrder'
<1>0. /\ nextSeq \in Nat /\ tx \in [Writers -> Tx] /\ table \in [Entities -> Nat]
      /\ \A r \in History : r.entity \in Entities /\ r.seq \in Nat
      /\ \A w \in Writers : tx[w].seq \in Nat
  BY DEF TypeOK, History, Row, Tx
<1>1. ASSUME NEW w \in Writers, CommitWrite(w) PROVE VersionsInOrder'
  <2> DEFINE e == tx[w].entity
             n == tx[w].seq
  <2>1. n \in Nat /\ n # 0 /\ n < nextSeq /\ e \in Entities /\ nextSeq' = nextSeq
    BY <1>0, <1>1 DEF CommitWrite, NumbersTaken, TxNumbers, TypeOK
  <2>2. table' = [table EXCEPT ![e] = n] /\ table[e] < n
    BY <1>1, <2>1 DEF CommitWrite, VersionsInOrder
  <2>3. tx' = [tx EXCEPT ![w] = IdleTx] /\ tx'[w].seq = 0
    BY <1>0, <1>1 DEF CommitWrite, IdleTx
  <2>4. \A d \in Entities : table'[d] < nextSeq'
    BY <1>0, <2>1, <2>2 DEF VersionsInOrder
  <2>5. \A r \in History' : r.seq <= table'[r.entity]
    <3>1. History' = History \cup {RowOf(tx[w])}
      BY <1>1 DEF CommitWrite, History, pruneVars
    <3>2. \A r \in History : r.seq <= table'[r.entity]
      BY <1>0, <2>1, <2>2 DEF VersionsInOrder
    <3>3. RowOf(tx[w]).entity = e /\ RowOf(tx[w]).seq = n
      BY DEF RowOf
    <3> QED
      BY <1>0, <2>1, <2>2, <3>1, <3>2, <3>3
  <2>6. \A v \in Writers : tx'[v].seq # 0 => table'[tx'[v].entity] < tx'[v].seq
    <3>1. ASSUME NEW v \in Writers, tx'[v].seq # 0 PROVE table'[tx'[v].entity] < tx'[v].seq
      <4>1. v # w /\ tx'[v] = tx[v]
        BY <1>0, <2>3, <3>1
      <4>2. tx[v].entity # e
        BY <2>1, <3>1, <4>1 DEF VersionsInOrder
      <4>3. tx[v].entity \in Entities
        BY <3>1, <4>1 DEF NumbersTaken, TxNumbers, TypeOK
      <4> QED
        BY <1>0, <2>2, <3>1, <4>1, <4>2, <4>3 DEF VersionsInOrder
    <3> QED
      BY <3>1
  <2>7. \A v, u \in Writers : v # u /\ tx'[v].seq # 0 /\ tx'[u].seq # 0
                                => tx'[v].entity # tx'[u].entity
    BY <1>0, <2>3 DEF VersionsInOrder
  <2> QED
    BY <2>4, <2>5, <2>6, <2>7 DEF VersionsInOrder, History
<1>2. ASSUME NEW w \in Writers, TakeServerSeq(w) PROVE VersionsInOrder'
  <2>1. /\ table' = table /\ History' = History /\ nextSeq' = nextSeq + 1
        /\ tx[w].entity \in Entities
    BY <1>2 DEF TakeServerSeq, History, pruneVars, TypeOK
  <2>2. tx'[w].seq = nextSeq /\ tx'[w].entity = tx[w].entity
        /\ \A v \in Writers \ {w} : tx'[v] = tx[v]
    BY <1>0, <1>2 DEF TakeServerSeq, Tx
  <2>3. \A v \in Writers \ {w} : tx[v].entity = tx[w].entity => tx[v].seq = 0
    BY <1>2 DEF TakeServerSeq, RowFree
  <2>4. (\A d \in Entities : table'[d] < nextSeq') /\ \A r \in History' : r.seq <= table'[r.entity]
    BY <1>0, <2>1 DEF VersionsInOrder
  <2>5. \A v \in Writers : tx'[v].seq # 0 => table'[tx'[v].entity] < tx'[v].seq
    BY <1>0, <2>1, <2>2 DEF VersionsInOrder
  <2>6. \A v, u \in Writers : v # u /\ tx'[v].seq # 0 /\ tx'[u].seq # 0
                                => tx'[v].entity # tx'[u].entity
    BY <1>0, <2>2, <2>3 DEF VersionsInOrder
  <2> QED
    BY <2>4, <2>5, <2>6 DEF VersionsInOrder, History
<1>3. ASSUME NEW w \in Writers, NEW e \in Entities,
             BeginWrite(w, e) \/ AssignXid(w) \/ LogChange(w) \/ AbortWrite(w)
      PROVE  VersionsInOrder'
  <2>1. table' = table /\ History' = History /\ nextSeq' = nextSeq
    BY <1>3 DEF BeginWrite, AssignXid, LogChange, AbortWrite, History, pruneVars
  <2>2. \A v \in Writers : tx'[v].seq = 0 \/ (tx'[v].seq = tx[v].seq /\ tx'[v].entity = tx[v].entity)
    BY <1>3, TxAfter
  <2> QED
    BY <2>1, <2>2 DEF VersionsInOrder, History
<1>4. CASE UNCHANGED <<table, tx, nextSeq>> /\ History' = History
  BY <1>4 DEF VersionsInOrder, History
<1>5. CASE UNCHANGED dbVars
  BY <1>4, <1>5, HistoryStep, <1>1 DEF dbVars
<1>6. ASSUME NEW p \in Pruners, PruneDelete(p) \/ PruneCommit(p) PROVE VersionsInOrder'
  BY <1>4, <1>6 DEF PruneDelete, PruneCommit, History
<1>7. ASSUME NEW w \in Writers, AssignXid(w) \/ LogChange(w) \/ AbortWrite(w)
      PROVE  VersionsInOrder'
  <2>1. tx[w].state = "open" /\ tx[w].entity \in Entities
    BY <1>7 DEF AssignXid, LogChange, AbortWrite, TypeOK
  <2> QED
    BY <1>3, <1>7, <2>1
<1> QED
  BY <1>1, <1>2, <1>3, <1>5, <1>6, <1>7, DatabaseStep

LEMMA ClosedNext ==
    ASSUME TypeOK, NumbersTaken, ClosedBehindCursors, [Next]_vars
    PROVE  ClosedBehindCursors'
<1> DEFINE Behind(p) == \A x \in RunningXids \cup {nextXid} : x # 0 => p.xid < x
<1>0. /\ nextXid \in Nat \ {0} /\ tx \in [Writers -> Tx] /\ prune \in [Pruners -> Prune]
      /\ RunningXids \subseteq Nat
      /\ cursor \in [Clients -> Position] /\ resp \in [Clients -> Response]
      /\ \A c \in Clients : resp[c].next \in Position
  BY DEF TypeOK, Tx, Prune, RunningXids, Response
<1>1. \A x \in RunningXids' \cup {nextXid'} :
          x # 0 => (x \in RunningXids \cup {nextXid} \/ x > nextXid)
  <2>1. CASE UNCHANGED <<nextXid, tx, prune>>
    BY <2>1 DEF RunningXids
  <2>2. ASSUME NEW w \in Writers, AssignXid(w) PROVE <1>1
    <3>1. nextXid' = nextXid + 1 /\ UNCHANGED prune
      BY <2>2 DEF AssignXid, pruneVars
    <3>2. \A v \in Writers : tx'[v].xid \in {tx[v].xid, nextXid}
      BY <1>0, <2>2 DEF AssignXid, Tx
    <3> QED
      BY <1>0, <3>1, <3>2 DEF RunningXids
  <2>3. ASSUME NEW w \in Writers, NEW e \in Entities,
               BeginWrite(w, e) \/ TakeServerSeq(w) \/ LogChange(w) \/ CommitWrite(w) \/ AbortWrite(w)
        PROVE  <1>1
    <3>1. nextXid' = nextXid /\ UNCHANGED prune
      BY <2>3 DEF BeginWrite, TakeServerSeq, LogChange, CommitWrite, AbortWrite, pruneVars
    <3>2. \A v \in Writers : tx'[v].xid \in {tx[v].xid, 0}
      BY <2>3, TxAfter
    <3> QED
      BY <1>0, <3>1, <3>2 DEF RunningXids
  <2>4. ASSUME NEW p \in Pruners, PruneDelete(p) PROVE <1>1
    <3>1. nextXid' = nextXid + 1 /\ UNCHANGED tx
      BY <2>4 DEF PruneDelete
    <3>2. \A q \in Pruners : prune'[q].xid \in {prune[q].xid, nextXid}
      BY <1>0, <2>4 DEF PruneDelete, Prune
    <3> QED
      BY <1>0, <3>1, <3>2 DEF RunningXids
  <2>5. ASSUME NEW p \in Pruners, PruneSelect(p) \/ PruneCommit(p) \/ PruneRollback(p)
        PROVE  <1>1
    <3>1. nextXid' = nextXid /\ UNCHANGED tx
      BY <2>5 DEF PruneSelect, PruneCommit, PruneRollback, dbVars
    <3>2. \A q \in Pruners : prune'[q].xid \in {prune[q].xid, 0}
      BY <2>5, PruneAfter
    <3> QED
      BY <1>0, <3>1, <3>2 DEF RunningXids
  <2>6. ASSUME NEW w \in Writers,
               TakeServerSeq(w) \/ LogChange(w) \/ CommitWrite(w) \/ AbortWrite(w)
        PROVE  <1>1
    <3>1. tx[w].entity \in Entities
      BY <2>6 DEF TakeServerSeq, LogChange, CommitWrite, AbortWrite, TypeOK
    <3> QED
      BY <2>3, <2>6, <3>1
  <2> QED
    BY <2>1, <2>2, <2>3, <2>4, <2>5, <2>6, NextCases DEF vars, dbVars, pruneVars, Tick,
       PullExpired, PullPage, Deliver, DeliverAndCrash, LoseResponse, ResetCursor
<1>2. ASSUME NEW p \in Position, Behind(p) PROVE Behind(p)'
  <2>1. p.xid \in Nat /\ p.xid < nextXid /\ RunningXids' \cup {nextXid'} \subseteq Nat
    BY <1>0, <1>2, TypeNext DEF Position, TypeOK, Tx, Prune, RunningXids
  <2> QED
    BY <1>0, <1>1, <1>2, <2>1
<1>3. ASSUME NEW c \in Clients, NEW r \in Page(c) PROVE Behind(Pos(r))
  BY <1>0 DEF Page, Available, BeforeSnapshotHorizon, Pos
<1>4. Behind(ZeroCursor)
  BY <1>0 DEF ZeroCursor
<1>5. ASSUME NEW c \in Clients PROVE Behind(cursor'[c]) /\ Behind(resp'[c].next)
  <2>1. Behind(cursor[c]) /\ Behind(resp[c].next)
    BY DEF ClosedBehindCursors
  <2>2. CASE UNCHANGED clientVars
    BY <2>1, <2>2 DEF clientVars
  <2>3. ASSUME NEW d \in Clients, NEW p \in {cursor[d]} \cup {Pos(r) : r \in Page(d)},
               PullPage(d, p)
        PROVE  Behind(cursor'[c]) /\ Behind(resp'[c].next)
    <3>1. Behind(p)
      BY <1>3 DEF ClosedBehindCursors
    <3>2. cursor' = cursor /\ resp'[c].next \in {resp[c].next, p}
      BY <1>0, <2>3 DEF PullPage
    <3> QED
      BY <2>1, <3>1, <3>2
  <2>4. ASSUME NEW d \in Clients,
               PullExpired(d) \/ Deliver(d) \/ DeliverAndCrash(d) \/ LoseResponse(d) \/ ResetCursor(d)
        PROVE  Behind(cursor'[c]) /\ Behind(resp'[c].next)
    <3>1. resp'[c].next \in {resp[c].next, ZeroCursor}
      BY <1>0, <2>4 DEF PullExpired, Deliver, DeliverAndCrash, LoseResponse, ResetCursor, NoResponse
    <3>2. cursor'[c] \in {cursor[c], resp[c].next, ZeroCursor}
      BY <1>0, <2>4 DEF PullExpired, Deliver, DeliverAndCrash, LoseResponse, ResetCursor
    <3> QED
      BY <1>4, <2>1, <3>1, <3>2
  <2> QED
    BY <2>2, <2>3, <2>4, ClientStep
<1>6. \A c \in Clients : cursor'[c] \in Position /\ resp'[c].next \in Position
  BY TypeNext DEF TypeOK, Response
<1> QED
  BY <1>2, <1>5, <1>6 DEF ClosedBehindCursors

LEMMA LessOrder ==
    ASSUME NEW p \in Position, NEW q \in Position, NEW r \in Position
    PROVE  /\ AtMost(p, q) /\ AtMost(q, r) => AtMost(p, r)
           /\ AtMost(p, q) \/ Less(q, p)
           /\ AtMost(p, q) => p.xid <= q.xid
           /\ Less(p, q) => p.xid <= q.xid
           /\ AtMost(p, q) /\ Less(r, p) => Less(r, q)
           /\ Less(p, q) => ~AtMost(q, p)
  BY DEF Position, AtMost, Less

LEMMA RowPosition ==
    ASSUME TypeOK, NEW r \in History
    PROVE  /\ r \in Row /\ r.entity \in Entities /\ r.seq \in Nat /\ r.xid \in Nat
           /\ Pos(r) \in Position /\ Pos(r).xid = r.xid /\ Pos(r).seq = r.seq
<1>1. r \in Row
  BY DEF History, TypeOK
<1> QED
  BY <1>1 DEF Row, Pos, Position

LEMMA HorizonNext ==
    ASSUME TypeOK, HorizonCoversPruned, [Next]_vars
    PROVE  HorizonCoversPruned' /\ AtMost(horizon, horizon')
<1>0. horizon \in Position /\ horizon' \in Position
  BY TypeNext DEF TypeOK
<1>1. CASE UNCHANGED <<horizon, pruned>>
  BY <1>0, <1>1 DEF HorizonCoversPruned, Position, AtMost, Less
<1>2. ASSUME NEW p \in Pruners, PruneCommit(p)
      PROVE  HorizonCoversPruned' /\ AtMost(horizon, horizon')
  <2>1. prune[p].batch \subseteq Row /\ pruned \subseteq Row
    BY DEF TypeOK, Prune
  <2>2. PICK a \in prune[p].batch, b \in prune[p].batch :
            /\ \A r \in prune[p].batch : r.xid <= a.xid
            /\ \A r \in prune[p].batch : r.seq <= b.seq
            /\ horizon' = [xid |-> Greater(horizon.xid, a.xid), seq |-> Greater(horizon.seq, b.seq)]
    BY <1>2 DEF PruneCommit, AdvanceChangelogHorizon
  <2>3. a.xid \in Nat /\ b.seq \in Nat /\ horizon.xid \in Nat /\ horizon.seq \in Nat
    BY <1>0, <2>1 DEF Row, Position
  <2>4. /\ horizon'.xid >= horizon.xid /\ horizon'.xid >= a.xid
        /\ horizon'.seq >= horizon.seq /\ horizon'.seq >= b.seq
        /\ horizon'.xid \in Nat /\ horizon'.seq \in Nat
    BY <2>2, <2>3 DEF Greater
  <2>5. AtMost(horizon, horizon')
    BY <2>3, <2>4 DEF AtMost, Less
  <2>6. ASSUME NEW r \in pruned' PROVE AtMost(Pos(r), horizon')
    <3>1. r \in pruned \/ r \in prune[p].batch
      BY <1>2 DEF PruneCommit
    <3>2. r \in Row /\ Pos(r) \in Position
      BY <2>1, <3>1 DEF Row, Pos, Position
    <3>3. CASE r \in pruned
      BY <1>0, <2>5, <3>2, <3>3, LessOrder DEF HorizonCoversPruned
    <3>4. CASE r \in prune[p].batch
      <4>1. r.xid <= a.xid /\ r.seq <= b.seq /\ r.xid \in Nat /\ r.seq \in Nat
        BY <2>2, <3>2, <3>4 DEF Row
      <4> QED
        BY <2>3, <2>4, <4>1 DEF AtMost, Less, Pos
    <3> QED
      BY <3>1, <3>3, <3>4
  <2> QED
    BY <2>5, <2>6 DEF HorizonCoversPruned
<1> QED
  BY <1>1, <1>2, NextCases DEF vars, dbVars, pruneVars, Tick, BeginWrite, AssignXid,
     TakeServerSeq, LogChange, CommitWrite, AbortWrite, PruneSelect, PruneDelete,
     PruneRollback, PullExpired, PullPage, Deliver, DeliverAndCrash, LoseResponse, ResetCursor

(* Versions never decrease, and a page resolves to the current ones.       *)
LEMMA TableGrows ==
    ASSUME TypeOK, NumbersTaken, VersionsInOrder, [Next]_vars, NEW e \in Entities
    PROVE  table'[e] >= table[e]
<1>0. table \in [Entities -> Nat] /\ \A w \in Writers : tx[w].seq \in Nat
  BY DEF TypeOK, Tx
<1>1. CASE table' = table
  BY <1>0, <1>1
<1>2. ASSUME NEW w \in Writers, CommitWrite(w) PROVE table'[e] >= table[e]
  <2>1. table' = [table EXCEPT ![tx[w].entity] = tx[w].seq] /\ tx[w].seq # 0
        /\ table[tx[w].entity] < tx[w].seq
    BY <1>2 DEF CommitWrite, NumbersTaken, TxNumbers, VersionsInOrder
  <2> QED
    BY <1>0, <2>1
<1> QED
  BY <1>1, <1>2, DatabaseStep DEF dbVars, BeginWrite, AssignXid, TakeServerSeq,
     LogChange, AbortWrite, PruneDelete, PruneCommit

LEMMA MergeCovers ==
    ASSUME TypeOK, ResponseFresh, NEW c \in Clients, NEW e \in Entities
    PROVE  /\ Merge(c)[e] \in Nat /\ Merge(c)[e] >= replica[c][e]
           /\ Merge(c)[e] >= resp[c].changes[e] /\ Merge(c)[e] <= table[e]
<1>1. resp[c].changes[e] \in Nat /\ replica[c][e] \in Nat /\ table[e] \in Nat
  BY DEF TypeOK, Response
<1> QED
  BY <1>1 DEF Merge, ResponseFresh

LEMMA FreshNext ==
    ASSUME TypeOK, NumbersTaken, VersionsInOrder, ResponseFresh, [Next]_vars
    PROVE  ResponseFresh'
<1> SUFFICES ASSUME NEW c \in Clients, NEW e \in Entities
             PROVE  /\ replica'[c][e] <= table'[e]
                    /\ resp'[c].changes[e] <= table'[e]
                    /\ resp'[c].changes[e] # 0 => replica'[c][e] <= resp'[c].changes[e]
  BY DEF ResponseFresh
<1>0. /\ table[e] \in Nat /\ table'[e] \in Nat /\ replica[c][e] \in Nat
      /\ resp[c].changes[e] \in Nat /\ table'[e] >= table[e]
      /\ resp \in [Clients -> Response] /\ replica \in [Clients -> [Entities -> Nat]]
  BY TypeNext, TableGrows DEF TypeOK, Response
<1>1. /\ replica[c][e] <= table[e] /\ resp[c].changes[e] <= table[e]
      /\ resp[c].changes[e] # 0 => replica[c][e] <= resp[c].changes[e]
  BY DEF ResponseFresh
<1>2. CASE UNCHANGED <<replica[c][e], resp[c].changes[e]>>
  BY <1>0, <1>1, <1>2
<1>3. CASE UNCHANGED replica[c][e] /\ resp'[c].changes[e] \in {0, table[e]}
  BY <1>0, <1>1, <1>3
<1>4. CASE replica'[c][e] = Merge(c)[e] /\ resp'[c].changes[e] = 0
  BY <1>0, <1>4, MergeCovers
<1>5. ASSUME NEW d \in Clients, NEW p, PullPage(d, p)
      PROVE  <1>2!1 \/ <1>3!1
  <2>1. UNCHANGED replica /\ resp'[d].changes = Resolve(Page(d))
        /\ (d # c => resp'[c] = resp[c])
    BY <1>0, <1>5 DEF PullPage
  <2>2. Resolve(Page(d))[e] \in {0, table[e]}
    BY DEF Resolve, CurrentState
  <2> QED
    BY <2>1, <2>2
<1>6. ASSUME NEW d \in Clients, PullExpired(d) \/ LoseResponse(d) \/ ResetCursor(d)
      PROVE  <1>2!1 \/ <1>3!1
  <2>1. UNCHANGED replica /\ resp'[d].changes = Nothing /\ (d # c => resp'[c] = resp[c])
    BY <1>0, <1>6 DEF PullExpired, LoseResponse, ResetCursor, NoResponse
  <2> QED
    BY <2>1 DEF Nothing
<1>7. ASSUME NEW d \in Clients, Deliver(d) \/ DeliverAndCrash(d)
      PROVE  <1>2!1 \/ <1>4!1
  <2>1. /\ resp'[d].changes = Nothing /\ replica'[d] = Merge(d)
        /\ (d # c => resp'[c] = resp[c] /\ replica'[c] = replica[c])
    BY <1>0, <1>7 DEF Deliver, DeliverAndCrash, NoResponse
  <2> QED
    BY <2>1 DEF Nothing
<1> QED
  BY <1>2, <1>3, <1>4, <1>5, <1>6, <1>7, ClientStep DEF clientVars

-----------------------------------------------------------------------------
(* A page is closed downwards: with a row it holds every available row at  *)
(* or before it, because there are fewer rows before an earlier row.       *)
LEMMA PageClosed ==
    ASSUME TypeOK, IsFiniteSet(changelog), NEW c \in Clients,
           NEW r \in Available(c), NEW s \in Page(c), AtMost(Pos(r), Pos(s))
    PROVE  r \in Page(c)
<1> DEFINE Before(t) == {u \in Available(c) : Less(Pos(u), Pos(t))}
<1>1. s \in Available(c) /\ Cardinality(Before(s)) < PageLimit
  BY DEF Page
<1>2. Available(c) \subseteq History /\ Available(c) \subseteq changelog
  BY DEF Available, History
<1>3. Before(r) \subseteq Before(s)
  <2>1. ASSUME NEW u \in Available(c), Less(Pos(u), Pos(r)) PROVE Less(Pos(u), Pos(s))
    <3>1. Pos(u) \in Position /\ Pos(r) \in Position /\ Pos(s) \in Position
      BY <1>1, <1>2, RowPosition
    <3> QED
      BY <2>1, <3>1, LessOrder
  <2> QED
    BY <2>1
<1>4. IsFiniteSet(Before(s)) /\ IsFiniteSet(Before(r))
  BY <1>2, FS_Subset
<1>5. Cardinality(Before(r)) <= Cardinality(Before(s))
  BY <1>3, <1>4, FS_Subset
<1>6. Cardinality(Before(r)) \in Nat /\ Cardinality(Before(s)) \in Nat
  BY <1>4, FS_CardinalityType
<1> QED
  BY <1>1, <1>5, <1>6, LimitsAssumption DEF Page

(* Serving a page leaves no gap: the answer covers every committed row up  *)
(* to its next_cursor, except those pruned before a start from scratch.    *)
LEMMA PageCovers ==
    ASSUME IInv, NEW c \in Clients, NEW p \in Position, PullPage(c, p),
           NEW r \in History, Visible(c, r.entity), AtMost(Pos(r), p),
           r \notin (IF IsZero(cursor[c]) THEN pruned ELSE lost[c])
    PROVE  \/ replica[c][r.entity] >= r.seq
           \/ Resolve(Page(c))[r.entity] >= r.seq
<1> USE DEF IInv
<1>0. /\ cursor[c] \in Position /\ horizon \in Position
      /\ Pos(r) \in Position /\ r.entity \in Entities /\ r.seq \in Nat
      /\ r.seq # 0 /\ r.xid # 0 /\ Pos(r).xid = r.xid
  BY RowPosition DEF TypeOK, NumbersTaken, RowNumbers
<1>1. CASE AtMost(Pos(r), cursor[c])
  <2>1. ~IsZero(cursor[c])
    BY <1>0, <1>1 DEF IsZero, AtMost, Less, Position
  <2> QED
    BY <1>1, <2>1 DEF GapFree
<1>2. CASE Less(cursor[c], Pos(r))
  <2>1. r \in changelog
    <3>1. SUFFICES ASSUME r \in pruned PROVE FALSE
      BY DEF History
    <3>2. ~IsZero(cursor[c]) /\ AtMost(horizon, cursor[c])
      BY <3>1 DEF PullPage, CursorExpired, AtMost
    <3>3. AtMost(Pos(r), horizon)
      BY <3>1 DEF HorizonCoversPruned
    <3> QED
      BY <1>0, <1>2, <3>2, <3>3, LessOrder
  <2>2. PICK s \in Page(c) : p = Pos(s)
    BY <1>0, <1>2, LessOrder DEF PullPage, NextCursor
  <2>3. s \in changelog /\ BeforeSnapshotHorizon(s.xid)
    BY DEF Page, Available
  <2>4. s.xid \in Nat /\ r.xid \in Nat /\ r.xid <= s.xid
    <3>1. s \in History
      BY <2>3 DEF History
    <3>2. r.xid \in Nat /\ s.xid \in Nat /\ Pos(s).xid = s.xid /\ Pos(s) \in Position
      BY <3>1, RowPosition
    <3> QED
      BY <1>0, <2>2, <3>2, LessOrder
  <2>5. BeforeSnapshotHorizon(r.xid)
    <3>1. RunningXids \subseteq Nat /\ nextXid \in Nat
      BY DEF TypeOK, RunningXids, Tx, Prune
    <3> QED
      BY <2>3, <2>4, <3>1 DEF BeforeSnapshotHorizon
  <2>6. r \in Available(c)
    BY <1>2, <2>1, <2>5 DEF Available
  <2>7. r \in Page(c)
    BY <2>2, <2>6, PageClosed
  <2>8. Resolve(Page(c))[r.entity] = table[r.entity] /\ r.seq <= table[r.entity]
    BY <1>0, <2>7 DEF Resolve, CurrentState, VersionsInOrder
  <2>9. table[r.entity] \in Nat
    BY <1>0 DEF TypeOK
  <2> QED
    BY <1>0, <2>8, <2>9
<1> QED
  BY <1>0, <1>1, <1>2, LessOrder

(* A commit cannot land at or before a position already handed out.        *)
LEMMA CommitIsAhead ==
    ASSUME TypeOK, NumbersTaken, ClosedBehindCursors, NEW w \in Writers, CommitWrite(w),
           NEW c \in Clients
    PROVE  /\ ~AtMost(Pos(RowOf(tx[w])), cursor[c])
           /\ ~AtMost(Pos(RowOf(tx[w])), resp[c].next)
<1>1. tx[w].xid # 0 /\ tx[w].xid \in RunningXids
  BY DEF CommitWrite, NumbersTaken, TxNumbers, RunningXids
<1>2. cursor[c].xid < tx[w].xid /\ resp[c].next.xid < tx[w].xid
  BY <1>1 DEF ClosedBehindCursors
<1> QED
  BY <1>2 DEF AtMost, Less, Pos, RowOf

LEMMA GapNext ==
    ASSUME IInv, [Next]_vars
    PROVE  GapFree'
<1> USE DEF IInv
<1> SUFFICES ASSUME NEW c \in Clients, NEW r \in History', Visible(c, r.entity),
                    AtMost(Pos(r), cursor'[c]), r \notin lost'[c]
             PROVE  replica'[c][r.entity] >= r.seq
  BY DEF GapFree, History, Visible
<1>1. ASSUME NEW w \in Writers, CommitWrite(w) PROVE r \in History
  <2>1. cursor' = cursor /\ History' = History \cup {RowOf(tx[w])}
    BY <1>1 DEF CommitWrite, clientVars, pruneVars, History
  <2> QED
    BY <1>1, <2>1, CommitIsAhead
<1>2. r \in History
  BY <1>1, HistoryStep
<1>3. /\ r.entity \in Entities /\ r.seq \in Nat /\ Pos(r) \in Position /\ r.xid # 0
      /\ cursor \in [Clients -> Position] /\ replica \in [Clients -> [Entities -> Nat]]
      /\ lost \in [Clients -> SUBSET Row] /\ resp[c] \in Response
  BY <1>2, RowPosition DEF TypeOK, NumbersTaken, RowNumbers
<1>4. CASE UNCHANGED <<cursor[c], lost[c], replica[c]>>
  BY <1>2, <1>4 DEF GapFree
<1>5. CASE Deliver(c)
  <2>1. /\ replica'[c] = Merge(c) /\ cursor'[c] = resp[c].next /\ lost'[c] = Excused(c)
        /\ resp[c].kind = "page"
    BY <1>3, <1>5 DEF Deliver, Excused
  <2> QED
    BY <1>2, <2>1 DEF ResponseGapFree
<1>6. CASE DeliverAndCrash(c)
  <2>1. replica'[c] = Merge(c) /\ cursor'[c] = cursor[c] /\ lost'[c] = lost[c]
    BY <1>3, <1>6 DEF DeliverAndCrash
  <2>2. replica[c][r.entity] >= r.seq /\ replica[c][r.entity] \in Nat
    BY <1>2, <1>3, <2>1 DEF GapFree
  <2> QED
    BY <1>3, <2>1, <2>2, MergeCovers
<1>7. CASE ResetCursor(c)
  <2>1. cursor'[c] = ZeroCursor
    BY <1>3, <1>7 DEF ResetCursor
  <2> QED
    BY <1>3, <2>1 DEF ZeroCursor, AtMost, Less, Position, Pos
<1>8. ASSUME NEW d \in Clients,
             \/ PullExpired(d) \/ LoseResponse(d) \/ \E p : PullPage(d, p)
             \/ d # c /\ (Deliver(d) \/ DeliverAndCrash(d) \/ ResetCursor(d))
      PROVE  UNCHANGED <<cursor[c], lost[c], replica[c]>>
  BY <1>3, <1>8 DEF PullExpired, LoseResponse, PullPage, Deliver, DeliverAndCrash, ResetCursor
<1> QED
  BY <1>4, <1>5, <1>6, <1>7, <1>8, ClientStep DEF clientVars

LEMMA ResponseGapNext ==
    ASSUME IInv, [Next]_vars
    PROVE  ResponseGapFree'
<1> USE DEF IInv
<1> SUFFICES ASSUME NEW c \in Clients, resp'[c].kind = "page",
                    NEW r \in History', Visible(c, r.entity),
                    AtMost(Pos(r), resp'[c].next), r \notin Excused(c)'
             PROVE  Merge(c)'[r.entity] >= r.seq
  BY DEF ResponseGapFree, History, Visible
<1>0. /\ cursor \in [Clients -> Position] /\ replica \in [Clients -> [Entities -> Nat]]
      /\ resp \in [Clients -> Response] /\ lost \in [Clients -> SUBSET Row]
  BY DEF TypeOK
<1>1. CASE UNCHANGED <<resp[c], lost[c], replica[c]>>
  <2>1. r \in History
    <3>1. ASSUME NEW w \in Writers, CommitWrite(w), r = RowOf(tx[w]) PROVE FALSE
      BY <1>1, <3>1, CommitIsAhead
    <3> QED
      BY <3>1, HistoryStep
  <2>2. r.entity \in Entities
    BY <2>1, RowPosition
  <2>3. Merge(c)'[r.entity] = Merge(c)[r.entity] /\ Excused(c)' = Excused(c)
    BY <1>1, <2>2 DEF Merge, Excused
  <2> QED
    BY <1>1, <2>1, <2>3 DEF ResponseGapFree
<1>2. ASSUME NEW p \in {cursor[c]} \cup {Pos(s) : s \in Page(c)}, PullPage(c, p)
      PROVE  Merge(c)'[r.entity] >= r.seq
  <2>1. /\ resp'[c].changes = Resolve(Page(c)) /\ resp'[c].next = p
        /\ resp'[c].from = cursor[c] /\ resp'[c].prunedThen = pruned
        /\ replica' = replica /\ lost' = lost /\ History' = History
    BY <1>0, <1>2 DEF PullPage, History, dbVars, pruneVars
  <2>2. r \in History /\ r \notin (IF IsZero(cursor[c]) THEN pruned ELSE lost[c])
    BY <2>1 DEF Excused, IsZero
  <2>3. p \in Position
    BY <2>1, TypeNext DEF TypeOK, Response
  <2>4. replica[c][r.entity] >= r.seq \/ Resolve(Page(c))[r.entity] >= r.seq
    BY <1>2, <2>1, <2>2, <2>3, PageCovers
  <2>5. r.entity \in Entities /\ r.seq \in Nat /\ r.seq # 0
    BY <2>2, RowPosition DEF NumbersTaken, RowNumbers
  <2>6. /\ Resolve(Page(c))[r.entity] \in {0, table[r.entity]}
        /\ replica[c][r.entity] <= table[r.entity]
        /\ table[r.entity] \in Nat /\ replica[c][r.entity] \in Nat
    BY <1>0, <2>5 DEF Resolve, CurrentState, ResponseFresh, TypeOK
  <2>7. Merge(c)'[r.entity] = IF Resolve(Page(c))[r.entity] # 0
                              THEN Resolve(Page(c))[r.entity] ELSE replica[c][r.entity]
    BY <2>1, <2>5 DEF Merge
  <2> QED
    BY <2>4, <2>5, <2>6, <2>7
<1>3. ASSUME NEW d \in Clients, \E p : PullPage(d, p), d # c
      PROVE  UNCHANGED <<resp[c], lost[c], replica[c]>>
  BY <1>0, <1>3 DEF PullPage
<1>4. ASSUME NEW d \in Clients,
             PullExpired(d) \/ Deliver(d) \/ DeliverAndCrash(d) \/ LoseResponse(d) \/ ResetCursor(d)
      PROVE  UNCHANGED <<resp[c], lost[c], replica[c]>>
  <2>1. d # c
    BY <1>0, <1>4 DEF PullExpired, Deliver, DeliverAndCrash, LoseResponse, ResetCursor, NoResponse
  <2> QED
    BY <1>0, <1>4, <2>1 DEF PullExpired, Deliver, DeliverAndCrash, LoseResponse, ResetCursor
<1> QED
  BY <1>1, <1>2, <1>3, <1>4, ClientStep DEF clientVars

-----------------------------------------------------------------------------
(* The invariant holds initially and every step keeps it.                  *)
LEMMA InvInit == Init => IInv
<1> SUFFICES ASSUME Init PROVE IInv
  OBVIOUS
<1>1. TypeOK
  BY TypeInit
<1>2. History = {} /\ IsFiniteSet(changelog)
  BY FS_EmptySet DEF Init, History
<1>3. NumbersTaken /\ VersionsInOrder
  BY <1>2 DEF Init, NumbersTaken, RowNumbers, TxNumbers, PruneNumbers, VersionsInOrder,
     IdleTx, IdlePrune, Nothing
<1>4. ClosedBehindCursors
  BY DEF Init, ClosedBehindCursors, RunningXids, IdleTx, IdlePrune, ZeroCursor, NoResponse
<1>5. HorizonCoversPruned /\ GapFree /\ ResponseGapFree
  BY <1>2 DEF Init, HorizonCoversPruned, GapFree, ResponseGapFree
<1>6. ResponseFresh
  BY DEF Init, ResponseFresh, NoResponse, Nothing
<1> QED
  BY <1>1, <1>2, <1>3, <1>4, <1>5, <1>6 DEF IInv

LEMMA InvNext == IInv /\ [Next]_vars => IInv'
<1> SUFFICES ASSUME IInv, [Next]_vars PROVE IInv'
  OBVIOUS
<1>1. TypeOK' /\ IsFiniteSet(changelog')
  BY TypeNext, FiniteNext DEF IInv
<1>2. NumbersTaken'
  BY RowNumbersNext, TxNumbersNext, PruneNumbersNext DEF IInv, NumbersTaken
<1>3. VersionsInOrder' /\ ResponseFresh'
  BY VersionsNext, FreshNext DEF IInv
<1>4. ClosedBehindCursors' /\ HorizonCoversPruned'
  BY ClosedNext, HorizonNext DEF IInv
<1>5. GapFree' /\ ResponseGapFree'
  BY GapNext, ResponseGapNext
<1> QED
  BY <1>1, <1>2, <1>3, <1>4, <1>5 DEF IInv

LEMMA Invariance == Spec => []IInv
  BY InvInit, InvNext, PTL DEF Spec

(* No device ever skips a change: everything committed at or before its    *)
(* cursor is in its replica, but for what was pruned before it started.    *)
THEOREM GapFreeFeed == Spec => []GapFree
<1>1. IInv => GapFree
  BY DEF IInv
<1> QED
  BY <1>1, Invariance, PTL

(* A position once handed out is final: no transaction can commit a row at *)
(* or before it any more.                                                  *)
THEOREM ClosedFeed == Spec => []ClosedBehindCursors
<1>1. IInv => ClosedBehindCursors
  BY DEF IInv
<1> QED
  BY <1>1, Invariance, PTL

(* No deleted row is ever beyond the horizon pulls are checked against.    *)
THEOREM HorizonSafe == Spec => []HorizonCoversPruned
<1>1. IInv => HorizonCoversPruned
  BY DEF IInv
<1> QED
  BY <1>1, Invariance, PTL

(* The horizon only moves forward, with any number of pruners.             *)
THEOREM HorizonMonotone == Spec => HorizonNeverRetreats
<1>1. IInv /\ [Next]_vars => [AtMost(horizon, horizon')]_vars
  BY HorizonNext DEF IInv
<1> QED
  BY <1>1, Invariance, PTL DEF Spec, HorizonNeverRetreats

(* No device goes back to an older version of an entity.                   *)
THEOREM ReplicaMonotone == Spec => ReplicaNeverRegresses
<1>1. ASSUME IInv, [Next]_vars, NEW c \in Clients, NEW e \in Entities
      PROVE  replica'[c][e] >= replica[c][e]
  <2>0. replica \in [Clients -> [Entities -> Nat]]
    BY <1>1 DEF IInv, TypeOK
  <2>1. CASE replica'[c] = replica[c]
    BY <2>0, <2>1
  <2>2. CASE replica'[c] = Merge(c)
    BY <1>1, <2>2, MergeCovers DEF IInv
  <2>3. replica'[c] \in {replica[c], Merge(c)}
    BY <1>1, <2>0, ClientStep DEF clientVars, PullExpired, PullPage, Deliver, DeliverAndCrash,
       LoseResponse, ResetCursor
  <2> QED
    BY <2>1, <2>2, <2>3
<1>2. IInv /\ [Next]_vars =>
        [\A c \in Clients, e \in Entities : replica'[c][e] >= replica[c][e]]_vars
  BY <1>1
<1> QED
  BY <1>2, Invariance, PTL DEF Spec, ReplicaNeverRegresses

(* Every position the feed computes from a stored xmin is the id of the    *)
(* transaction that wrote the row, across epochs.                          *)
THEOREM PositionsExact == Spec => []WideningExact
<1>1. IInv => WideningExact
  <2>. SUFFICES ASSUME IInv, NEW r \in changelog, NEW xmax \in (r.xid + 1)..nextXid,
                       xmax < r.xid + XidModulus
                PROVE  XminXid8(Xmin(r.xid, XidModulus), xmax, XidModulus) = r.xid
    BY DEF WideningExact
  <2>1. r.xid \in Nat /\ nextXid \in Nat
    BY DEF IInv, TypeOK, Row
  <2>2. xmax \in Nat /\ r.xid <= xmax
    BY <2>1
  <2>. QED
    BY <2>1, <2>2, WideningLossless, LimitsAssumption
<1> QED
  BY <1>1, Invariance, PTL
-----------------------------------------------------------------------------
(* What answers and replicas hold: committed versions of the client's own  *)
(* rows.                                                                   *)

LEMMA VersionsStep ==
    ASSUME TypeOK, [Next]_vars
    PROVE  \/ \A e \in Entities : Versions(e)' = Versions(e)
           \/ \E w \in Writers :
                /\ CommitWrite(w)
                /\ \A e \in Entities : Versions(e)' = IF e = tx[w].entity
                                                      THEN Versions(e) \cup {tx[w].seq}
                                                      ELSE Versions(e)
<1>1. CASE History' = History
  BY <1>1 DEF Versions
<1>2. ASSUME NEW w \in Writers, History' = History \cup {RowOf(tx[w])}, NEW e \in Entities
      PROVE  Versions(e)' = IF e = tx[w].entity THEN Versions(e) \cup {tx[w].seq} ELSE Versions(e)
  <2>1. RowOf(tx[w]).entity = tx[w].entity /\ RowOf(tx[w]).seq = tx[w].seq
    BY DEF RowOf
  <2> QED
    BY <1>2, <2>1 DEF Versions
<1> QED
  BY <1>1, <1>2, HistoryStep

LEMMA CommittedNext ==
    ASSUME IInv, VersionsCommitted, [Next]_vars
    PROVE  VersionsCommitted'
<1>0. /\ TypeOK /\ table \in [Entities -> Nat] /\ resp \in [Clients -> Response]
  BY DEF IInv, TypeOK
<1>1. \A e \in Entities : Versions(e) \subseteq Versions(e)'
  BY <1>0, VersionsStep
<1>2. ASSUME NEW e \in Entities, table'[e] # 0 PROVE table'[e] \in Versions(e)'
  <2>1. CASE table'[e] = table[e]
    BY <1>1, <1>2, <2>1 DEF VersionsCommitted
  <2>2. ASSUME NEW w \in Writers, CommitWrite(w) PROVE table'[e] \in Versions(e)'
    <3>1. table' = [table EXCEPT ![tx[w].entity] = tx[w].seq]
          /\ History' = History \cup {RowOf(tx[w])}
      BY <2>2 DEF CommitWrite, History, pruneVars
    <3>2. CASE e = tx[w].entity
      <4>1. RowOf(tx[w]).entity = e /\ RowOf(tx[w]).seq = table'[e]
        BY <1>0, <3>1, <3>2 DEF RowOf
      <4> QED
        BY <3>1, <4>1 DEF Versions
    <3>3. CASE e # tx[w].entity
      BY <1>0, <2>1, <3>1, <3>3
    <3> QED
      BY <3>2, <3>3
  <2>3. table' = table \/ \E w \in Writers : CommitWrite(w)
    BY DatabaseStep DEF dbVars, BeginWrite, AssignXid, TakeServerSeq, LogChange, AbortWrite,
       PruneDelete, PruneCommit
  <2> QED
    BY <2>1, <2>2, <2>3
<1>3. ASSUME NEW c \in Clients, NEW e \in Entities, resp'[c].changes[e] # 0
      PROVE  Visible(c, e) /\ resp'[c].changes[e] \in Versions(e)'
  <2>1. CASE resp'[c].changes[e] = resp[c].changes[e]
    BY <1>1, <1>3, <2>1 DEF VersionsCommitted
  <2>2. ASSUME NEW d \in Clients,
               PullExpired(d) \/ Deliver(d) \/ DeliverAndCrash(d) \/ LoseResponse(d) \/ ResetCursor(d)
        PROVE  resp'[c].changes[e] = resp[c].changes[e]
    <3>1. resp'[c] = resp[c] \/ resp'[c].changes = Nothing
      BY <1>0, <2>2 DEF PullExpired, Deliver, DeliverAndCrash, LoseResponse, ResetCursor, NoResponse
    <3> QED
      BY <1>3, <3>1 DEF Nothing
  <2>3. ASSUME NEW d \in Clients, NEW p, PullPage(d, p)
        PROVE  Visible(c, e) /\ resp'[c].changes[e] \in Versions(e)'
    <3>1. CASE d # c
      BY <1>0, <2>1, <2>3, <3>1 DEF PullPage
    <3>2. CASE d = c
      <4>1. resp'[c].changes = Resolve(Page(c))
        BY <1>0, <2>3, <3>2 DEF PullPage
      <4>2. PICK r \in Page(c) : r.entity = e
        BY <1>3, <4>1 DEF Resolve
      <4>3. resp'[c].changes[e] = table[e]
        BY <4>1, <4>2 DEF Resolve, CurrentState
      <4>4. Visible(c, e)
        BY <4>2 DEF Page, Available
      <4> QED
        BY <1>1, <1>3, <4>3, <4>4 DEF VersionsCommitted
    <3> QED
      BY <3>1, <3>2
  <2> QED
    BY <2>1, <2>2, <2>3, ClientStep DEF clientVars
<1> QED
  BY <1>2, <1>3 DEF VersionsCommitted, Visible, Versions, History

LEMMA ReplicaStep ==
    ASSUME TypeOK, [Next]_vars
    PROVE  \/ replica' = replica
           \/ \E c \in Clients :
                /\ replica' = [replica EXCEPT ![c] = Merge(c)]
                /\ Deliver(c) \/ DeliverAndCrash(c)
  BY ClientStep DEF clientVars, PullExpired, PullPage, Deliver, DeliverAndCrash,
     LoseResponse, ResetCursor

LEMMA IsolationNext ==
    ASSUME IInv, VersionsCommitted, TenantIsolation, [Next]_vars
    PROVE  TenantIsolation'
<1>0. TypeOK /\ replica \in [Clients -> [Entities -> Nat]]
  BY DEF IInv, TypeOK
<1> SUFFICES ASSUME NEW c \in Clients, NEW e \in Entities, Owner[e] # System, Owner[e] # UserOf[c]
             PROVE  replica'[c][e] = 0 /\ resp'[c].changes[e] = 0
  BY DEF TenantIsolation
<1>1. ~Visible(c, e)
  BY DEF Visible
<1>2. resp'[c].changes[e] = 0
  BY <1>1, CommittedNext DEF VersionsCommitted, Visible
<1>3. replica[c][e] = 0 /\ Merge(c)[e] = 0
  BY DEF TenantIsolation, Merge
<1> QED
  BY <1>0, <1>2, <1>3, ReplicaStep

LEMMA FeedInvariance == Spec => []FeedIInv
<1>1. Init => VersionsCommitted /\ TenantIsolation
  BY DEF Init, VersionsCommitted, TenantIsolation, Nothing, NoResponse
<1>2. IInv /\ VersionsCommitted /\ TenantIsolation /\ [Next]_vars
        => VersionsCommitted' /\ TenantIsolation'
  BY CommittedNext, IsolationNext
<1> QED
  BY <1>1, <1>2, Invariance, PTL DEF Spec, FeedIInv

(* No version of another account's row is ever in an answer or on a device,*)
(* whatever positions, horizons and pages the accounts share.              *)
THEOREM TenantsIsolated == Spec => []TenantIsolation
<1>1. FeedIInv => TenantIsolation
  BY DEF FeedIInv
<1> QED
  BY <1>1, FeedInvariance, PTL

-----------------------------------------------------------------------------
(* The refinement: a commit is a new version, storing an answer brings the *)
(* copy forward, everything else is a stutter.                             *)

\* A committing version is later than all there were
LEMMA CommitIsWrite ==
    ASSUME FeedIInv, [Next]_vars, NEW w \in Writers, CommitWrite(w)
    PROVE  Replicas!Write(tx[w].entity)
<1> DEFINE V == [e \in Entities |-> Versions(e)]
           e0 == tx[w].entity
           n == tx[w].seq
<1>0. /\ TypeOK /\ e0 \in Entities /\ n \in Nat
      /\ \A r \in History : r \in Row
      /\ replica' = replica
  BY DEF FeedIInv, IInv, TypeOK, Tx, History, CommitWrite, clientVars
<1>1. n # 0 /\ table[e0] < n /\ table[e0] \in Nat
  BY <1>0 DEF FeedIInv, IInv, CommitWrite, NumbersTaken, TxNumbers, VersionsInOrder, TypeOK
<1>2. \A m \in Versions(e0) : m < n
  BY <1>0, <1>1 DEF Versions, Row, FeedIInv, IInv, VersionsInOrder
<1>3. \A e \in Entities : Versions(e)' = IF e = e0 THEN Versions(e) \cup {n} ELSE Versions(e)
  <2>1. History' = History \cup {RowOf(tx[w])} /\ RowOf(tx[w]).entity = e0 /\ RowOf(tx[w]).seq = n
    BY DEF CommitWrite, History, pruneVars, RowOf
  <2> QED
    BY <2>1 DEF Versions
<1>4. V' = [V EXCEPT ![e0] = @ \cup {n}]
  BY <1>0, <1>3
<1>5. n \in V'[e0] /\ n > 0 /\ \A m \in V[e0] : m < n
  BY <1>0, <1>1, <1>2, <1>3
<1> QED
  BY <1>0, <1>4, <1>5 DEF Replicas!Write

\* Storing an answer is a step to committed, readable, later versions
LEMMA DeliveryIsSync ==
    ASSUME FeedIInv, [Next]_vars, NEW c \in Clients, Deliver(c) \/ DeliverAndCrash(c)
    PROVE  Replicas!Sync(c)
<1> DEFINE V == [e \in Entities |-> Versions(e)]
<1>0. /\ TypeOK /\ ResponseFresh /\ replica \in [Clients -> [Entities -> Nat]]
      /\ replica' = [replica EXCEPT ![c] = Merge(c)]
  BY DEF FeedIInv, IInv, TypeOK, Deliver, DeliverAndCrash
<1>1. V' = V
  <2>1. History' = History
    BY DEF Deliver, DeliverAndCrash, History, dbVars, pruneVars
  <2> QED
    BY <2>1 DEF Versions
<1>2. ASSUME NEW e \in Entities, replica'[c][e] # replica[c][e]
      PROVE  Visible(c, e) /\ replica'[c][e] \in V[e] /\ replica'[c][e] > replica[c][e]
  <2>1. replica'[c][e] = Merge(c)[e] /\ Merge(c)[e] >= replica[c][e] /\ Merge(c)[e] \in Nat
    BY <1>0, MergeCovers
  <2>2. resp[c].changes[e] # 0 /\ Merge(c)[e] = resp[c].changes[e]
    BY <1>0, <1>2, <2>1 DEF Merge
  <2>3. Visible(c, e) /\ resp[c].changes[e] \in Versions(e)
    BY <2>2 DEF FeedIInv, VersionsCommitted
  <2>4. replica[c][e] \in Nat
    BY <1>0
  <2> QED
    BY <1>2, <2>1, <2>2, <2>3, <2>4
<1>3. replica' = [replica EXCEPT ![c] = replica'[c]]
  BY <1>0
<1> QED
  BY <1>1, <1>2, <1>3 DEF Replicas!Sync

LEMMA StepImplements ==
    ASSUME FeedIInv, [Next]_vars
    PROVE  [Replicas!Next]_(Replicas!vars)
<1> DEFINE V == [e \in Entities |-> Versions(e)]
<1>0. TypeOK
  BY DEF FeedIInv, IInv
<1>1. ASSUME NEW w \in Writers, CommitWrite(w) PROVE Replicas!Next
  <2>1. tx[w].entity \in Entities
    BY <1>0, <1>1 DEF CommitWrite, TypeOK
  <2> QED
    BY <1>1, <2>1, CommitIsWrite DEF Replicas!Next
<1>2. ASSUME NEW c \in Clients, Deliver(c) \/ DeliverAndCrash(c) PROVE Replicas!Next
  BY <1>2, DeliveryIsSync DEF Replicas!Next
<1>3. ASSUME \A e \in Entities : Versions(e)' = Versions(e), replica' = replica
      PROVE  UNCHANGED Replicas!vars
  BY <1>3 DEF Replicas!vars
<1> QED
  BY <1>0, <1>1, <1>2, <1>3, VersionsStep, ReplicaStep

(* The change feed implements Replication: from committed version to later *)
(* committed version of the account's own rows, and nothing else.          *)
THEOREM FeedImplementsReplication == Spec => ImplementsReplication
<1>1. Init => Replicas!Init
  <2>1. Init => \A e \in Entities : Versions(e) = {}
    BY DEF Init, Versions, History
  <2> QED
    BY <2>1 DEF Init, Replicas!Init, Nothing
<1>2. FeedIInv /\ [Next]_vars => [Replicas!Next]_(Replicas!vars)
  BY StepImplements
<1> QED
  BY <1>1, <1>2, FeedInvariance, PTL DEF Spec, ImplementsReplication, Replicas!Spec

=============================================================================
