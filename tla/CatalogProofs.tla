--------------------------- MODULE CatalogProofs ---------------------------
(***************************************************************************)
(* Proofs about Catalog, for every set of accounts, ids, names and         *)
(* sessions, every page size and every start time of the events.           *)
(***************************************************************************)
EXTENDS Catalog, FiniteSetTheorems, WellFoundedInduction, TLAPS

(* Next, one disjunct per kind of statement.                               *)
LEMMA NextCases ==
    ASSUME Next
    PROVE  \/ \E s \in Sessions, u \in Users, i \in Ids :
                \/ \E n \in Names \cup {NoName}, del \in BOOLEAN : BeginInsert(s, u, i, n, del)
                \/ \E n \in Names \cup {NoName} : Own(u, i) /\ ReadForPatch(s, i, n)
                \/ SoftDelete(s, u, i)
           \/ \E s \in Sessions : LockRow(s) \/ PlaceRow(s) \/ CommitRow(s) \/ FailRequest(s)
           \/ ListPage
           \/ Reopen
<1>1. ASSUME NEW s \in Sessions, NEW u \in Users, NEW i \in Ids, Create(s, u, i)
      PROVE  \E n \in Names \cup {NoName}, del \in BOOLEAN : BeginInsert(s, u, i, n, del)
  BY <1>1 DEF Create, CreateProject, CreateCategory, CreateTag, InsertEvent
<1>2. ASSUME NEW s \in Sessions, NEW u \in Users, NEW i \in Ids, Update(s, u, i)
      PROVE  \E n \in Names \cup {NoName} : Own(u, i) /\ ReadForPatch(s, i, n)
  BY <1>2 DEF Update, UpdateProject, UpdateCategory, UpdateTag
<1>3. ASSUME NEW s \in Sessions, NEW u \in Users, NEW i \in Ids, Delete(s, u, i)
      PROVE  SoftDelete(s, u, i)
  BY <1>3 DEF Delete, DeleteProject, DeleteTag, DeleteCategory, TombstoneEvent
<1>4. ASSUME NEW s \in Sessions, Step(s) \/ DeadlockAbort(s)
      PROVE  LockRow(s) \/ PlaceRow(s) \/ CommitRow(s) \/ FailRequest(s)
  BY <1>4 DEF Step, DeadlockAbort
<1> QED
  BY <1>1, <1>2, <1>3, <1>4 DEF Next

-----------------------------------------------------------------------------
(* Types.                                                                  *)

LEMMA ConstantTypes ==
    /\ Absent \in Row
    /\ Idle \in Request
    /\ FirstPage \in Pagination
<1>1. Absent \in Row
  BY DEF Absent, Row
<1>2. Idle \in Request
  BY <1>1 DEF Idle, Request
<1>3. FirstPage \in Pagination
  BY DEF FirstPage, Pagination, Cursor
<1> QED
  BY <1>1, <1>2, <1>3

LEMMA KeyType ==
    ASSUME TypeOK, NEW i \in Ids
    PROVE  Key(i) \in Cursor
<1>1. i \in Nat /\ Started[i] \in Nat /\ row[i].seq \in Nat
  BY CatalogAssumption DEF TypeOK, Row
<1> QED
  BY <1>1 DEF Key, Cursor

LEMMA UpdatedType ==
    ASSUME TypeOK, NEW s \in Sessions, req[s].id \in Ids
    PROVE  [Updated(s) EXCEPT !.seq = nextSeq] \in Row
<1>1. row[req[s].id] \in Row /\ req[s].new \in Row /\ nextSeq \in Nat
  BY DEF TypeOK, Request
<1> QED
  BY <1>1 DEF Updated, Row

LEMMA TypeInit == Init => TypeOK
<1> SUFFICES ASSUME Init PROVE TypeOK
  OBVIOUS
<1>1. [Absent EXCEPT !.seq = 1] \in Row
  BY DEF Absent, Row
<1>2. row \in [Ids -> Row]
  BY <1>1, ConstantTypes DEF Init
<1> QED
  BY <1>2, ConstantTypes DEF Init, TypeOK

LEMMA TypeNext ==
    ASSUME TypeOK, UnderWay, [Next]_vars
    PROVE  TypeOK'
<1>0. /\ table \in Tables /\ row \in [Ids -> Row] /\ nextSeq \in Nat
      /\ req \in [Sessions -> Request] /\ list \in Pagination
  BY DEF TypeOK
<1>1. CASE UNCHANGED vars
  BY <1>0, <1>1 DEF TypeOK, vars
<1>2. ASSUME NEW s \in Sessions, NEW u \in Users, NEW i \in Ids,
             NEW n \in Names \cup {NoName}, NEW del \in BOOLEAN, BeginInsert(s, u, i, n, del)
      PROVE  TypeOK'
  <2>1. [owner |-> u, name |-> n, deleted |-> del, seq |-> nextSeq] \in Row
    BY <1>0 DEF Row
  <2>2. [pc |-> "place", op |-> "insert", id |-> i,
         new |-> [owner |-> u, name |-> n, deleted |-> del, seq |-> nextSeq]] \in Request
    BY <2>1 DEF Request
  <2>3. req' \in [Sessions -> Request] /\ nextSeq' \in Nat /\ UNCHANGED <<table, row, list>>
    BY <1>0, <1>2, <2>2 DEF BeginInsert
  <2> QED
    BY <1>0, <2>3 DEF TypeOK
<1>3. ASSUME NEW s \in Sessions, NEW i \in Ids, NEW n \in Names \cup {NoName}, ReadForPatch(s, i, n)
      PROVE  TypeOK'
  <2>1. row[i] \in Row
    BY <1>0
  <2>2. [row[i] EXCEPT !.name = n, !.seq = 0] \in Row
    BY <2>1 DEF Row
  <2>3. [pc |-> "lock", op |-> "patch", id |-> i,
         new |-> [row[i] EXCEPT !.name = n, !.seq = 0]] \in Request
    BY <2>2 DEF Request
  <2>4. req' \in [Sessions -> Request] /\ UNCHANGED <<table, row, nextSeq, list>>
    BY <1>0, <1>3, <2>3 DEF ReadForPatch
  <2> QED
    BY <1>0, <2>4 DEF TypeOK
<1>4. ASSUME NEW s \in Sessions, NEW u \in Users, NEW i \in Ids, SoftDelete(s, u, i)
      PROVE  TypeOK'
  <2>1. [Absent EXCEPT !.owner = u] \in Row
    BY ConstantTypes DEF Row
  <2>2. [pc |-> "lock", op |-> "delete", id |-> i,
         new |-> [Absent EXCEPT !.owner = u]] \in Request
    BY <2>1 DEF Request
  <2>3. req' \in [Sessions -> Request] /\ UNCHANGED <<table, row, nextSeq, list>>
    BY <1>0, <1>4, <2>2 DEF SoftDelete
  <2> QED
    BY <1>0, <2>3 DEF TypeOK
<1>5. ASSUME NEW s \in Sessions, LockRow(s) PROVE TypeOK'
  <2>1. req[s].id \in Ids /\ req[s] \in Request
    BY <1>0, <1>5 DEF LockRow, UnderWay
  <2>2. [Updated(s) EXCEPT !.seq = nextSeq] \in Row
    BY <2>1, UpdatedType
  <2>3. [req[s] EXCEPT !.pc = "place", !.new = [Updated(s) EXCEPT !.seq = nextSeq]] \in Request
    BY <2>1, <2>2 DEF Request
  <2>4. /\ req' \in [Sessions -> Request] /\ nextSeq' \in Nat
        /\ UNCHANGED <<table, row, list>>
    <3>1. \/ req' = [req EXCEPT ![s] = [req[s] EXCEPT !.pc = "place",
                                             !.new = [Updated(s) EXCEPT !.seq = nextSeq]]]
          \/ req' = [req EXCEPT ![s] = Idle]
      BY <1>0, <1>5 DEF LockRow
    <3> QED
      BY <1>0, <1>5, <2>3, <3>1, ConstantTypes DEF LockRow
  <2> QED
    BY <1>0, <2>4 DEF TypeOK
<1>6. ASSUME NEW s \in Sessions, PlaceRow(s) \/ FailRequest(s) PROVE TypeOK'
  <2>1. [req[s] EXCEPT !.pc = "commit"] \in Request
    BY <1>0 DEF Request
  <2>2. req' \in [Sessions -> Request] /\ UNCHANGED <<table, row, nextSeq, list>>
    BY <1>0, <1>6, <2>1, ConstantTypes DEF PlaceRow, FailRequest
  <2> QED
    BY <1>0, <2>2 DEF TypeOK
<1>7. ASSUME NEW s \in Sessions, CommitRow(s) PROVE TypeOK'
  <2>1. req[s].new \in Row
    BY <1>0 DEF Request
  <2>2. row' \in [Ids -> Row] /\ req' \in [Sessions -> Request] /\ UNCHANGED <<table, nextSeq, list>>
    BY <1>0, <1>7, <2>1, ConstantTypes DEF CommitRow
  <2> QED
    BY <1>0, <2>2 DEF TypeOK
<1>8. CASE ListPage
  <2>1. TakePage /\ UNCHANGED <<table, row, nextSeq, req>>
    BY <1>8 DEF ListPage, ListProjects, ListTags, ListCategories, ListActivities, Timeline
  <2>2. FirstRows(Limit) \subseteq Ids
    BY DEF FirstRows, Rest
  <2>3. list.cursor \in Cursor /\ list.start \subseteq Ids /\ list.got \in [Ids -> Nat]
        /\ list.again \subseteq Ids
    BY <1>0 DEF Pagination
  <2>4. ASSUME LastRow # {}
        PROVE  (CHOOSE c \in {Key(i) : i \in LastRow} : TRUE) \in Cursor
    <3>1. {Key(i) : i \in LastRow} # {} /\ {Key(i) : i \in LastRow} \subseteq Cursor
      BY <2>2, <2>4, KeyType DEF LastRow
    <3> QED
      BY <3>1
  <2>5. list'.more \in BOOLEAN /\ list'.cursor \in Cursor /\ list'.start \subseteq Ids
        /\ list'.again \subseteq Ids
    BY <2>1, <2>2, <2>3, <2>4 DEF TakePage
  <2>6. list'.got \in [Ids -> Nat]
    <3>1. \A i \in Ids : row[i].seq \in Nat
      BY <1>0 DEF Row
    <3> QED
      BY <2>1, <2>3, <3>1 DEF TakePage
  <2>7. list' \in Pagination
    BY <2>1, <2>5, <2>6 DEF TakePage, Pagination
  <2> QED
    BY <1>0, <2>1, <2>7 DEF TypeOK
<1>9. CASE Reopen
  BY <1>0, <1>9, ConstantTypes DEF Reopen, TypeOK
<1> QED
  BY <1>1, <1>2, <1>3, <1>4, <1>5, <1>6, <1>7, <1>8, <1>9, NextCases

-----------------------------------------------------------------------------
(* What a step does to the rows and to the statements under way.           *)

\* A commit is the only step that changes a row
LEMMA RowStep ==
    ASSUME TypeOK, [Next]_vars
    PROVE  row' = row \/ \E s \in Sessions : CommitRow(s)
  BY NextCases DEF vars, BeginInsert, ReadForPatch, SoftDelete, LockRow, PlaceRow,
     FailRequest, ListPage, Reopen

\* The session a step touches; nextSeq moves when a number is taken
LEMMA RequestStep ==
    ASSUME TypeOK, [Next]_vars
    PROVE  \/ UNCHANGED <<req, nextSeq>>
           \/ \E s \in Sessions :
                /\ \A t \in Sessions \ {s} : req'[t] = req[t]
                /\ \/ \E u \in Users, i \in Ids, n \in Names \cup {NoName}, del \in BOOLEAN :
                        BeginInsert(s, u, i, n, del)
                   \/ \E u \in Users, i \in Ids, n \in Names \cup {NoName} :
                        Own(u, i) /\ ReadForPatch(s, i, n)
                   \/ \E u \in Users, i \in Ids : SoftDelete(s, u, i)
                   \/ LockRow(s) \/ PlaceRow(s) \/ CommitRow(s) \/ FailRequest(s)
<1>0. req \in [Sessions -> Request]
  BY DEF TypeOK
<1>1. ASSUME NEW s \in Sessions,
             \/ \E u, i, n, del : BeginInsert(s, u, i, n, del)
             \/ \E i, n : ReadForPatch(s, i, n)
             \/ \E u, i : SoftDelete(s, u, i)
             \/ LockRow(s) \/ PlaceRow(s) \/ CommitRow(s) \/ FailRequest(s)
      PROVE  \A t \in Sessions \ {s} : req'[t] = req[t]
  BY <1>0, <1>1 DEF BeginInsert, ReadForPatch, SoftDelete, LockRow, PlaceRow, CommitRow,
     FailRequest
<1>2. CASE UNCHANGED vars \/ ListPage \/ Reopen
  BY <1>2 DEF vars, ListPage, Reopen
<1> QED
  BY <1>1, <1>2, NextCases

\* The session's own request after each statement
LEMMA InsertAfter ==
    ASSUME TypeOK, NEW s \in Sessions, NEW u, NEW i, NEW n, NEW del,
           BeginInsert(s, u, i, n, del)
    PROVE  /\ nextSeq' = nextSeq + 1
           /\ req'[s].pc = "place" /\ req'[s].op = "insert" /\ req'[s].id = i
           /\ req'[s].new.owner = u /\ req'[s].new.seq = nextSeq
<1>0. req \in [Sessions -> Request]
  BY DEF TypeOK
<1>1. req'[s] = [pc |-> "place", op |-> "insert", id |-> i,
                 new |-> [owner |-> u, name |-> n, deleted |-> del, seq |-> nextSeq]]
  BY <1>0 DEF BeginInsert
<1> QED
  BY <1>1 DEF BeginInsert

LEMMA RequestAfter ==
    ASSUME TypeOK, NEW s \in Sessions
    PROVE  /\ \A u \in Users, i \in Ids : \A n, del : BeginInsert(s, u, i, n, del) =>
                /\ nextSeq' = nextSeq + 1
                /\ req'[s].pc = "place" /\ req'[s].op = "insert" /\ req'[s].id = i
                /\ req'[s].new.owner = u /\ req'[s].new.seq = nextSeq
           /\ \A i \in Ids : \A n : ReadForPatch(s, i, n) =>
                /\ nextSeq' = nextSeq
                /\ req'[s].pc = "lock" /\ req'[s].op = "patch" /\ req'[s].id = i
                /\ req'[s].new.owner = row[i].owner /\ req'[s].new.seq = 0
           /\ \A u \in Users, i \in Ids : SoftDelete(s, u, i) =>
                /\ nextSeq' = nextSeq
                /\ req'[s].pc = "lock" /\ req'[s].op = "delete" /\ req'[s].id = i
                /\ req'[s].new.owner = u /\ req'[s].new.seq = 0
           /\ PlaceRow(s) =>
                /\ nextSeq' = nextSeq
                /\ req'[s] = Idle \/ req'[s] = [req[s] EXCEPT !.pc = "commit"]
           /\ CommitRow(s) \/ FailRequest(s) => req'[s] = Idle /\ nextSeq' = nextSeq
<1>0. req \in [Sessions -> Request]
  BY DEF TypeOK
<1>1. ASSUME NEW u, NEW i, NEW n, NEW del, BeginInsert(s, u, i, n, del)
      PROVE  /\ nextSeq' = nextSeq + 1
             /\ req'[s].pc = "place" /\ req'[s].op = "insert" /\ req'[s].id = i
             /\ req'[s].new.owner = u /\ req'[s].new.seq = nextSeq
  BY <1>1, InsertAfter
<1>2. ASSUME NEW i \in Ids, NEW n, ReadForPatch(s, i, n)
      PROVE  /\ nextSeq' = nextSeq
             /\ req'[s].pc = "lock" /\ req'[s].op = "patch" /\ req'[s].id = i
             /\ req'[s].new.owner = row[i].owner /\ req'[s].new.seq = 0
  <2>1. req'[s] = [pc |-> "lock", op |-> "patch", id |-> i,
                   new |-> [row[i] EXCEPT !.name = n, !.seq = 0]]
    BY <1>0, <1>2 DEF ReadForPatch
  <2>2. row[i] \in Row
    BY DEF TypeOK
  <2> QED
    BY <1>2, <2>1, <2>2 DEF ReadForPatch, Row
<1>3. ASSUME NEW u, NEW i, SoftDelete(s, u, i)
      PROVE  /\ nextSeq' = nextSeq
             /\ req'[s].pc = "lock" /\ req'[s].op = "delete" /\ req'[s].id = i
             /\ req'[s].new.owner = u /\ req'[s].new.seq = 0
  <2>1. req'[s] = [pc |-> "lock", op |-> "delete", id |-> i, new |-> [Absent EXCEPT !.owner = u]]
    BY <1>0, <1>3 DEF SoftDelete
  <2> QED
    BY <1>3, <2>1 DEF SoftDelete, Absent
<1>4. PlaceRow(s) =>
        nextSeq' = nextSeq /\ (req'[s] = Idle \/ req'[s] = [req[s] EXCEPT !.pc = "commit"])
  BY <1>0 DEF PlaceRow
<1>5. CommitRow(s) \/ FailRequest(s) => req'[s] = Idle /\ nextSeq' = nextSeq
  BY <1>0 DEF CommitRow, FailRequest
<1> QED
  BY <1>1, <1>2, <1>3, <1>4, <1>5

\* What holding the lock of a row means at the moment it is taken
LEMMA LockAfter ==
    ASSUME TypeOK, UnderWay, NumbersTaken, NEW s \in Sessions, LockRow(s)
    PROVE  \/ req'[s] = Idle /\ nextSeq' = nextSeq
           \/ /\ nextSeq' = nextSeq + 1
              /\ req'[s].pc = "place" /\ req'[s].op = req[s].op /\ req'[s].id = req[s].id
              /\ req'[s].new.seq = nextSeq
              /\ req'[s].new.owner = req[s].new.owner
              /\ Live(req[s].id) /\ row[req[s].id].owner = req[s].new.owner
              /\ row[req[s].id].seq < nextSeq
<1>0. /\ req \in [Sessions -> Request] /\ req[s].id \in Ids
      /\ row[req[s].id] \in Row
  BY DEF TypeOK, LockRow, UnderWay
<1>1. CASE ~Own(req[s].new.owner, req[s].id)
  BY <1>0, <1>1 DEF LockRow
<1>2. CASE Own(req[s].new.owner, req[s].id)
  <2>1. req'[s] = [req[s] EXCEPT !.pc = "place", !.new = [Updated(s) EXCEPT !.seq = nextSeq]]
        /\ nextSeq' = nextSeq + 1
    BY <1>0, <1>2 DEF LockRow
  <2>2. [Updated(s) EXCEPT !.seq = nextSeq].owner = row[req[s].id].owner
        /\ [Updated(s) EXCEPT !.seq = nextSeq].seq = nextSeq
    BY <1>0 DEF Updated, Row
  <2>3. Live(req[s].id) /\ row[req[s].id].owner = req[s].new.owner
    BY <1>2 DEF Own
  <2>4. row[req[s].id].seq < nextSeq
    BY <1>0 DEF NumbersTaken
  <2>5. req[s] \in Request
    BY <1>0
  <2> QED
    BY <2>1, <2>2, <2>3, <2>4, <2>5 DEF Request
<1> QED
  BY <1>1, <1>2

\* A committing version replaces an older one of its account, or nothing, and
\* nobody else is about to write the row
LEMMA CommitAfter ==
    ASSUME TypeOK, UnderWay, RowsLocked, KeysFree, NEW s \in Sessions, CommitRow(s)
    PROVE  /\ req[s].id \in Ids /\ req[s].new \in Row
           /\ row' = [row EXCEPT ![req[s].id] = req[s].new]
           /\ req[s].new.seq # 0 /\ row[req[s].id].seq < req[s].new.seq
           /\ req[s].new.owner \in Users
           /\ Exists(req[s].id) => Live(req[s].id) /\ row[req[s].id].owner = req[s].new.owner
           /\ \A t \in Sessions \ {s} : Updating(t) \/ Inserted(t) => req[t].id # req[s].id
<1>1. /\ req[s].pc = "commit" /\ row' = [row EXCEPT ![req[s].id] = req[s].new]
      /\ req[s].id \in Ids /\ req[s].new \in Row /\ req[s].new.seq # 0 /\ req[s].new.owner \in Users
  BY DEF CommitRow, UnderWay, TypeOK, Request
<1>2. req[s].new.seq \in Nat /\ row[req[s].id].seq \in Nat
  BY <1>1 DEF TypeOK, Row
<1>3. CASE Updating(s)
  <2>1. /\ Live(req[s].id) /\ row[req[s].id].owner = req[s].new.owner
        /\ row[req[s].id].seq < req[s].new.seq
        /\ \A t \in Sessions \ {s} : Updating(t) => req[t].id # req[s].id
    BY <1>3 DEF RowsLocked
  <2>2. \A t \in Sessions \ {s} : Inserted(t) => req[t].id # req[s].id
    BY <2>1 DEF KeysFree, Live
  <2> QED
    BY <1>1, <2>1, <2>2
<1>4. CASE Inserted(s)
  <2>1. /\ ~Exists(req[s].id)
        /\ \A t \in Sessions \ {s} : Inserted(t) => req[t].id # req[s].id
    BY <1>4 DEF KeysFree
  <2>2. \A t \in Sessions \ {s} : Updating(t) => req[t].id # req[s].id
    BY <2>1 DEF RowsLocked, Live
  <2> QED
    BY <1>1, <1>2, <2>1, <2>2 DEF Exists
<1> QED
  BY <1>1, <1>3, <1>4 DEF Updating, Inserted

\* The fate of one row in one step
LEMMA RowAfter ==
    ASSUME TypeOK, UnderWay, RowsLocked, KeysFree, [Next]_vars, NEW i \in Ids
    PROVE  /\ row'[i].seq >= row[i].seq
           /\ Exists(i) => Exists(i)' /\ row'[i].owner = row[i].owner
           /\ Exists(i) /\ row[i].deleted => row'[i] = row[i]
           /\ Exists(i) /\ row[i].owner = System => row'[i] = row[i]
<1>0. row \in [Ids -> Row] /\ row[i] \in Row /\ row[i].seq \in Nat
  BY DEF TypeOK, Row
<1>1. CASE row'[i] = row[i]
  BY <1>0, <1>1 DEF Exists
<1>2. ASSUME NEW s \in Sessions, CommitRow(s), i = req[s].id
      PROVE  /\ row'[i].seq >= row[i].seq
             /\ Exists(i) => Exists(i)' /\ row'[i].owner = row[i].owner
             /\ Exists(i) => ~row[i].deleted /\ row[i].owner # System
  <2>1. /\ row'[i] = req[s].new /\ req[s].new.seq # 0 /\ row[i].seq < req[s].new.seq
        /\ req[s].new.owner \in Users /\ req[s].new.seq \in Nat
        /\ Exists(i) => Live(i) /\ row[i].owner = req[s].new.owner
    BY <1>0, <1>2, CommitAfter DEF Row
  <2> QED
    BY <1>0, <2>1, CatalogAssumption DEF Exists, Live
<1>3. ASSUME NEW s \in Sessions, CommitRow(s), i # req[s].id PROVE row'[i] = row[i]
  BY <1>0, <1>3, CommitAfter
<1> QED
  BY <1>1, <1>2, <1>3, RowStep

-----------------------------------------------------------------------------
(* The conjuncts of IInv, one lemma each.                                  *)

LEMMA FiniteNext ==
    ASSUME IInv, [Next]_vars
    PROVE  IsFiniteSet({i \in Ids : Exists(i)})'
<1> DEFINE E == {i \in Ids : row[i].seq # 0}
           F == {i \in Ids : row'[i].seq # 0}
<1>0. IsFiniteSet(E)
  BY DEF IInv, Exists
<1>1. CASE row' = row
  BY <1>0, <1>1 DEF Exists
<1>2. ASSUME NEW s \in Sessions, CommitRow(s) PROVE IsFiniteSet(F)
  <2>1. row' = [row EXCEPT ![req[s].id] = req[s].new] /\ row \in [Ids -> Row]
    BY <1>2 DEF CommitRow, IInv, TypeOK
  <2>2. F \subseteq E \cup {req[s].id}
    BY <2>1
  <2>3. IsFiniteSet(E \cup {req[s].id})
    BY <1>0, FS_AddElement
  <2> QED
    BY <2>2, <2>3, FS_Subset
<1> QED
  BY <1>1, <1>2, RowStep DEF IInv, Exists

LEMMA SeqGrows ==
    ASSUME IInv, [Next]_vars
    PROVE  nextSeq \in Nat /\ nextSeq' \in Nat /\ nextSeq' >= nextSeq
<1>0. TypeOK /\ UnderWay /\ NumbersTaken /\ nextSeq \in Nat
  BY DEF IInv, TypeOK
<1>1. nextSeq' = nextSeq \/ nextSeq' = nextSeq + 1
  BY <1>0, RequestStep, RequestAfter, LockAfter
<1> QED
  BY <1>0, <1>1

LEMMA NumbersNext ==
    ASSUME IInv, [Next]_vars
    PROVE  NumbersTaken'
<1>0. /\ TypeOK /\ UnderWay /\ NumbersTaken /\ RowsLocked /\ KeysFree /\ TypeOK'
      /\ req \in [Sessions -> Request] /\ row \in [Ids -> Row]
  BY TypeNext DEF IInv, TypeOK
<1>1. \A s \in Sessions : req[s].new.seq < nextSeq /\ req[s].new.seq \in Nat
  BY <1>0 DEF NumbersTaken, Request, Row
<1>2. \A i \in Ids : row[i].seq < nextSeq /\ row[i].seq \in Nat
  BY <1>0 DEF NumbersTaken, Row
<1>3. ASSUME NEW i \in Ids PROVE row'[i].seq < nextSeq'
  <2>1. row'[i].seq < nextSeq /\ row'[i].seq \in Nat
    BY <1>0, <1>1, <1>2, RowStep DEF CommitRow
  <2> QED
    BY <2>1, SeqGrows
<1>4. ASSUME NEW s \in Sessions PROVE req'[s].new.seq < nextSeq'
  <2>1. CASE req'[s].new = req[s].new
    BY <1>1, <2>1, SeqGrows
  <2>2. CASE req'[s].new.seq = 0
    BY <1>1, <2>2, SeqGrows
  <2>3. CASE req'[s].new.seq = nextSeq /\ nextSeq' = nextSeq + 1
    BY <2>3, SeqGrows
  <2>4. CASE \E u \in Users, i \in Ids : \E n, del : BeginInsert(s, u, i, n, del)
    BY <1>0, <2>3, <2>4, RequestAfter
  <2>5. CASE (\E i \in Ids : \E n : ReadForPatch(s, i, n)) \/ \E u \in Users, i \in Ids : SoftDelete(s, u, i)
    BY <1>0, <2>2, <2>5, RequestAfter
  <2>6. CASE PlaceRow(s) \/ CommitRow(s) \/ FailRequest(s)
    <3>1. req'[s] = Idle \/ req'[s] = [req[s] EXCEPT !.pc = "commit"]
      BY <1>0, <2>6, RequestAfter
    <3>2. Idle.new.seq = 0
      BY DEF Idle, Absent
    <3> QED
      BY <1>0, <2>1, <2>2, <3>1, <3>2 DEF Request
  <2>7. CASE LockRow(s)
    <3>1. Idle.new.seq = 0
      BY DEF Idle, Absent
    <3> QED
      BY <1>0, <2>2, <2>3, <2>7, <3>1, LockAfter
  <2>8. CASE req'[s] = req[s]
    BY <2>1, <2>8
  <2> QED
    BY <1>0, <2>4, <2>5, <2>6, <2>7, <2>8, RequestStep
<1> QED
  BY <1>3, <1>4 DEF NumbersTaken

LEMMA UnderWayNext ==
    ASSUME IInv, [Next]_vars
    PROVE  UnderWay'
<1>0. /\ TypeOK /\ UnderWay /\ NumbersTaken
      /\ req \in [Sessions -> Request] /\ row \in [Ids -> Row]
  BY DEF IInv, TypeOK
<1> SUFFICES ASSUME NEW s \in Sessions, req'[s].pc # "idle"
             PROVE  /\ req'[s].id \in Ids /\ req'[s].new.owner \in Users
                    /\ req'[s].pc # "lock" => req'[s].new.seq # 0
  BY DEF UnderWay
<1>1. CASE req'[s] = req[s]
  BY <1>0, <1>1 DEF UnderWay
<1>2. nextSeq # 0
  <2>1. req[s].new.seq \in Nat /\ req[s].new.seq < nextSeq /\ nextSeq \in Nat
    BY <1>0 DEF NumbersTaken, Request, Row, TypeOK
  <2> QED
    BY <2>1
<1>3. CASE \E u \in Users, i \in Ids : \E n, del : BeginInsert(s, u, i, n, del)
  <2>1. PICK u \in Users, i \in Ids : \E n, del : BeginInsert(s, u, i, n, del)
    BY <1>3
  <2>2. PICK n, del : BeginInsert(s, u, i, n, del)
    BY <2>1
  <2>3. req'[s].id = i /\ req'[s].new.owner = u /\ req'[s].new.seq = nextSeq
    BY <1>0, <2>2, InsertAfter
  <2> QED
    BY <1>2, <2>1, <2>3
<1>4. CASE \E u \in Users, i \in Ids : \E n : Own(u, i) /\ ReadForPatch(s, i, n)
  <2>1. PICK u \in Users, i \in Ids : \E n : row[i].owner = u /\ ReadForPatch(s, i, n)
    BY <1>4 DEF Own
  <2>2. req'[s].pc = "lock" /\ req'[s].id = i /\ req'[s].new.owner = row[i].owner
    BY <1>0, <2>1, RequestAfter
  <2> QED
    BY <2>1, <2>2
<1>5. CASE \E u \in Users, i \in Ids : SoftDelete(s, u, i)
  <2>1. PICK u \in Users, i \in Ids : SoftDelete(s, u, i)
    BY <1>5
  <2>2. TypeOK
    BY <1>0
  <2>3. req'[s].pc = "lock" /\ req'[s].id = i /\ req'[s].new.owner = u
    BY <2>1, <2>2, RequestAfter
  <2> QED
    BY <2>1, <2>3
<1>6. CASE LockRow(s)
  <2>1. req[s].id \in Ids /\ req[s].new.owner \in Users
    BY <1>0, <1>6 DEF UnderWay, LockRow
  <2> QED
    BY <1>0, <1>2, <1>6, <2>1, LockAfter DEF Idle
<1>7. CASE PlaceRow(s) \/ CommitRow(s) \/ FailRequest(s)
  <2>1. req'[s] = [req[s] EXCEPT !.pc = "commit"] /\ PlaceRow(s)
    BY <1>0, <1>7, RequestAfter DEF Idle
  <2>2. req[s].pc = "place" /\ req[s] \in Request
    BY <1>0, <2>1 DEF PlaceRow
  <2>3. req'[s].id = req[s].id /\ req'[s].new = req[s].new
    BY <2>1, <2>2 DEF Request
  <2> QED
    BY <1>0, <2>2, <2>3 DEF UnderWay
<1> QED
  BY <1>0, <1>1, <1>3, <1>4, <1>5, <1>6, <1>7, RequestStep

\* After a commit or a failure the session is idle
LEMMA Released ==
    ASSUME TypeOK, NEW s \in Sessions, CommitRow(s) \/ FailRequest(s)
    PROVE  req'[s].pc = "idle"
  BY DEF TypeOK, CommitRow, FailRequest, Idle

\* A session has a row locked because it had, or because it has locked it now
LEMMA UpdatingAfter ==
    ASSUME IInv, [Next]_vars, NEW s \in Sessions, Updating(s)'
    PROVE  \/ /\ Updating(s)
              /\ req'[s].id = req[s].id /\ req'[s].new = req[s].new
              /\ ~CommitRow(s)
           \/ /\ LockRow(s) /\ row' = row
              /\ req'[s].id = req[s].id /\ ~Locked(s, req[s].id)
              /\ req'[s].new.owner = req[s].new.owner
              /\ Live(req[s].id) /\ row[req[s].id].owner = req[s].new.owner
              /\ row[req[s].id].seq < req'[s].new.seq
              /\ \A t \in Sessions \ {s} : req'[t] = req[t]
<1>0. /\ TypeOK /\ UnderWay /\ NumbersTaken /\ req[s] \in Request
      /\ req'[s].pc \in {"place", "commit"} /\ req'[s].op # "insert"
      /\ req \in [Sessions -> Request]
  BY DEF IInv, TypeOK, Updating
<1>1. CASE req'[s] = req[s]
  BY <1>0, <1>1, Released DEF Updating
<1>2. CASE LockRow(s)
  <2>1. row' = row /\ ~Locked(s, req[s].id) /\ \A t \in Sessions \ {s} : req'[t] = req[t]
    BY <1>0, <1>2 DEF LockRow
  <2> QED
    BY <1>0, <1>2, <2>1, LockAfter DEF Idle
<1>3. CASE PlaceRow(s)
  <2>1. req[s].pc = "place" /\ req'[s] = [req[s] EXCEPT !.pc = "commit"]
    BY <1>0, <1>3, RequestAfter DEF PlaceRow, Idle
  <2>2. req'[s].id = req[s].id /\ req'[s].new = req[s].new /\ req'[s].op = req[s].op
    BY <1>0, <2>1 DEF Request
  <2> QED
    BY <1>0, <2>1, <2>2 DEF Updating, CommitRow
<1>4. CASE CommitRow(s) \/ FailRequest(s)
  BY <1>0, <1>4, Released
<1>5. CASE \E u \in Users, i \in Ids : \E n, del : BeginInsert(s, u, i, n, del)
  BY <1>0, <1>5, RequestAfter
<1>6. CASE \E i \in Ids : \E n : ReadForPatch(s, i, n)
  BY <1>0, <1>6, RequestAfter
<1>7. CASE \E u \in Users, i \in Ids : SoftDelete(s, u, i)
  BY <1>0, <1>7, RequestAfter
<1> QED
  BY <1>0, <1>1, <1>2, <1>3, <1>4, <1>5, <1>6, <1>7, RequestStep

LEMMA RowsLockedNext ==
    ASSUME IInv, [Next]_vars
    PROVE  RowsLocked'
<1>0. /\ TypeOK /\ UnderWay /\ RowsLocked /\ KeysFree
      /\ req \in [Sessions -> Request] /\ row \in [Ids -> Row]
  BY DEF IInv, TypeOK
<1> SUFFICES ASSUME NEW s \in Sessions, Updating(s)'
             PROVE  /\ row'[req'[s].id].seq # 0 /\ ~row'[req'[s].id].deleted
                    /\ row'[req'[s].id].owner = req'[s].new.owner
                    /\ row'[req'[s].id].seq < req'[s].new.seq
                    /\ \A t \in Sessions \ {s} : Updating(t)' => req'[t].id # req'[s].id
  BY DEF RowsLocked, Live, Exists
<1>1. ASSUME NEW t \in Sessions \ {s}, Updating(t)' PROVE req'[t].id # req'[s].id
  <2>1. CASE Updating(s) /\ req'[s].id = req[s].id /\ Updating(t) /\ req'[t].id = req[t].id
    BY <1>0, <2>1 DEF RowsLocked
  <2>2. ASSUME NEW a \in Sessions, NEW b \in Sessions \ {a}, Updating(b)',
               ~Locked(a, req[a].id), req'[a].id = req[a].id,
               \A v \in Sessions \ {a} : req'[v] = req[v]
        PROVE  req'[b].id # req'[a].id
    BY <2>2 DEF Locked, Updating
  <2> QED
    BY <1>1, <2>1, <2>2, UpdatingAfter
<1>2. CASE Updating(s) /\ req'[s].id = req[s].id /\ req'[s].new = req[s].new /\ ~CommitRow(s)
  <2>1. row'[req[s].id] = row[req[s].id]
    <3>1. ASSUME NEW t \in Sessions, CommitRow(t) PROVE row'[req[s].id] = row[req[s].id]
      <4>1. t # s
        BY <1>2, <3>1
      <4>2. req[s].id # req[t].id /\ row' = [row EXCEPT ![req[t].id] = req[t].new]
        BY <1>0, <1>2, <3>1, <4>1, CommitAfter
      <4> QED
        BY <1>0, <4>2
    <3> QED
      BY <1>0, <3>1, RowStep
  <2> QED
    BY <1>0, <1>1, <1>2, <2>1 DEF RowsLocked, Live, Exists
<1>3. CASE /\ row' = row /\ req'[s].id = req[s].id /\ req'[s].new.owner = req[s].new.owner
           /\ Live(req[s].id) /\ row[req[s].id].owner = req[s].new.owner
           /\ row[req[s].id].seq < req'[s].new.seq
  BY <1>1, <1>3 DEF Live, Exists
<1> QED
  BY <1>2, <1>3, UpdatingAfter

LEMMA InsertedAfter ==
    ASSUME IInv, [Next]_vars, NEW s \in Sessions, Inserted(s)'
    PROVE  /\ req'[s].id = req[s].id /\ req'[s].op = req[s].op /\ ~CommitRow(s)
           /\ req[s].op = "insert"
           /\ \/ Inserted(s)
              \/ /\ ~Exists(req[s].id) /\ row' = row
                 /\ \A t \in Sessions \ {s} :
                        req'[t] = req[t] /\ (Inserted(t) => req[t].id # req[s].id)
<1>0. /\ TypeOK /\ UnderWay /\ NumbersTaken /\ req[s] \in Request
      /\ req'[s].pc = "commit" /\ req'[s].op = "insert"
      /\ req \in [Sessions -> Request]
  BY DEF IInv, TypeOK, Inserted
<1>1. CASE req'[s] = req[s]
  BY <1>0, <1>1, Released DEF Inserted
<1>2. CASE PlaceRow(s)
  <2>1. /\ req[s].pc = "place" /\ row' = row /\ ~Conflict(s) /\ Undecided(s) = {}
        /\ req'[s] = [req[s] EXCEPT !.pc = "commit"]
        /\ \A t \in Sessions \ {s} : req'[t] = req[t]
    BY <1>0, <1>2 DEF PlaceRow, Idle
  <2>2. req'[s].id = req[s].id /\ req'[s].op = req[s].op
    BY <1>0, <2>1 DEF Request
  <2>3. ~Exists(req[s].id)
    BY <1>0, <2>1, <2>2 DEF Conflict
  <2>4. \A t \in Sessions \ {s} : Inserted(t) => req[t].id # req[s].id
    BY <1>0, <2>1, <2>2 DEF Undecided, Inserted
  <2>5. ~CommitRow(s)
    BY <2>1 DEF CommitRow
  <2> QED
    BY <1>0, <2>1, <2>2, <2>3, <2>4, <2>5
<1>3. CASE CommitRow(s) \/ FailRequest(s)
  BY <1>0, <1>3, Released
<1>4. CASE LockRow(s)
  BY <1>0, <1>4, LockAfter DEF Idle
<1>5. CASE \E u \in Users, i \in Ids : \E n, del : BeginInsert(s, u, i, n, del)
  BY <1>0, <1>5, RequestAfter
<1>6. CASE \E i \in Ids : \E n : ReadForPatch(s, i, n)
  BY <1>0, <1>6, RequestAfter
<1>7. CASE \E u \in Users, i \in Ids : SoftDelete(s, u, i)
  BY <1>0, <1>7, RequestAfter
<1> QED
  BY <1>0, <1>1, <1>2, <1>3, <1>4, <1>5, <1>6, <1>7, RequestStep

LEMMA KeysFreeNext ==
    ASSUME IInv, [Next]_vars
    PROVE  KeysFree'
<1>0. /\ TypeOK /\ UnderWay /\ RowsLocked /\ KeysFree
      /\ req \in [Sessions -> Request] /\ row \in [Ids -> Row]
  BY DEF IInv, TypeOK
<1> SUFFICES ASSUME NEW s \in Sessions, Inserted(s)'
             PROVE  /\ row'[req'[s].id].seq = 0
                    /\ \A t \in Sessions \ {s} : Inserted(t)' => req'[t].id # req'[s].id
  BY DEF KeysFree, Exists
<1>1. ASSUME NEW t \in Sessions \ {s}, Inserted(t)' PROVE req'[t].id # req'[s].id
  <2>1. CASE Inserted(s) /\ Inserted(t)
    BY <1>0, <1>1, <2>1, InsertedAfter DEF KeysFree
  <2>2. ASSUME NEW a \in Sessions, NEW b \in Sessions \ {a}, Inserted(b)',
               req'[a].id = req[a].id,
               \A v \in Sessions \ {a} : req'[v] = req[v] /\ (Inserted(v) => req[v].id # req[a].id)
        PROVE  req'[b].id # req'[a].id
    BY <2>2 DEF Inserted
  <2> QED
    BY <1>1, <2>1, <2>2, InsertedAfter
<1>2. row'[req[s].id].seq = 0
  <2>1. CASE Inserted(s)
    <3>1. row[req[s].id].seq = 0
      BY <1>0, <2>1 DEF KeysFree, Exists
    <3>2. ASSUME NEW t \in Sessions, CommitRow(t) PROVE row'[req[s].id] = row[req[s].id]
      <4>1. t # s
        BY <3>2, InsertedAfter
      <4>2. req[s].id # req[t].id /\ row' = [row EXCEPT ![req[t].id] = req[t].new]
        BY <1>0, <2>1, <3>2, <4>1, CommitAfter
      <4> QED
        BY <1>0, <4>2
    <3> QED
      BY <1>0, <3>1, <3>2, RowStep
  <2> QED
    BY <2>1, InsertedAfter DEF Exists
<1> QED
  BY <1>1, <1>2, InsertedAfter

-----------------------------------------------------------------------------
(* Pages.                                                                  *)

\* A finite set has an element that no other comes before, in any order
LEMMA FirstElement ==
    ASSUME NEW S, IsFiniteSet(S), S # {}, NEW R,
           \A x \in S : <<x, x>> \notin R,
           \A x, y, z \in S : <<x, y>> \in R /\ <<y, z>> \in R => <<x, z>> \in R
    PROVE  \E x \in S : \A y \in S : <<y, x>> \notin R
<1> DEFINE Before(x) == {y \in S : <<y, x>> \in R}
           T == {Before(x) : x \in S}
<1>1. IsWellFoundedOn(StrictSubsetOrdering(S), SUBSET S)
  BY FS_StrictSubsetOrderingWellFounded, FS_FiniteSubsetsOfFinite
<1>2. T \subseteq SUBSET S /\ T # {}
  <2>1. PICK x \in S : TRUE
    OBVIOUS
  <2>2. Before(x) \in T
    OBVIOUS
  <2>3. T \subseteq SUBSET S
    <3>1. ASSUME NEW y \in S PROVE Before(y) \subseteq S
      OBVIOUS
    <3> HIDE DEF Before
    <3> QED
      BY <3>1
  <2> QED
    BY <2>2, <2>3
<1>3. PICK m \in T : \A n \in T : <<n, m>> \notin StrictSubsetOrdering(S)
  <2> HIDE DEF T
  <2> QED
    BY <1>1, <1>2, WFMin
<1>4. PICK x \in S : m = Before(x)
  OBVIOUS
<1>5. ASSUME NEW y \in S, <<y, x>> \in R PROVE FALSE
  <2>1. Before(y) \subseteq Before(x)
    BY <1>5
  <2>2. y \in Before(x) /\ y \notin Before(y)
    BY <1>5
  <2>3. Before(y) # Before(x)
    BY <2>2
  <2>4. <<Before(y), Before(x)>> \in StrictSubsetOrdering(S)
    BY <2>1, <2>3 DEF StrictSubsetOrdering
  <2>5. Before(y) \in T
    OBVIOUS
  <2> QED
    BY <1>3, <1>4, <2>4, <2>5
<1> QED
  BY <1>5

LEMMA BeyondOrder ==
    ASSUME NEW p \in Cursor, NEW q \in Cursor, NEW r \in Cursor
    PROVE  /\ ~Beyond(p, p)
           /\ Beyond(p, q) /\ Beyond(q, r) => Beyond(p, r)
           /\ Beyond(p, q) => ~Beyond(q, p)
           /\ ~Beyond(p, q) /\ Beyond(r, q) => Beyond(r, p)
           /\ Beyond(p, q) /\ ~Beyond(r, q) => Beyond(p, r)
  BY DEF Cursor, Beyond

LEMMA RestFinite ==
    ASSUME IInv
    PROVE  /\ Rest \subseteq Ids /\ IsFiniteSet(Rest)
           /\ \A i \in Rest : Key(i) \in Cursor /\ After(i, list.cursor)
           /\ list.cursor \in Cursor
<1>1. Rest \subseteq {i \in Ids : Exists(i)}
  BY DEF Rest, Listed, Live
<1>2. TypeOK /\ IsFiniteSet({i \in Ids : Exists(i)})
  BY DEF IInv
<1>3. \A i \in Rest : Key(i) \in Cursor /\ After(i, list.cursor)
  BY <1>2, KeyType DEF Rest
<1> QED
  BY <1>1, <1>2, <1>3, FS_Subset DEF TypeOK, Pagination

\* Where there are rows left the page has one, and a last one
LEMMA PageHasLast ==
    ASSUME IInv, Rest # {}
    PROVE  LastRow # {}
<1>0. Rest \subseteq Ids /\ IsFiniteSet(Rest) /\ \A i \in Rest : Key(i) \in Cursor
  BY RestFinite
<1> DEFINE P == FirstRows(Limit)
           Ahead == {x \in Rest \X Rest : Beyond(Key(x[2]), Key(x[1]))}
           Behind == {x \in Rest \X Rest : Beyond(Key(x[1]), Key(x[2]))}
<1>1. PICK i \in Rest : \A j \in Rest : <<j, i>> \notin Ahead
  <2>1. \A x \in Rest : <<x, x>> \notin Ahead
    BY <1>0, BeyondOrder
  <2>2. \A x, y, z \in Rest : <<x, y>> \in Ahead /\ <<y, z>> \in Ahead => <<x, z>> \in Ahead
    <3>1. ASSUME NEW x \in Rest, NEW y \in Rest, NEW z \in Rest,
                 Beyond(Key(y), Key(x)), Beyond(Key(z), Key(y))
          PROVE  Beyond(Key(z), Key(x))
      BY <1>0, <3>1, BeyondOrder
    <3> QED
      BY <3>1
  <2> HIDE DEF Ahead
  <2> QED
    BY <1>0, <2>1, <2>2, FirstElement
<1>2. i \in P
  <2>1. {j \in Rest : Beyond(Key(i), Key(j))} = {}
    BY <1>1
  <2>2. Cardinality({j \in Rest : Beyond(Key(i), Key(j))}) = 0
    BY <2>1, FS_EmptySet
  <2> QED
    BY <2>2, CatalogAssumption DEF FirstRows
<1>3. P \subseteq Rest /\ IsFiniteSet(P) /\ P # {}
  BY <1>0, <1>2, FS_Subset DEF FirstRows
<1>4. PICK l \in P : \A j \in P : <<j, l>> \notin Behind
  <2>1. \A x \in P : <<x, x>> \notin Behind
    BY <1>0, <1>3, BeyondOrder
  <2>2. \A x, y, z \in P : <<x, y>> \in Behind /\ <<y, z>> \in Behind => <<x, z>> \in Behind
    <3>1. ASSUME NEW x \in P, NEW y \in P, NEW z \in P,
                 Beyond(Key(x), Key(y)), Beyond(Key(y), Key(z))
          PROVE  Beyond(Key(x), Key(z))
      BY <1>0, <1>3, <3>1, BeyondOrder
    <3> QED
      BY <3>1
  <2> HIDE DEF Behind, P
  <2> QED
    BY <1>3, <2>1, <2>2, FirstElement
<1>5. \A j \in P : ~Beyond(Key(j), Key(l))
  BY <1>3, <1>4
<1> QED
  BY <1>4, <1>5 DEF LastRow

\* What is not on the page comes after everything that is
LEMMA PageFirst ==
    ASSUME IInv, NEW i \in Rest, i \notin FirstRows(Limit), NEW l \in FirstRows(Limit)
    PROVE  Beyond(Key(i), Key(l))
<1> DEFINE Before(k) == {j \in Rest : Beyond(Key(k), Key(j))}
<1>0. /\ Rest \subseteq Ids /\ IsFiniteSet(Rest) /\ \A j \in Rest : Key(j) \in Cursor
      /\ l \in Rest /\ Cardinality(Before(l)) < Limit
  BY RestFinite DEF FirstRows
<1>1. SUFFICES ASSUME ~Beyond(Key(i), Key(l)) PROVE FALSE
  OBVIOUS
<1>2. Before(i) \subseteq Before(l)
  <2>1. ASSUME NEW j \in Rest, Beyond(Key(i), Key(j)) PROVE Beyond(Key(l), Key(j))
    BY <1>0, <1>1, <2>1, BeyondOrder
  <2> QED
    BY <2>1
<1>3. IsFiniteSet(Before(l)) /\ IsFiniteSet(Before(i))
  BY <1>0, FS_Subset
<1>4. Cardinality(Before(i)) <= Cardinality(Before(l))
  BY <1>2, <1>3, FS_Subset
<1>5. Cardinality(Before(i)) \in Nat /\ Cardinality(Before(l)) \in Nat
  BY <1>3, FS_CardinalityType
<1> QED
  BY <1>0, <1>4, <1>5, CatalogAssumption DEF FirstRows

\* The cursor after a page: the position of its last row, beyond the old one
\* and not before any row of the page
LEMMA CursorAfter ==
    ASSUME IInv, TakePage, Rest # {}
    PROVE  \E l \in FirstRows(Limit) :
              /\ list'.cursor = Key(l) /\ Key(l) \in Cursor
              /\ Beyond(Key(l), list.cursor)
              /\ \A j \in FirstRows(Limit) : ~Beyond(Key(j), Key(l))
<1>1. LastRow # {}
  BY PageHasLast
<1> DEFINE K == {Key(i) : i \in LastRow}
<1>2. list'.cursor = CHOOSE c \in K : TRUE
  BY <1>1 DEF TakePage
<1>3. PICK l \in LastRow : list'.cursor = Key(l)
  BY <1>1, <1>2
<1>4. l \in FirstRows(Limit) /\ \A j \in FirstRows(Limit) : ~Beyond(Key(j), Key(l))
  BY DEF LastRow
<1>5. l \in Rest
  BY <1>4 DEF FirstRows
<1> QED
  BY <1>3, <1>4, <1>5, RestFinite DEF After

\* Only the reader's own steps move its pagination
LEMMA ListStep ==
    ASSUME [Next]_vars
    PROVE  /\ table' = table
           /\ \/ list' = list
              \/ TakePage /\ UNCHANGED <<row, nextSeq, req>>
              \/ list' = FirstPage
<1>1. ListPage => TakePage /\ UNCHANGED <<table, row, nextSeq, req>>
  BY DEF ListPage, ListProjects, ListTags, ListCategories, ListActivities, Timeline
<1> QED
  BY <1>1, NextCases DEF vars, BeginInsert, ReadForPatch, SoftDelete, LockRow, PlaceRow,
     CommitRow, FailRequest, Reopen

LEMMA EmptyPage ==
    ASSUME TakePage, Rest = {}
    PROVE  FirstRows(Limit) = {} /\ list'.cursor = list.cursor
  BY DEF FirstRows, LastRow, TakePage

LEMMA PagesNext ==
    ASSUME IInv, [Next]_vars
    PROVE  PagesPassed' /\ list'.again = {}
<1>0. /\ TypeOK /\ PagesPassed /\ list.again = {}
      /\ list.cursor \in Cursor /\ list.got \in [Ids -> Nat] /\ row \in [Ids -> Row]
  BY DEF IInv, TypeOK, Pagination
<1>1. CASE list' = list /\ table' = table
  BY <1>0, <1>1 DEF PagesPassed, Key
<1>2. CASE list' = FirstPage
  BY <1>2 DEF PagesPassed, FirstPage
<1>3. CASE TakePage /\ UNCHANGED <<table, row>>
  <2> DEFINE place(i) == IF table = "activities" THEN Key(i) ELSE <<list.got[i], 0>>
             page == FirstRows(Limit)
  <2>1. \A i \in Ids : place(i) \in Cursor /\ Key(i) \in Cursor
    BY <1>0, KeyType DEF Cursor
  <2>2. /\ \A i \in Ids : list'.got[i] = IF i \in page THEN row[i].seq ELSE list.got[i]
        /\ list'.again = list.again \cup {i \in page : list.got[i] = row[i].seq}
    BY <1>3 DEF TakePage
  <2>3. \A i \in page : /\ i \in Ids /\ Beyond(Key(i), list.cursor) /\ row[i].seq # 0
                        /\ i \in Rest
    BY DEF FirstRows, Rest, After, Listed, Live, Exists
  <2>4. \A i \in page : list.got[i] # row[i].seq
    <3>1. ASSUME NEW i \in page, list.got[i] = row[i].seq PROVE FALSE
      <4>1. place(i) = Key(i) /\ list.got[i] # 0
        BY <2>3, <3>1 DEF Key
      <4> QED
        BY <1>0, <2>3, <4>1 DEF PagesPassed
    <3> QED
      BY <3>1
  <2>5. ASSUME NEW i \in Ids, list'.got[i] # 0
        PROVE  ~Beyond(IF table = "activities" THEN Key(i) ELSE <<list'.got[i], 0>>, list'.cursor)
    <3>1. CASE i \in page
      <4>1. (IF table = "activities" THEN Key(i) ELSE <<list'.got[i], 0>>) = Key(i)
        BY <2>2, <3>1 DEF Key
      <4> QED
        BY <1>3, <2>3, <3>1, <4>1, CursorAfter
    <3>2. CASE i \notin page
      <4>1. list.got[i] # 0 /\ list'.got[i] = list.got[i] /\ ~Beyond(place(i), list.cursor)
        BY <1>0, <2>2, <2>5, <3>2 DEF PagesPassed
      <4>2. CASE Rest = {}
        BY <1>3, <4>1, <4>2, EmptyPage
      <4>3. CASE Rest # {}
        <5>1. list'.cursor \in Cursor /\ Beyond(list'.cursor, list.cursor)
          BY <1>3, <4>3, CursorAfter
        <5>2. ~Beyond(place(i), list'.cursor)
          BY <1>0, <2>1, <4>1, <5>1, BeyondOrder
        <5> QED
          BY <4>1, <5>2
      <4> QED
        BY <4>2, <4>3
    <3> QED
      BY <3>1, <3>2
  <2>6. \A i : Key(i)' = Key(i)
    BY <1>3 DEF Key
  <2>7. PagesPassed'
    BY <1>3, <2>5, <2>6 DEF PagesPassed
  <2> QED
    BY <1>0, <2>2, <2>4, <2>7
<1> QED
  BY <1>1, <1>2, <1>3, ListStep

LEMMA RowsAheadNext ==
    ASSUME IInv, [Next]_vars
    PROVE  RowsAhead'
<1>0. /\ TypeOK /\ UnderWay /\ RowsLocked /\ KeysFree /\ RowsAhead /\ TypeOK'
      /\ list.cursor \in Cursor /\ list.start \subseteq Ids
      /\ row \in [Ids -> Row] /\ row' \in [Ids -> Row]
  BY TypeNext DEF IInv, TypeOK, Pagination
<1>1. CASE list' = FirstPage
  BY <1>1 DEF RowsAhead, FirstPage
<1>2. CASE list' = list /\ table' = table
  <2>1. ASSUME NEW i \in list.start
        PROVE  Exists(i)' /\ (Listed(i)' /\ list.got[i] = 0 => list.more /\ After(i, list.cursor)')
    <3>1. /\ i \in Ids /\ Exists(i) /\ Exists(i)' /\ row'[i].owner = row[i].owner
          /\ row'[i].seq >= row[i].seq /\ row[i].seq \in Nat /\ row'[i].seq \in Nat
          /\ row[i].deleted => row'[i] = row[i]
      BY <1>0, RowAfter DEF RowsAhead, Row
    <3>2. Listed(i)' => Listed(i)
      BY <1>2, <3>1 DEF Listed, Live, Exists
    <3>3. After(i, list.cursor) => After(i, list.cursor)'
      BY <1>0, <1>2, <3>1 DEF After, Beyond, Key, Cursor
    <3> QED
      BY <1>0, <3>1, <3>2, <3>3 DEF RowsAhead
  <2> QED
    BY <1>2, <2>1 DEF RowsAhead
<1>3. CASE TakePage /\ UNCHANGED <<table, row>>
  <2> DEFINE page == FirstRows(Limit)
  <2>1. \A i : (Listed(i)' <=> Listed(i)) /\ (Exists(i)' <=> Exists(i)) /\ Key(i)' = Key(i)
    BY <1>3 DEF Listed, Live, Exists, Key
  <2>2. list'.start = IF list.cursor = <<0, 0>> THEN {i \in Ids : Listed(i)} ELSE list.start
    BY <1>3 DEF TakePage
  <2>6. page # Rest => list'.more
    BY <1>3, Zenon DEF TakePage
  <2>3. ASSUME NEW i \in list'.start PROVE i \in Ids /\ Exists(i)
    BY <1>0, <2>2, <2>3 DEF Listed, Live, RowsAhead
  <2>4. ASSUME NEW i \in list'.start, Listed(i), list'.got[i] = 0
        PROVE  i \in Rest /\ i \notin page
    <3>1. i \in Ids /\ row[i].seq # 0 /\ row[i].seq \in Nat
      BY <1>0, <2>3, <2>4 DEF Exists, Row
    <3>2. i \notin page /\ list.got[i] = 0
      BY <1>3, <2>4, <3>1 DEF TakePage
    <3>3. CASE list.cursor = <<0, 0>>
      <4>1. Key(i)[1] > 0
        BY <3>1, CatalogAssumption DEF Key
      <4> QED
        BY <2>4, <3>1, <3>2, <3>3, <4>1 DEF Rest, After, Beyond
    <3>4. CASE list.cursor # <<0, 0>>
      BY <1>0, <2>2, <2>4, <3>1, <3>2, <3>4 DEF Rest, RowsAhead
    <3> QED
      BY <3>3, <3>4
  <2>5. ASSUME NEW i \in list'.start, Listed(i), list'.got[i] = 0
        PROVE  list'.more /\ Beyond(Key(i), list'.cursor)
    <3>1. i \in Rest /\ i \notin page
      BY <2>4, <2>5
    <3>2. PICK l \in page : list'.cursor = Key(l)
      BY <1>3, <3>1, CursorAfter
    <3>3. page # Rest
      BY <3>1
    <3> QED
      BY <2>6, <3>1, <3>2, <3>3, PageFirst
  <2> QED
    BY <2>1, <2>3, <2>5 DEF RowsAhead, After
<1> QED
  BY <1>1, <1>2, <1>3, ListStep

-----------------------------------------------------------------------------
(* The invariant holds initially and every step keeps it.                  *)
LEMMA InvInit == Init => IInv
<1> SUFFICES ASSUME Init PROVE IInv
  OBVIOUS
<1>1. \A i \in Ids : row[i].seq = IF table = "categories" /\ i = SystemId THEN 1 ELSE 0
  BY DEF Init, Absent
<1>2. IsFiniteSet({i \in Ids : Exists(i)})
  <2>1. {i \in Ids : Exists(i)} \subseteq {SystemId}
    BY <1>1 DEF Exists
  <2> QED
    BY <2>1, FS_Singleton, FS_Subset
<1>3. NumbersTaken
  BY <1>1 DEF NumbersTaken, Init, Idle, Absent
<1>4. UnderWay /\ RowsLocked /\ KeysFree
  BY DEF Init, UnderWay, RowsLocked, KeysFree, Updating, Inserted, Idle
<1>5. PagesPassed /\ list.again = {} /\ RowsAhead
  BY DEF Init, PagesPassed, RowsAhead, FirstPage
<1> QED
  BY <1>2, <1>3, <1>4, <1>5, TypeInit DEF IInv

LEMMA InvNext == IInv /\ [Next]_vars => IInv'
<1> SUFFICES ASSUME IInv, [Next]_vars PROVE IInv'
  OBVIOUS
<1>1. TypeOK' /\ IsFiniteSet({i \in Ids : Exists(i)})'
  BY TypeNext, FiniteNext DEF IInv
<1>2. NumbersTaken' /\ UnderWay' /\ RowsLocked' /\ KeysFree'
  BY NumbersNext, UnderWayNext, RowsLockedNext, KeysFreeNext
<1>3. PagesPassed' /\ list'.again = {} /\ RowsAhead'
  BY PagesNext, RowsAheadNext
<1> QED
  BY <1>1, <1>2, <1>3 DEF IInv

(* Locks, keys and positions are consistent in every reachable state.      *)
THEOREM Invariant == Spec => []IInv
  BY InvInit, InvNext, PTL DEF Spec

(* Every state of every behaviour is well-formed.                          *)
THEOREM TypeCorrect == Spec => []TypeOK
<1>1. IInv => TypeOK
  BY DEF IInv
<1> QED
  BY <1>1, Invariant, PTL

(* No list skips a row that is there from its first page to its last,      *)
(* whatever is created, moved and deleted in between.                      *)
THEOREM ListsAreComplete == Spec => []ListComplete
<1>1. IInv => ListComplete
  BY DEF IInv, ListComplete, RowsAhead
<1> QED
  BY <1>1, Invariant, PTL

(* No list gives a row twice in the same version, or an event twice.       *)
THEOREM ListsDoNotRepeat == Spec => []ListNoRepeat
<1>1. IInv => ListNoRepeat
  BY DEF IInv, ListNoRepeat, PagesPassed
<1> QED
  BY <1>1, Invariant, PTL

\* What RowAfter says of each row, as facts about steps
LEMMA RowsNext ==
    ASSUME IInv, [Next]_vars, NEW i \in Ids
    PROVE  /\ row'[i].seq >= row[i].seq
           /\ Exists(i) => row'[i].owner = row[i].owner
           /\ Exists(i) /\ (row[i].deleted \/ row[i].owner = System) => row'[i] = row[i]
  BY RowAfter DEF IInv

(* A deleted row stays deleted, and of the synced tables stays as it is,   *)
(* whatever was read before the deletion.                                  *)
THEOREM DeletionsAreFinal == Spec => DeletedStaysDeleted
<1>1. IInv /\ [Next]_vars =>
        [\A i \in Ids : Exists(i) /\ row[i].deleted =>
            /\ row'[i].deleted
            /\ table # "activities" => row'[i] = row[i]]_vars
  BY RowsNext
<1> QED
  BY <1>1, Invariant, PTL DEF Spec, DeletedStaysDeleted

(* No request takes a row from the account that has it, or changes a       *)
(* system default.                                                         *)
THEOREM OwnersAreKept == Spec => RowsKeepOwner
<1>1. IInv /\ [Next]_vars =>
        [\A i \in Ids : Exists(i) =>
            /\ row'[i].owner = row[i].owner
            /\ row[i].owner = System => row'[i] = row[i]]_vars
  BY RowsNext
<1> QED
  BY <1>1, Invariant, PTL DEF Spec, RowsKeepOwner

(* A row's version numbers are committed in increasing order.              *)
THEOREM VersionsAreOrdered == Spec => VersionsGrow
<1>1. IInv /\ [Next]_vars => [\A i \in Ids : row'[i].seq >= row[i].seq]_vars
  BY RowsNext
<1> QED
  BY <1>1, Invariant, PTL DEF Spec, VersionsGrow

=============================================================================
