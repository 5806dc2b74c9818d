------------------------------ MODULE Catalog ------------------------------
(***************************************************************************)
(* The CRUD groups /v1/projects, /v1/tags and /v1/categories and the       *)
(* keyset lists over them and over /v1/activities (which the timeline      *)
(* report shares).                                                         *)
(*                                                                         *)
(* Each group touches one table and nothing else, so a behaviour is about  *)
(* one table, chosen in the initial state.  A write is one statement: it   *)
(* locks its row, takes a number from server_seq_global (migration 000022),*)
(* passes the unique indexes and commits on its own.  PATCH reads the row  *)
(* in an earlier statement.  Meanwhile a reader goes through the list page *)
(* by page; every page is one statement, so it sees one committed state.   *)
(*                                                                         *)
(* Ids are numbers because the activities list breaks ties by event_id.    *)
(* The columns kept are those a guard looks at: the name only of a tag.    *)
(***************************************************************************)
EXTENDS Naturals, FiniteSets

CONSTANTS
    Users,      \* accounts
    System,     \* the NULL user_id of a system-default category
    Reader,     \* the account that goes through the list
    Ids,        \* primary keys a client or the server may choose
    SystemId,   \* the id of a system-default category
    Names,      \* names a tag may get
    NoName,     \* the name of a row that is not a tag
    Sessions,   \* request handlers, each with a database connection
    Started,    \* started_at of the activity event with each id
    Limit,      \* the page size of a list
    MaxSeq      \* bound: numbers taken from server_seq_global

ASSUME CatalogAssumption ==
    /\ System \notin Users /\ Reader \in Users
    /\ NoName \notin Names
    /\ Ids \subseteq Nat \ {0} /\ SystemId \in Ids
    /\ Started \in [Ids -> Nat \ {0}]
    /\ Limit \in Nat \ {0} /\ MaxSeq \in Nat

VARIABLES
    table,      \* the table this behaviour is about
    row,        \* its committed rows, by id
    nextSeq,    \* next value of server_seq_global
    req,        \* the write each session is serving
    list        \* the reader's pagination

vars == <<table, row, nextSeq, req, list>>

Tables == {"projects", "tags", "categories", "activities"}

-----------------------------------------------------------------------------
Row == [owner : Users \cup {System}, name : Names \cup {NoName},
        deleted : BOOLEAN, seq : Nat]
Absent == [owner |-> System, name |-> NoName, deleted |-> FALSE, seq |-> 0]

Exists(i) == row[i].seq # 0
Live(i) == Exists(i) /\ ~row[i].deleted

Request == [pc : {"idle", "lock", "place", "commit"},
            op : {"none", "insert", "patch", "delete"},
            id : Ids \cup {0},
            new : Row]              \* the version it writes
Idle == [pc |-> "idle", op |-> "none", id |-> 0, new |-> Absent]

\* A position in a list; the order is lexicographic
Cursor == Nat \X Nat

Beyond(p, q) == p[1] > q[1] \/ (p[1] = q[1] /\ p[2] > q[2])

Pagination == [more : BOOLEAN, cursor : Cursor,
               start : SUBSET Ids,      \* history: live rows at its first page
               got : [Ids -> Nat],      \* history: version of each row received
               again : SUBSET Ids]      \* history: rows received twice unchanged
FirstPage == [more |-> FALSE, cursor |-> <<0, 0>>, start |-> {},
              got |-> [i \in Ids |-> 0], again |-> {}]

\* A system-default category (user_id NULL) is put into the table by an
\* operator: no endpoint and no migration creates one
Init ==
    /\ table \in Tables
    /\ row = [i \in Ids |-> IF table = "categories" /\ i = SystemId
                            THEN [Absent EXCEPT !.seq = 1] ELSE Absent]
    /\ nextSeq = 2
    /\ req = [s \in Sessions |-> Idle]
    /\ list = FirstPage

-----------------------------------------------------------------------------
(* Which rows a statement may touch.                                       *)

\* Faulty variant: the WHERE of a read (GetCategoryForUser)
OwnOrSystem(u, i) == Live(i) /\ row[i].owner \in {u, System}

\* Faulty variant: UPDATE without AND deleted_at IS NULL
ExistingRow(u, i) == Exists(i) /\ row[i].owner = u

\* WHERE id = $1 AND user_id = $2 AND deleted_at IS NULL (of an activity
\* event deleted = false): a row the caller may change, evaluated on the row's
\* latest version.  A system default is nobody's.
Own(u, i) == Live(i) /\ row[i].owner = u

\* Faulty variant: a version is numbered before its row is locked
LockedLate(s, i) ==
    \E t \in Sessions \ {s} : /\ req[t].pc = "commit"
                              /\ req[t].op # "insert" /\ req[t].id = i

\* Another statement holds the row's lock, from before its version gets a number
\* until the commit
Locked(s, i) ==
    \E t \in Sessions \ {s} : /\ req[t].pc \in {"place", "commit"}
                              /\ req[t].op # "insert" /\ req[t].id = i

-----------------------------------------------------------------------------
(* The statements.                                                         *)

\* INSERT: the BEFORE trigger takes the row's server_seq, then the row is
\* placed.
BeginInsert(s, u, i, n, del) ==
    /\ req[s].pc = "idle"
    /\ nextSeq <= MaxSeq
    /\ req' = [req EXCEPT ![s] =
                 [pc |-> "place", op |-> "insert", id |-> i,
                  new |-> [owner |-> u, name |-> n, deleted |-> del,
                           seq |-> nextSeq]]]
    /\ nextSeq' = nextSeq + 1
    /\ UNCHANGED <<table, row, list>>

\* Faulty variant: a field the request does not name is written as NULL
Unmerged(s) ==
    IF req[s].op = "delete" THEN [row[req[s].id] EXCEPT !.deleted = TRUE]
                            ELSE [row[req[s].id] EXCEPT !.name = "NULL"]

\* The columns an UPDATE sets, the others as in the row's latest version
Updated(s) ==
    IF req[s].op = "delete" THEN [row[req[s].id] EXCEPT !.deleted = TRUE]
                            ELSE [row[req[s].id] EXCEPT !.name = req[s].new.name]

\* UPDATE: waits for the row's lock, looks at its WHERE again, and takes a
\* server_seq for the new version; no row is answered with ErrNotFound.
LockRow(s) ==
    /\ req[s].pc = "lock"
    /\ ~Locked(s, req[s].id)
    /\ IF Own(req[s].new.owner, req[s].id)
       THEN /\ nextSeq <= MaxSeq
            /\ req' = [req EXCEPT ![s].pc = "place",
                                  ![s].new = [Updated(s) EXCEPT !.seq = nextSeq]]
            /\ nextSeq' = nextSeq + 1
       ELSE /\ req' = [req EXCEPT ![s] = Idle]
            /\ UNCHANGED nextSeq
    /\ UNCHANGED <<table, row, list>>

\* UNIQUE (user_id, name) of tags; deleted rows keep their names
SameKey(a, b) == table = "tags" /\ a.owner = b.owner /\ a.name = b.name

\* Sessions whose outcome decides whether s may place its version: one that
\* has placed the same primary key or name, or is replacing the row that has
\* the name.
Undecided(s) ==
    {t \in Sessions \ {s} :
        \/ /\ req[t].pc = "commit"
           /\ \/ /\ req[t].op = "insert" /\ req[s].op = "insert"
                 /\ req[t].id = req[s].id
              \/ SameKey(req[t].new, req[s].new)
        \/ /\ req[t].pc \in {"place", "commit"} /\ req[t].op # "insert"
           /\ SameKey(row[req[t].id], req[s].new)}

\* A committed row has the primary key or the name
Conflict(s) ==
    \/ req[s].op = "insert" /\ Exists(req[s].id)
    \/ \E i \in Ids \ {req[s].id} : Exists(i) /\ SameKey(row[i], req[s].new)

\* The unique indexes: 409 CONFLICT (nothing for an event that is known), or
\* the version waits for its commit only.
PlaceRow(s) ==
    /\ req[s].pc = "place"
    /\ Undecided(s) = {}
    /\ req' = [req EXCEPT ![s] = IF Conflict(s) THEN Idle
                                 ELSE [req[s] EXCEPT !.pc = "commit"]]
    /\ UNCHANGED <<table, row, nextSeq, list>>

CommitRow(s) ==
    /\ req[s].pc = "commit"
    /\ row' = [row EXCEPT ![req[s].id] = req[s].new]
    /\ req' = [req EXCEPT ![s] = Idle]
    /\ UNCHANGED <<table, nextSeq, list>>

\* A failed statement or a cancelled request
FailRequest(s) ==
    /\ req[s].pc # "idle"
    /\ req' = [req EXCEPT ![s] = Idle]
    /\ UNCHANGED <<table, row, nextSeq, list>>

\* Two renames that swap the names of two tags wait for each other, and the
\* deadlock detector ends one of them
DeadlockAbort(s) ==
    /\ req[s].pc = "place"
    /\ \E t \in Undecided(s) : req[t].pc = "place" /\ s \in Undecided(t)
    /\ FailRequest(s)

-----------------------------------------------------------------------------
(* The operations of the groups.                                           *)

\* Projects and tags come with an id their client made, or get a random one
CreateProject(s, u, i) == table = "projects" /\ BeginInsert(s, u, i, NoName, FALSE)
CreateTag(s, u, i, n) == table = "tags" /\ BeginInsert(s, u, i, n, FALSE)

\* gen_random_uuid(): an id nobody has
CreateCategory(s, u, i) ==
    /\ table = "categories"
    /\ ~Exists(i) /\ \A t \in Sessions : req[t].id # i
    /\ BeginInsert(s, u, i, NoName, FALSE)

\* A pushed event, or the tombstone of one that is unknown.  The id stands for
\* the key (user_id, event_id, started_at), so other accounts have other ids.
InsertEvent(s, u, i, del) ==
    table = "activities" /\ u = Reader /\ BeginInsert(s, u, i, NoName, del)

\* The first statement of PATCH: Get finds the row, and the fields the
\* request does not name are copied from it
ReadForPatch(s, i, n) ==
    /\ req[s].pc = "idle"
    /\ req' = [req EXCEPT ![s] =
                 [pc |-> "lock", op |-> "patch", id |-> i,
                  new |-> [row[i] EXCEPT !.name = n, !.seq = 0]]]
    /\ UNCHANGED <<table, row, nextSeq, list>>

UpdateProject(s, u, i) ==
    table = "projects" /\ Own(u, i) /\ ReadForPatch(s, i, NoName)
UpdateTag(s, u, i, n) ==
    table = "tags" /\ Own(u, i) /\ ReadForPatch(s, i, n)
UpdateCategory(s, u, i) ==
    table = "categories" /\ Own(u, i) /\ ReadForPatch(s, i, NoName)

\* DELETE is one statement; a row it does not find is ErrNotFound
SoftDelete(s, u, i) ==
    /\ req[s].pc = "idle"
    /\ Own(u, i)
    /\ req' = [req EXCEPT ![s] =
                 [pc |-> "lock", op |-> "delete", id |-> i,
                  new |-> [Absent EXCEPT !.owner = u]]]
    /\ UNCHANGED <<table, row, nextSeq, list>>

DeleteProject(s, u, i) == table = "projects" /\ SoftDelete(s, u, i)
DeleteTag(s, u, i) == table = "tags" /\ SoftDelete(s, u, i)
DeleteCategory(s, u, i) == table = "categories" /\ SoftDelete(s, u, i)
TombstoneEvent(s, u, i) == table = "activities" /\ SoftDelete(s, u, i)

-----------------------------------------------------------------------------
(* The lists.                                                              *)

\* ORDER BY server_seq, of activities started_at, event_id
Key(i) == IF table = "activities" THEN <<Started[i], i>> ELSE <<row[i].seq, 0>>

\* WHERE user_id = $1 AND deleted_at IS NULL; a category may also be a system
\* default
Listed(i) ==
    /\ Live(i)
    /\ \/ row[i].owner = Reader
       \/ table = "categories" /\ row[i].owner = System

\* Faulty variant: >= in place of >
AtOrAfter(i, p) == ~Beyond(p, Key(i))

\* The keyset condition, a comparison of rows (pairs)
After(i, p) == Beyond(Key(i), p)

Rest == {i \in Ids : Listed(i) /\ After(i, list.cursor)}

\* The first n of the rest, in list order
FirstRows(n) == {i \in Rest : Cardinality({j \in Rest : Beyond(Key(i), Key(j))}) < n}

\* Faulty variant: next_cursor is the position of the row fetched to see
\* whether there are more
LastFetched == {i \in FirstRows(Limit + 1) : \A j \in FirstRows(Limit + 1) : ~Beyond(Key(j), Key(i))}

\* The last row of the page, if any
LastRow == {i \in FirstRows(Limit) : \A j \in FirstRows(Limit) : ~Beyond(Key(j), Key(i))}

\* One request of the list: limit + 1 rows are fetched, limit are answered.
\* A new pagination starts when the last one has ended.
TakePage ==
    LET page == FirstRows(Limit)
    IN  list' = [more |-> page # Rest,
                 cursor |-> IF LastRow = {} THEN list.cursor
                            ELSE CHOOSE c \in {Key(i) : i \in LastRow} : TRUE,
                 start |-> IF list.cursor = <<0, 0>> THEN {i \in Ids : Listed(i)}
                           ELSE list.start,
                 got |-> [i \in Ids |-> IF i \in page THEN row[i].seq ELSE list.got[i]],
                 again |-> list.again \cup {i \in page : list.got[i] = row[i].seq}]

ListProjects == table = "projects" /\ TakePage
ListTags == table = "tags" /\ TakePage
ListCategories == table = "categories" /\ TakePage
ListActivities == table = "activities" /\ TakePage
\* The timeline report lists the same rows with a cursor of its own
Timeline == table = "activities" /\ TakePage

ListPage ==
    /\ list = FirstPage \/ list.more
    /\ ListProjects \/ ListTags \/ ListCategories \/ ListActivities \/ Timeline
    /\ UNCHANGED <<table, row, nextSeq, req>>

\* The reader starts from the beginning again
Reopen ==
    /\ list # FirstPage
    /\ list' = FirstPage
    /\ UNCHANGED <<table, row, nextSeq, req>>

-----------------------------------------------------------------------------
Create(s, u, i) ==
    \/ CreateProject(s, u, i) \/ CreateCategory(s, u, i)
    \/ \E n \in Names : CreateTag(s, u, i, n)
    \/ \E del \in BOOLEAN : InsertEvent(s, u, i, del)

Update(s, u, i) ==
    \/ UpdateProject(s, u, i) \/ UpdateCategory(s, u, i)
    \/ \E n \in Names : UpdateTag(s, u, i, n)

Delete(s, u, i) ==
    \/ DeleteProject(s, u, i) \/ DeleteTag(s, u, i) \/ DeleteCategory(s, u, i)
    \/ TombstoneEvent(s, u, i)

Step(s) == LockRow(s) \/ PlaceRow(s) \/ CommitRow(s) \/ FailRequest(s)

Next ==
    \/ \E s \in Sessions, u \in Users, i \in Ids :
          Create(s, u, i) \/ Update(s, u, i) \/ Delete(s, u, i)
    \/ \E s \in Sessions : Step(s) \/ DeadlockAbort(s)
    \/ ListPage \/ Reopen

Spec == Init /\ [][Next]_vars

-----------------------------------------------------------------------------
(* Properties.                                                             *)

TypeOK ==
    /\ table \in Tables
    /\ row \in [Ids -> Row]
    /\ nextSeq \in Nat
    /\ req \in [Sessions -> Request]
    /\ list \in Pagination

\* A pagination misses nothing: a row that is listed when it starts and is
\* still there when it ends was on one of its pages, although updates move
\* rows to the end of the list between two pages, rows behind and ahead of
\* the cursor are deleted, and sequence numbers become visible out of order.
ListComplete ==
    list # FirstPage /\ ~list.more =>
        \A i \in list.start : Listed(i) => list.got[i] # 0

\* A pagination repeats a row only in a newer version than the one it gave
\* before; an activity event, which is never moved, it gives once.
ListNoRepeat ==
    /\ list.again = {}
    /\ table = "activities" =>
          \A i \in Ids : list.got[i] # 0 => ~Beyond(Key(i), list.cursor)

\* A deletion that has been acknowledged is final: no PATCH that read the row
\* before it, and no second DELETE, changes the row again, so a client that
\* has applied the tombstone never sees the row return.
DeletedStaysDeleted ==
    [][\A i \in Ids : Exists(i) /\ row[i].deleted =>
          /\ row'[i].deleted
          /\ table # "activities" => row'[i] = row[i]]_vars

\* Ids come from clients and collide: whatever the requests, a row stays with
\* the account that created it, and a system default is never changed.
RowsKeepOwner ==
    [][\A i \in Ids : Exists(i) =>
          /\ row'[i].owner = row[i].owner
          /\ row[i].owner = System => row'[i] = row[i]]_vars

\* Versions of a row are numbered in the order they are committed in, which
\* both the lists and the change feed rely on.
VersionsGrow == [][\A i \in Ids : row'[i].seq >= row[i].seq]_vars

-----------------------------------------------------------------------------
(* The inductive invariant: what makes them survive every step.            *)

\* Numbers in use were handed out before
NumbersTaken ==
    /\ \A i \in Ids : row[i].seq < nextSeq
    /\ \A s \in Sessions : req[s].new.seq < nextSeq

\* A statement that is under way is about a row, for an account, and past its
\* lock it has a number
UnderWay ==
    \A s \in Sessions : req[s].pc # "idle" =>
        /\ req[s].id \in Ids /\ req[s].new.owner \in Users
        /\ req[s].pc # "lock" => req[s].new.seq # 0

\* s holds the lock of the row it updates; s has inserted a row
Updating(s) == req[s].pc \in {"place", "commit"} /\ req[s].op # "insert"
Inserted(s) == req[s].pc = "commit" /\ req[s].op = "insert"

\* A locked row is live, the caller's, older than the new version and nobody
\* else's to update
RowsLocked ==
    \A s \in Sessions : Updating(s) =>
        /\ Live(req[s].id) /\ row[req[s].id].owner = req[s].new.owner
        /\ row[req[s].id].seq < req[s].new.seq
        /\ \A t \in Sessions \ {s} : Updating(t) => req[t].id # req[s].id

\* The primary key of an inserted row is free
KeysFree ==
    \A s \in Sessions : Inserted(s) =>
        /\ ~Exists(req[s].id)
        /\ \A t \in Sessions \ {s} : Inserted(t) => req[t].id # req[s].id

\* The cursor has passed every version the reader got
PagesPassed ==
    \A i \in Ids : list.got[i] # 0 =>
        ~Beyond(IF table = "activities" THEN Key(i) ELSE <<list.got[i], 0>>, list.cursor)

\* A row that was there at the start and has not been read is still ahead
RowsAhead ==
    \A i \in list.start :
        /\ Exists(i)
        /\ Listed(i) /\ list.got[i] = 0 => list.more /\ After(i, list.cursor)

IInv ==
    /\ TypeOK
    /\ IsFiniteSet({i \in Ids : Exists(i)})
    /\ NumbersTaken /\ UnderWay
    /\ RowsLocked /\ KeysFree
    /\ PagesPassed /\ list.again = {}
    /\ RowsAhead
=============================================================================
