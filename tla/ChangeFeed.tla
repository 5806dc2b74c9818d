----------------------------- MODULE ChangeFeed -----------------------------
(***************************************************************************)
(* The change feed behind GET /v1/sync/changes and its retention job.      *)
(*                                                                         *)
(* A write to a syncable table takes a number from the global sequence     *)
(* (migration 000022), appends a row to sync_changelog in the same         *)
(* transaction (migration 000026) and commits or aborts.  A pull reads, in *)
(* one REPEATABLE READ snapshot, the prune horizon and one page of the     *)
(* changelog in (xid8, server_seq) order.  The Pruner deletes old rows and *)
(* advances the horizon in one transaction.  Clients keep a cursor and a   *)
(* replica; the network may lose a response, a client may crash between    *)
(* storing a page and storing its cursor.                                  *)
(*                                                                         *)
(* A row's content is identified by its server_seq: which columns it has,  *)
(* and whether it is an upsert or a tombstone, is a function of that       *)
(* version, so a table holds the current version of each entity.           *)
(***************************************************************************)
EXTENDS Naturals, FiniteSets, Xid8

CONSTANTS
    Users,      \* accounts
    System,     \* the NULL user_id of a system-default category
    Entities,   \* rows of the syncable tables
    NoEntity,   \* what an idle writer writes
    Owner,      \* the user_id of each entity
    Writers,    \* database sessions that write syncable tables
    Clients,    \* devices that pull
    UserOf,     \* the account a device is signed in to
    Pruners,    \* processes that run Pruner.PruneOnce
    PageLimit,  \* the page size of a pull (limit)
    BatchSize,  \* Pruner.BatchSize
    MaxAge,     \* Pruner.MaxAge, in clock ticks
    XidModulus, \* 2^32: how much of a transaction id a row's xmin keeps
    MaxXid,     \* bound: transaction ids assigned
    MaxSeq,     \* bound: numbers taken from server_seq_global
    MaxClock    \* bound: clock ticks

ASSUME OwnersAssumption ==
    /\ System \notin Users
    /\ NoEntity \notin Entities
    /\ Owner \in [Entities -> Users \cup {System}]
    /\ UserOf \in [Clients -> Users]

ASSUME LimitsAssumption ==
    /\ PageLimit \in Nat \ {0}
    /\ BatchSize \in Nat \ {0}
    /\ MaxAge \in Nat \ {0}
    /\ XidModulus \in Nat \ {0}
    /\ MaxXid \in Nat /\ MaxSeq \in Nat /\ MaxClock \in Nat

VARIABLES
    clock,      \* wall clock
    nextXid,    \* next transaction id
    nextSeq,    \* next value of server_seq_global
    nextId,     \* next changelog_id
    tx,         \* the write transaction of each session
    table,      \* committed version (server_seq) of each entity, 0: no row
    changelog,  \* committed rows of sync_changelog
    horizon,    \* the row of sync_changelog_horizon
    prune,      \* the prune transaction of each pruner
    cursor,     \* each client's stored cursor
    replica,    \* each client's stored version of each entity, 0: none
    resp,       \* the answer on its way to each client
    pruned,     \* history variable: rows deleted by committed prunes
    lost        \* history variable: rows that were already pruned when the
                \* client last started from the empty cursor

dbVars == <<nextXid, nextSeq, nextId, tx, table, changelog>>
pruneVars == <<horizon, prune, pruned>>
clientVars == <<cursor, replica, resp, lost>>
vars == <<clock, dbVars, pruneVars, clientVars>>

-----------------------------------------------------------------------------
(* Positions: store.PullCursor.                                            *)

Position == [xid : Nat, seq : Nat]
ZeroCursor == [xid |-> 0, seq |-> 0]

\* PullCursor.IsZero: the beginning of the stream
IsZero(p) == p.xid = 0 /\ p.seq = 0

\* PullCursor.Less: the keyset order of the feed
Less(p, q) == p.xid < q.xid \/ (p.xid = q.xid /\ p.seq < q.seq)

AtMost(p, q) == ~Less(q, p)

Row == [id : Nat, entity : Entities, xid : Nat, seq : Nat, created : Nat]
Pos(r) == [xid |-> r.xid, seq |-> r.seq]

\* Every row ever committed to sync_changelog
History == changelog \cup pruned

-----------------------------------------------------------------------------
(* Write transactions.                                                     *)

IdleTx == [state |-> "idle", entity |-> NoEntity, created |-> 0,
           xid |-> 0, seq |-> 0, id |-> 0]
Tx == [state : {"idle", "open"}, entity : Entities \cup {NoEntity},
       created : Nat, xid : Nat, seq : Nat, id : Nat]

IdlePrune == [state |-> "idle", batch |-> {}, xid |-> 0]
Prune == [state : {"idle", "selected", "deleted"}, batch : SUBSET Row, xid : Nat]

Response == [kind : {"none", "page", "gone"}, changes : [Entities -> Nat],
             next : Position, more : BOOLEAN, from : Position,
             horizon : Position, prunedThen : SUBSET Row]
Nothing == [e \in Entities |-> 0]
NoResponse == [kind |-> "none", changes |-> Nothing, next |-> ZeroCursor,
               more |-> FALSE, from |-> ZeroCursor, horizon |-> ZeroCursor,
               prunedThen |-> {}]

\* xids of the transactions in progress
RunningXids == {tx[w].xid : w \in Writers} \cup {prune[p].xid : p \in Pruners}

\* Faulty variant: any committed row is deliverable
AnyCommittedXid(x) == x < nextXid

\* Faulty variant: off by one, the newest settled row is held back
HoldsBackNewest(x) ==
    /\ x + 1 < nextXid
    /\ \A y \in RunningXids : y # 0 => x + 1 < y

\* xid_before_snapshot_horizon: x < pg_snapshot_xmin(pg_current_snapshot()),
\* the least xid still in progress, or the next one when there is none
BeforeSnapshotHorizon(x) ==
    /\ x < nextXid
    /\ \A y \in RunningXids : y # 0 => x < y

Init ==
    /\ clock = 0
    /\ nextXid = 1 /\ nextSeq = 1 /\ nextId = 1
    /\ tx = [w \in Writers |-> IdleTx]
    /\ table = Nothing
    /\ changelog = {}
    /\ horizon = ZeroCursor
    /\ prune = [p \in Pruners |-> IdlePrune]
    /\ cursor = [c \in Clients |-> ZeroCursor]
    /\ replica = [c \in Clients |-> Nothing]
    /\ resp = [c \in Clients |-> NoResponse]
    /\ pruned = {}
    /\ lost = [c \in Clients |-> {}]

Tick ==
    /\ clock < MaxClock
    /\ clock' = clock + 1
    /\ UNCHANGED <<dbVars, pruneVars, clientVars>>

\* A statement on a syncable table starts its own transaction; created_at
\* defaults to now(), the transaction's start.
BeginWrite(w, e) ==
    /\ tx[w].state = "idle"
    /\ tx' = [tx EXCEPT ![w] = [IdleTx EXCEPT !.state = "open", !.entity = e,
                                              !.created = clock]]
    /\ UNCHANGED <<clock, nextXid, nextSeq, nextId, table, changelog,
                   pruneVars, clientVars>>

\* The transaction's first write gives it an id; for an INSERT that is after
\* the BEFORE trigger took its server_seq, for an UPDATE before it.
AssignXid(w) ==
    /\ tx[w].state = "open" /\ tx[w].xid = 0
    /\ nextXid <= MaxXid
    /\ tx' = [tx EXCEPT ![w].xid = nextXid]
    /\ nextXid' = nextXid + 1
    /\ UNCHANGED <<clock, nextSeq, nextId, table, changelog, pruneVars, clientVars>>

\* set_server_seq: the BEFORE trigger runs once the row lock is held, so no
\* other open transaction has a version of the same entity.
RowFree(w, e) == \A v \in Writers \ {w} : tx[v].entity = e => tx[v].seq = 0

TakeServerSeq(w) ==
    /\ tx[w].state = "open" /\ tx[w].seq = 0
    /\ RowFree(w, tx[w].entity)
    /\ nextSeq <= MaxSeq
    /\ tx' = [tx EXCEPT ![w].seq = nextSeq]
    /\ nextSeq' = nextSeq + 1
    /\ UNCHANGED <<clock, nextXid, nextId, table, changelog, pruneVars, clientVars>>

\* log_*_change: the AFTER trigger inserts the changelog row
LogChange(w) ==
    /\ tx[w].state = "open" /\ tx[w].xid # 0 /\ tx[w].seq # 0 /\ tx[w].id = 0
    /\ tx' = [tx EXCEPT ![w].id = nextId]
    /\ nextId' = nextId + 1
    /\ UNCHANGED <<clock, nextXid, nextSeq, table, changelog, pruneVars, clientVars>>

\* Faulty variant: the trigger reads OLD, which an INSERT has not
RowOfOld(t) == [id |-> t.id, entity |-> NoEntity, xid |-> t.xid, seq |-> t.seq,
                created |-> t.created]

RowOf(t) == [id |-> t.id, entity |-> t.entity, xid |-> t.xid, seq |-> t.seq,
             created |-> t.created]

CommitWrite(w) ==
    /\ tx[w].state = "open" /\ tx[w].id # 0
    /\ table' = [table EXCEPT ![tx[w].entity] = tx[w].seq]
    /\ changelog' = changelog \cup {RowOf(tx[w])}
    /\ tx' = [tx EXCEPT ![w] = IdleTx]
    /\ UNCHANGED <<clock, nextXid, nextSeq, nextId, pruneVars, clientVars>>

\* A failed statement or a lost connection: nothing of it becomes visible,
\* the numbers it took are not given back.
AbortWrite(w) ==
    /\ tx[w].state = "open"
    /\ tx' = [tx EXCEPT ![w] = IdleTx]
    /\ UNCHANGED <<clock, nextXid, nextSeq, nextId, table, changelog,
                   pruneVars, clientVars>>

-----------------------------------------------------------------------------
(* Retention: Pruner.PruneOnce, one transaction per tick.                  *)

\* created_at < cutoff, with cutoff = now - MaxAge
Expired(r) == r.created + MaxAge < clock

\* SelectChangelogPruneBatch: the expired rows with the smallest changelog_id
PruneBatch ==
    LET old == {r \in changelog : Expired(r)}
    IN  {r \in old : Cardinality({s \in old : s.id < r.id}) < BatchSize}

\* Nothing due: the transaction commits without a write
PruneSelect(p) ==
    /\ prune[p].state = "idle"
    /\ PruneBatch # {}
    /\ prune' = [prune EXCEPT ![p] = [IdlePrune EXCEPT !.state = "selected",
                                                       !.batch = PruneBatch]]
    /\ UNCHANGED <<clock, dbVars, horizon, pruned, clientVars>>

\* DeleteChangelogRows: the first write, so it gives the transaction its id;
\* it waits for another pruner that holds one of the rows
PruneDelete(p) ==
    /\ prune[p].state = "selected"
    /\ \A q \in Pruners \ {p} :
           prune[q].state = "deleted" => prune[q].batch \cap prune[p].batch = {}
    /\ nextXid <= MaxXid
    /\ prune' = [prune EXCEPT ![p].state = "deleted", ![p].xid = nextXid]
    /\ nextXid' = nextXid + 1
    /\ UNCHANGED <<clock, nextSeq, nextId, tx, table, changelog, horizon,
                   pruned, clientVars>>

Greater(m, n) == IF m >= n THEN m ELSE n

\* Faulty variant: the batch's last row by changelog_id taken for its largest
HorizonOfLastId(h, batch, newH) ==
    \E a \in batch :
        /\ \A r \in batch : r.id <= a.id
        /\ newH = [xid |-> Greater(h.xid, a.xid), seq |-> Greater(h.seq, a.seq)]

\* Faulty variant: SET instead of GREATEST
HorizonOverwritten(h, batch, newH) ==
    \E a \in batch, b \in batch :
        /\ \A r \in batch : r.xid <= a.xid
        /\ \A r \in batch : r.seq <= b.seq
        /\ newH = [xid |-> a.xid, seq |-> b.seq]

\* The largest xid8 and the largest server_seq of the batch, found
\* independently of each other, and GREATEST of each with the horizon
AdvanceChangelogHorizon(h, batch, newH) ==
    \E a \in batch, b \in batch :
        /\ \A r \in batch : r.xid <= a.xid
        /\ \A r \in batch : r.seq <= b.seq
        /\ newH = [xid |-> Greater(h.xid, a.xid), seq |-> Greater(h.seq, b.seq)]

PruneCommit(p) ==
    /\ prune[p].state = "deleted"
    /\ changelog' = changelog \ prune[p].batch
    /\ pruned' = pruned \cup (changelog \cap prune[p].batch)
    /\ AdvanceChangelogHorizon(horizon, prune[p].batch, horizon')
    /\ prune' = [prune EXCEPT ![p] = IdlePrune]
    /\ UNCHANGED <<clock, nextXid, nextSeq, nextId, tx, table, clientVars>>

\* An error of any statement, a cancelled context or a killed process: the
\* transaction rolls back and Run waits for the next tick
PruneRollback(p) ==
    /\ prune[p].state # "idle"
    /\ prune' = [prune EXCEPT ![p] = IdlePrune]
    /\ UNCHANGED <<clock, dbVars, horizon, pruned, clientVars>>

-----------------------------------------------------------------------------
(* Service.pull: everything it reads comes from one snapshot.              *)

\* Faulty variant: the page is not scoped to the caller
VisibleToAll(c, e) == TRUE

\* (user_id = $1 OR user_id IS NULL)
Visible(c, e) == Owner[e] \in {UserOf[c], System}

\* Faulty variant: no check against the prune horizon
NeverExpired(p) == FALSE

CursorExpired(p) == ~IsZero(p) /\ Less(p, horizon)

Available(c) ==
    {r \in changelog : /\ Visible(c, r.entity)
                       /\ BeforeSnapshotHorizon(r.xid)
                       /\ Less(cursor[c], Pos(r))}

\* ListChangelogPage cut to the page size: the first PageLimit rows
Page(c) ==
    LET A == Available(c)
    IN  {r \in A : Cardinality({s \in A : Less(Pos(s), Pos(r))}) < PageLimit}

\* next_cursor: the position of the page's last row, or the cursor itself
NextCursor(c, p) ==
    \/ Page(c) = {} /\ p = cursor[c]
    \/ \E r \in Page(c) : p = Pos(r) /\ \A s \in Page(c) : AtMost(Pos(s), p)

\* The Resolve...ForPull statements: an entity's current state in this
\* snapshot, whatever version its changelog row is about
CurrentState(e) == table[e]

\* Faulty variant: the version of the page's last changelog row, not the
\* current one
ResolveLogged(rows) ==
    [e \in Entities |->
        LET mine == {r \in rows : r.entity = e}
            last == {r \in mine : \A q \in mine : AtMost(Pos(q), Pos(r))}
        IN  IF mine = {} THEN 0 ELSE (CHOOSE r \in last : TRUE).seq]

\* resolveChangelogEntry, once per entity named by the page
Resolve(rows) ==
    [e \in Entities |-> IF \E r \in rows : r.entity = e THEN CurrentState(e) ELSE 0]

PullPage(c, p) ==
    /\ resp[c].kind = "none"
    /\ ~CursorExpired(cursor[c])
    /\ NextCursor(c, p)
    /\ resp' = [resp EXCEPT ![c] =
                  [kind |-> "page", changes |-> Resolve(Page(c)), next |-> p,
                   more |-> Page(c) # Available(c), from |-> cursor[c],
                   horizon |-> horizon, prunedThen |-> pruned]]
    /\ UNCHANGED <<clock, dbVars, pruneVars, cursor, replica, lost>>

\* ErrCursorExpired, answered 410 Gone
PullExpired(c) ==
    /\ resp[c].kind = "none"
    /\ CursorExpired(cursor[c])
    /\ resp' = [resp EXCEPT ![c] = [NoResponse EXCEPT !.kind = "gone"]]
    /\ UNCHANGED <<clock, dbVars, pruneVars, cursor, replica, lost>>

-----------------------------------------------------------------------------
(* The client, as the handlers' contract describes it (external).          *)

Merge(c) == [e \in Entities |-> IF resp[c].changes[e] # 0
                                THEN resp[c].changes[e] ELSE replica[c][e]]

\* Store the page, then its next_cursor
Deliver(c) ==
    /\ resp[c].kind = "page"
    /\ replica' = [replica EXCEPT ![c] = Merge(c)]
    /\ cursor' = [cursor EXCEPT ![c] = resp[c].next]
    /\ lost' = [lost EXCEPT ![c] = IF IsZero(resp[c].from)
                                   THEN resp[c].prunedThen ELSE lost[c]]
    /\ resp' = [resp EXCEPT ![c] = NoResponse]
    /\ UNCHANGED <<clock, dbVars, pruneVars>>

\* Store the page and crash before the cursor is stored
DeliverAndCrash(c) ==
    /\ resp[c].kind = "page"
    /\ replica' = [replica EXCEPT ![c] = Merge(c)]
    /\ resp' = [resp EXCEPT ![c] = NoResponse]
    /\ UNCHANGED <<clock, dbVars, pruneVars, cursor, lost>>

LoseResponse(c) ==
    /\ resp[c].kind # "none"
    /\ resp' = [resp EXCEPT ![c] = NoResponse]
    /\ UNCHANGED <<clock, dbVars, pruneVars, cursor, replica, lost>>

\* The recovery the 410 answer asks for
ResetCursor(c) ==
    /\ resp[c].kind = "gone"
    /\ cursor' = [cursor EXCEPT ![c] = ZeroCursor]
    /\ resp' = [resp EXCEPT ![c] = NoResponse]
    /\ UNCHANGED <<clock, dbVars, pruneVars, replica, lost>>

-----------------------------------------------------------------------------
Write(w) ==
    \/ \E e \in Entities : BeginWrite(w, e)
    \/ AssignXid(w)
    \/ TakeServerSeq(w)
    \/ LogChange(w)
    \/ CommitWrite(w)
    \/ AbortWrite(w)

Retain(p) == PruneSelect(p) \/ PruneDelete(p) \/ PruneCommit(p) \/ PruneRollback(p)

Pull(c) == PullExpired(c) \/ \E p \in {cursor[c]} \cup {Pos(r) : r \in Page(c)} : PullPage(c, p)

Receive(c) == Deliver(c) \/ DeliverAndCrash(c) \/ LoseResponse(c) \/ ResetCursor(c)

Next ==
    \/ Tick
    \/ \E w \in Writers : Write(w)
    \/ \E p \in Pruners : Retain(p)
    \/ \E c \in Clients : Pull(c) \/ Receive(c)

Spec == Init /\ [][Next]_vars

\* Every transaction ends (a request's statement commits, fails or is
\* cancelled with its context); a client keeps pulling, and not every answer
\* is lost.  Nothing obliges anyone to write, prune or let time pass.
FairSpec ==
    /\ Spec
    /\ \A w \in Writers : WF_vars(CommitWrite(w) \/ AbortWrite(w))
    /\ \A c \in Clients : WF_vars(Pull(c)) /\ SF_vars(Deliver(c))

-----------------------------------------------------------------------------
(* Properties.                                                             *)

TypeOK ==
    /\ clock \in Nat
    /\ nextXid \in Nat \ {0} /\ nextSeq \in Nat \ {0} /\ nextId \in Nat \ {0}
    /\ tx \in [Writers -> Tx]
    /\ \A w \in Writers : tx[w].state = "open" => tx[w].entity \in Entities
    /\ table \in [Entities -> Nat]
    /\ changelog \in SUBSET Row
    /\ horizon \in Position
    /\ prune \in [Pruners -> Prune]
    /\ cursor \in [Clients -> Position]
    /\ replica \in [Clients -> [Entities -> Nat]]
    /\ resp \in [Clients -> Response]
    /\ pruned \in SUBSET Row
    /\ lost \in [Clients -> SUBSET Row]

\* Nothing is skipped.  A committed change of the client's feed at or before
\* its cursor is in its replica, in that version or a later one; the only
\* exceptions are rows retention had already deleted when the client started
\* from the empty cursor.  This is migration 000025's "gap-free by
\* construction" together with the 410 check of pull.
GapFree ==
    \A c \in Clients : \A r \in History :
        /\ Visible(c, r.entity)
        /\ AtMost(Pos(r), cursor[c])
        /\ r \notin lost[c]
        => replica[c][r.entity] >= r.seq

\* The feed is closed behind every position handed out: no transaction that
\* is running or that may start later can add a row at or before a cursor, so
\* the snapshot gate of ListChangelogPage really makes a position final.
ClosedBehindCursors ==
    \A c \in Clients :
        \A x \in RunningXids \cup {nextXid} :
            x # 0 => cursor[c].xid < x /\ resp[c].next.xid < x

\* A prune batch and the horizon that covers it become visible together: in
\* every state each deleted row is at or before the horizon.
HorizonCoversPruned == \A r \in pruned : AtMost(Pos(r), horizon)

\* A device never goes back to an older version of an entity, although pages
\* resolve to current state, responses arrive late and pages are replayed.
ReplicaNeverRegresses ==
    [][\A c \in Clients, e \in Entities : replica'[c][e] >= replica[c][e]]_vars

\* 410 Gone is final: once a cursor is below the horizon no later state serves
\* it again (handlers.go: "this exact cursor value can never succeed again").
HorizonNeverRetreats == [][AtMost(horizon, horizon')]_vars

\* A position is what the database recomputes at every query: in any snapshot
\* that sees a row, and before the ids have gone once around since it was
\* written (which retention has to prevent), xmin_xid8 of its 32-bit xmin is
\* its transaction's full id, also when an epoch began in between.
WideningExact ==
    \A r \in changelog : \A xmax \in (r.xid + 1)..nextXid :
        xmax < r.xid + XidModulus =>
            XminXid8(Xmin(r.xid, XidModulus), xmax, XidModulus) = r.xid

\* documentation/security.md's tenant isolation, on the pull path: nothing of
\* another account's data reaches a device, whatever the global positions and
\* the shared horizon do.
TenantIsolation ==
    \A c \in Clients, e \in Entities :
        Owner[e] # System /\ Owner[e] # UserOf[c] =>
            replica[c][e] = 0 /\ resp[c].changes[e] = 0

\* Every committed change reaches every device it is meant for, however long
\* other transactions hold the snapshot horizon back and however often an
\* answer is lost.
EventuallyDelivered ==
    \A c \in Clients, n \in 1..MaxSeq :
        (\E r \in History : r.seq = n /\ Visible(c, r.entity))
            ~> (\E r \in History : r.seq = n /\ replica[c][r.entity] >= n)

\* The versions of an entity ever committed to the changelog
Versions(e) == {r.seq : r \in {h \in History : h.entity = e}}

\* The feed implements Replication: with the rows ever committed to the
\* changelog as versions and the clients' replicas as copies, every step of
\* writers, pruners, pulls and a lossy network is a new version, a copy that
\* moves forward to committed versions of its own account, or nothing.
Replicas == INSTANCE Replication WITH
    Devices <- Clients,
    Readable <- [c \in Clients |-> {e \in Entities : Visible(c, e)}],
    versions <- [e \in Entities |-> Versions(e)],
    copy <- replica
ImplementsReplication == Replicas!Spec

\* What the 410 answer promises: "Reset your cursor to empty and re-pull from
\* the beginning; ... this is always safe".  A last page (has_more = false)
\* leaves the client with every change that was committed and pruned before.
ResetRecovers ==
    \A c \in Clients :
        resp[c].kind = "page" /\ ~resp[c].more =>
            \A r \in resp[c].prunedThen :
                Visible(c, r.entity) => Merge(c)[r.entity] >= r.seq

\* What the Pruner's comment says of a paginating client: a next_cursor is
\* expired only when MaxAge passes between two page requests, so not already
\* in the snapshot that produced it.
NextCursorServable ==
    \A c \in Clients :
        resp[c].kind = "page" =>
            IsZero(resp[c].next) \/ AtMost(resp[c].horizon, resp[c].next)

-----------------------------------------------------------------------------
(* The inductive invariant behind the safety properties: what makes them   *)
(* survive every step.                                                     *)

\* Numbers in use were handed out before; an idle session holds none
RowNumbers ==
    \A r \in History : r.xid # 0 /\ r.xid < nextXid /\ r.seq # 0 /\ r.seq < nextSeq
TxNumbers ==
    \A w \in Writers :
        /\ tx[w].xid < nextXid /\ tx[w].seq < nextSeq
        /\ tx[w].id # 0 => tx[w].xid # 0 /\ tx[w].seq # 0
        /\ tx[w].seq # 0 => tx[w].state = "open"
PruneNumbers == \A p \in Pruners : prune[p].xid < nextXid
NumbersTaken == RowNumbers /\ TxNumbers /\ PruneNumbers

\* The row lock: versions of one entity are numbered in commit order
VersionsInOrder ==
    /\ \A e \in Entities : table[e] < nextSeq
    /\ \A r \in History : r.seq <= table[r.entity]
    /\ \A w \in Writers : tx[w].seq # 0 => table[tx[w].entity] < tx[w].seq
    /\ \A v, w \in Writers : v # w /\ tx[v].seq # 0 /\ tx[w].seq # 0
                                => tx[v].entity # tx[w].entity

\* What the client is excused from once it stores the answer
Excused(c) == IF IsZero(resp[c].from) THEN resp[c].prunedThen ELSE lost[c]

\* GapFree of the state the client is in once it stores the answer
ResponseGapFree ==
    \A c \in Clients : resp[c].kind = "page" =>
        \A r \in History :
            /\ Visible(c, r.entity)
            /\ AtMost(Pos(r), resp[c].next)
            /\ r \notin Excused(c)
            => Merge(c)[r.entity] >= r.seq

\* A resolved version is the current one of a snapshot no older than any the
\* client has seen
ResponseFresh ==
    \A c \in Clients, e \in Entities :
        /\ replica[c][e] <= table[e]
        /\ resp[c].changes[e] <= table[e]
        /\ resp[c].changes[e] # 0 => replica[c][e] <= resp[c].changes[e]

IInv ==
    /\ TypeOK
    /\ IsFiniteSet(changelog)
    /\ NumbersTaken
    /\ VersionsInOrder
    /\ ClosedBehindCursors
    /\ HorizonCoversPruned
    /\ GapFree
    /\ ResponseGapFree
    /\ ResponseFresh

\* What an answer carries and a table shows is a committed version, and an
\* answer carries the client's own rows only
VersionsCommitted ==
    /\ \A e \in Entities : table[e] # 0 => table[e] \in Versions(e)
    /\ \A c \in Clients, e \in Entities :
           resp[c].changes[e] # 0 => Visible(c, e) /\ resp[c].changes[e] \in Versions(e)

\* Added to IInv for TenantIsolation and the refinement
FeedIInv == IInv /\ VersionsCommitted /\ TenantIsolation
=============================================================================
