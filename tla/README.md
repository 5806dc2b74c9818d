# A TLA+ model of rize-backend

rize-backend is a Go API over PostgreSQL/TimescaleDB. Devices track activity,
push it, pull each other's changes, and ask for reports. This directory models
the parts whose correctness depends on the order in which concurrent requests,
transactions and devices take their steps. Model checking is by TLC, proofs by
TLAPS; `PROJECT.json` lists components, runs, mutants, the map from definitions to
source lines, findings, hazards and theorems.

## Inventory

| Part (source) | State | Operations | What is hard | What makes it correct |
|---|---|---|---|---|
| Change feed (`internal/sync/pull.go`, `store/cursor.go`, migrations 000022, 000025, 000026) | syncable tables, `server_seq_global`, `sync_changelog`; each device's cursor | write with triggers, pull a page, 410 | ids, sequence numbers and commits come in three different orders; answers are lost or replayed | no change is skipped, no device goes back, every change arrives, no foreign data |
| Retention (`internal/sync/retention.go`, migration 000029) | `sync_changelog_horizon` | `PruneOnce` in every API process | pruners without a lock between them, rollback part-way | the horizon covers what was deleted and never retreats |
| Push (`internal/sync/service.go`) | `apps`, `activity_events`, `focus_sessions` | batch of events, tombstones, focus sessions | items commit one by one, retries overlap, client clocks | events converge, last write wins, ids stay with their account |
| Focus sessions (`internal/focussessions`) | `focus_sessions` | create, PATCH (read, merge, write), delete | edits race pushes of the same row | the same |
| Sessions (`internal/auth/refresh_logout.go`, `register_login.go`, `users_devices.go`) | `refresh_tokens`, `devices` | login, refresh with rotation, logout, revoke device | statement snapshots, row locks, NOWAIT, deadlocks | families are linear, a revocation ends its family (it may not: finding), a revoked device gets no tokens, requests end |
| Login lockout (`register_login.go`, `login_lockout.sql`) | three columns of `users` | failed and successful login | decisions from a copy read before argon2id | the threshold locks, a lock is bounded and not extended |
| Reports (`internal/reports`) | none of its own; continuous aggregates | totals by category, app, project | day boundaries, overlapping intervals, statements without a transaction, stale aggregates | windows cover the range once, each instant of a device counts once |
| Projects, tags, categories (`internal/projects`, `tags`, `categories`); activities list and timeline | their tables | create, PATCH, soft delete, keyset lists | PATCH reads in one statement and writes in another; rows move, appear and vanish between two pages; ids come from clients | lists miss and repeat nothing, deletions are final, rows stay with their owner |
| API process (`cmd/api/main.go`, `internal/config`, `store/pool.go`, `auth/keys.go`, `auth/token.go`, `middleware/auth.go`) | the process and its signing key | start, serve, signal, shut down, exit | shutdown and its timeout meet requests that hold transactions and locks; restarts | shutdown ends, exit code 0 cuts nobody off, access tokens survive restarts |
| Passwords, logging, CORS, rate limit, recoverer, httpx, observability | none that outlives a request | library calls, wiring | | |

The parts meet in the database. A push or a REST edit is a write transaction of
the feed; the feed's order comes from triggers and PostgreSQL's transaction ids,
not from Go code. Login is first `LoginLockout` and, once granted,
`RefreshTokens`, whose requests run inside the process of `ApiServer`. Reports and
the lists of `Catalog` read the events that pushes store.

## Modules

| Module | Models | Checked by | Proved in |
|---|---|---|---|
| `ChangeFeed` | change feed and retention, with the client's side of the contract | `MCChangeFeed` | `ChangeFeedProofs` |
| `Replication` | what the feed promises: replicas that follow current versions | as a property of `ChangeFeed` | `ChangeFeedProofs` |
| `Xid8` | `xmin_xid8`, the widening of a row's xmin | through `ChangeFeed` | `ChangeFeedProofs` |
| `RefreshTokens` | login after the password check, `refreshTx`, logout, `revokeDeviceTx` | `MCApiServer`, which runs it inside the process; findings by `MCRefreshTokens` | `RefreshTokensProofs` |
| `TokenFamilies` | what refresh tokens promise: families in which a token is exchanged once | as a property of `RefreshTokens` | `RefreshTokensProofs`, `ApiServerProofs` |
| `ApiServer` | the process around the requests of `RefreshTokens` (which it extends) | `MCApiServer` | `ApiServerProofs` |
| `LoginLockout` | the lockout columns of one account | `MCLoginLockout` | `LoginLockoutProofs` |
| `SyncPush` | push and the focus-session endpoints | `MCSyncPush` | `SyncPushProofs` |
| `Reports` | `splitClosedOpen`, the interval merge, the daily aggregates and one report | `MCReports` | `MergeProofs` (the merge), `ReportsProofs` |
| `Catalog` | projects, tags, categories and the keyset lists, the activities' too | `MCCatalog` | `CatalogProofs` |

Each module holds its faulty variants (comment "Faulty variant") just before the
definition they replace. They are not part of any specification: each shows that
some property notices a plausible bug.

### ChangeFeed

A write is `BeginWrite`, `AssignXid` and `TakeServerSeq` in either order (an
INSERT runs its BEFORE trigger before it has a transaction id, an UPDATE locks the
row and has its id first), `LogChange`, then `CommitWrite` or `AbortWrite`.
`TakeServerSeq` waits for the entity's row lock (`RowFree`). A version is its
`server_seq`, so `table` and `replica` map entities to numbers. A pull reads one
REPEATABLE READ snapshot and is one step (`PullPage`, `PullExpired`): the 410
check, the rows after the cursor that are visible to the caller and below
`pg_snapshot_xmin`, the first `PageLimit` of them, `next_cursor`, and the
*current* state of every entity they name. `PruneOnce` is `PruneSelect`,
`PruneDelete`, `PruneCommit` (delete and horizon become visible together) or
`PruneRollback`. The client is external, as `handlers.go` and `errors.go` describe
it: it stores a page, then its cursor; it may crash between the two
(`DeliverAndCrash`), lose an answer, and reset its cursor on 410. `pruned` and
`lost` are history variables.

`Xid8` is a parameter-free module of operators: `Xmin` truncates an id to the tuple
header's width, `XminXid8` is the migration's function. `ChangeFeed` works with the
full ids; `WideningExact` says that what the queries compute for a row, in the
snapshot of any moment, is that full id. `XidModulus` stands for 2^32.

`Replication` keeps the committed versions of each entity, numbered upwards, and a
copy per device. A copy moves, entity by entity, to a later committed version of an
entity the device may see. `ChangeFeed` implements it (`ImplementsReplication`) with
the `server_seq`s ever committed to the changelog as versions and `replica` as copy:
ids, snapshots, pages, cursors, answers in flight and retention do not show.

### RefreshTokens

Each request is a record with a program counter; a statement under READ COMMITTED
is a snapshot (`RevokeSnapshot`), then locks taken row by row with a second look at
the row (`LockTarget`), then the commit. `RefreshLookup`/`LockNoWait`/`LockWait` are
`refreshTx`'s savepoint dance. `DeadlockAbort` is PostgreSQL's detector. `ended` and
the request's `seen` and `devWasLive` are history variables.

`TokenFamilies` knows no requests, locks or transactions. A family has at most one valid
token and the set of those that were spent; a login issues a family's first token, a
refresh exchanges the valid one for one never issued before, and a revocation ends any
number of families. There is no step by which a spent token is valid again or an ended
family has a valid token. A revocation that loses to a rotation ends nothing and is a
stutter, so the refinement does not say that a logout ends its family: that is
`EntireFamilyRevoked`, which does not hold (finding `tokens_revocation`). `RefreshTokens` implements it (`ImplementsFamilies`) with the committed
live rows as valid and the other committed rows as spent.

### ApiServer

`deployment` is what the environment variables say, the same at every start.
`Launch` is `main`, `run`, `serve` and `newRouter` up to the listener, `LaunchFails`
their error exits (code 1) and the panic of `newRouter` (code 2). `Signal`,
`ShutdownReturns`, `ShutdownTimesOut` and `ListenFails` are the `select` and the
`Shutdown` of `serve`; the deferred `pool.Close` is the phase "closing", which ends
when no request holds a connection (`PoolCloses`). `Kill` and `End` drop every
request; its transaction rolls back, what its earlier statements committed stays.
Requests enter by `Accept`, which is `RefreshTokens`' first steps behind
`Authenticate` where the routes say so, and go on by `Proceed`. `access` records the
keys of each account's unexpired access tokens.

### Catalog

The four groups touch one table each, so a behaviour is about one table (`table`,
chosen initially). A statement is `BeginInsert` or `LockRow` (lock, second look at
the WHERE, sequence number), `PlaceRow` (unique indexes: wait for whoever decides,
then 409 or go on) and `CommitRow`. `ReadForPatch` is PATCH's earlier read. One
reader goes through the list with `ListPage`; `start`, `got` and `again` remember
what it saw. Sequence numbers are taken before commits, so they appear out of order.

### LoginLockout

`ReadUser` copies the row, `Decide` fixes `now` and the branch, `RecordFailure` and
`GrantLogin` are the single UPDATEs that run after argon2id.

### SyncPush

A push walks its batch (`StartItem`), an event is `ResolveApp`, `InsertEvent` and
perhaps `TombstoneEvent`; a focus session is `StampFocus` (clock skew),
`UpsertFocus` and perhaps `LookupFocus`. Any statement may hit a constraint, any
request may die in between and be sent again. PATCH is `PatchRead` and
`PatchWrite`, which rewrites every column from the copy.

### Reports

One bucket of a report. `SplitClosedOpen`, `Clip`, `MergeAndSum` are the functions
of `window.go` and `trim.go`; `DailyTotal` is the real-time continuous aggregate,
materialized up to a watermark that `Refresh` moves; `StartSplit`/`StartRaw`,
`ReadClosed`, `ReadRaw`, `Answer` are the statements of a request. Time is in
fractions of a second because Go truncates each merged stretch to whole seconds
while `duration_s` rounds. `sort.Slice` is not stable, so `SortedByStart` is every
order of the intervals in which starts do not decrease, and `MergeAndSum` takes an
unspecified one of them; what is proved of it holds for each. `Runs` has the
variables of the loop after each interval.

## Runs

Bounds are the `Max...` constants and the sizes of the sets in each `.cfg`.

| Run | Shows | Bounds and why they are enough |
|---|---|---|
| `feed_safety` | `GapFree`, `ClosedBehindCursors`, `HorizonCoversPruned`, `WideningExact`, `ReplicaNeverRegresses`, `HorizonNeverRetreats` | two writers give every order of id, sequence and commit; three changes, two pruners and batches of two overlap and let one pruner fall behind; ids to 4 with modulus 4 cross an epoch. Constraints below; the theorems lift the bounds |
| `feed_live` | `EventuallyDelivered`, `TenantIsolation`, `ImplementsReplication` | two writers hold each other's rows back; the second entity is another account's; no retention, since a pruned change need not arrive |
| `feed_reset`, `feed_next_cursor` | findings `ResetRecovers`, `NextCursorServable` | the smallest instances that reach them |
| `server` | `OneLivePerFamily`, `Lineage`, `RevokedDeviceStaysOut`, `ImplementsFamilies`, `CleanExit`, `AccessSurvivesRestart`, `RequestsEnd`, `ShutdownEnds` | two sessions give every pair of racing requests and suffice for the device/token lock cycle; three tokens: a chain of two rotations; two starts and four requests: log in, then race, stop and be served by the next process; environments that start, that generate a key and that fail at each check. The token properties are checked in the server, where requests are cut off too; `ApiServerProofs` lifts the bounds |
| `tokens_revocation` | finding `EntireFamilyRevoked` | one login, one refresh, one logout |
| `tokens_per_device` | finding `OneLivePerDevice` | two overlapping logins |
| `lockout` | `ThresholdLocks`, `LockIsBounded`, `LockIsNeverExtended` | three logins, threshold two, durations 1, 2, 3 (capped): a stale failure can meet each stage of an escalation |
| `push` | `EventsConverge`, `LastWriteWins`, `OwnRowsOnly` | two handlers, three devices of two accounts whose batches share an event and a focus session; every batch may be repeated and cut short |
| `reports` | `SplitExact`, `TrimExact`, `WithinWindow` | two devices, a closed day and most of today, three ticks a second: every range (also inside the past day), every pair of intervals of one device or two, a refresh and events that come too late for it. A range with a leading edge, a closed day and today needs seven ticks; it is left to the theorem `SplitsAreExact` |
| `reports_double` | finding `NeverDoubleCounts` | one event across midnight |
| `catalog` | `ListComplete`, `ListNoRepeat`, `DeletedStaysDeleted`, `RowsKeepOwner`, `VersionsGrow` | two sessions, pages of one row, ids that collide, two tag names; enough numbers that a row is updated and another deleted between two pages |

Symmetry is used for interchangeable writers, pruners, sessions, devices of a report
and events, and only in runs without liveness. The token and server runs do not check
deadlock: with a bounded number of tokens, devices, starts and requests nothing may be
left to do once all are used.

`feed_safety` spends its bounds where the orders matter, by state constraints of
`MCChangeFeed`: the last transaction id is used only where none before it was wasted
on an aborted transaction (`NoneWasted`), the last change is made after something was
pruned (`LastAfterPrune`), transactions overlap when both started before the first tick
(`EarlyOverlap`), and both pruners run at once only between writes (`PrunersAlone`).
Behaviours outside the constraints are covered by the theorems, which have none.
`feed_next_cursor` restricts itself to transactions shorter than a clock tick
(`ShortWrites`), so that the finding does not depend on a transaction longer than
the retention period.

### Fairness

* Feed: transactions end (each is one statement or a short handler under a request
  context), devices keep pulling (weak fairness), and not every answer is lost
  (strong fairness of `Deliver`, since an answer is delivered or lost). Nothing is
  assumed about crashes, pruning or new writes.
* Server: a request in flight goes on, is ended by the deadlock detector or is refused
  by the closed pool (strong fairness of the three together for each session, since
  PostgreSQL queues waiters for a row lock in order). `Shutdown` returns when nothing
  is in flight or when its timer fires, and `pool.Close` returns when it can (weak
  fairness). Nobody has to start, signal or kill the process, and no request has to
  fail.

### Findings

* `feed_reset`: a pull from the empty cursor is exempt from the horizon check and
  lists only surviving changelog rows. An entity whose rows were all pruned never
  reaches a device that resets, though the 410 answer calls the reset "always safe".
* `feed_next_cursor`: the horizon's two components are independent maxima over a
  batch in `changelog_id` order, so it can be past rows that remain. A page's
  `next_cursor` can already be expired in the snapshot it was read in.
* `tokens_revocation`: a logout whose UPDATE takes its snapshot while a rotation of the
  family is in flight waits for the consumed row, skips it, and does not see the
  replacement. The logout succeeds and the family has a live token. The same UPDATE
  serves reuse detection ("the entire token family is revoked") and, by device,
  RevokeDevice ("every refresh token ever issued to it"), whose survivors at least
  cannot be refreshed (`RevokedDeviceStaysOut`). What a revocation does guarantee is
  `RevocationCoversSnapshot`: the rows its snapshot found live are revoked. It is
  part of the inductive invariant and theorem `RevocationsHold`.
* `tokens_per_device`: two overlapping logins on one device both revoke before
  either inserts; the device has two live tokens where one is promised.
* `reports_double`: an event across midnight is counted whole on the day it started
  on and again by the raw pass over the next window; the comment on
  `splitClosedOpen` says that this never happens.
* `reports` (the property holds, the package comment is stale): `doc.go` says that closed
  days are plain sums, not capped per device, since the aggregates have no device
  column. Migrations 000034 and 000035 added the column and the queries cap each
  device at the length of the closed window, as `activities.sql` and `dimension.go`
  say. The mutant `Uncapped` is the behaviour `doc.go` describes; with it
  `WithinWindow` fails.

## Proofs

Every safety invariant and every action property that a passing run checks is also
proved for all values of the constants, and so are the refinements of the feed and of
the tokens. Nothing
bounds the sets of accounts, devices, sessions, writers, entities or ids, except that
an account's devices and events in `Reports` are finitely many (`RowsAssumption`: they
are rows of a table, and a sum is over them); the `Max...` bounds are arbitrary
naturals. The assumptions are the named `ASSUME`s of the modules: special values are not
ordinary ones, maps have their types, limits, durations and page sizes are positive.
No state constraint of a run occurs in a proof.

| Module | Theorems | Properties |
|---|---|---|
| `ChangeFeedProofs` | `WideningLossless`, `TypeCorrect`, `GapFreeFeed`, `ClosedFeed`, `HorizonSafe`, `PositionsExact`, `TenantsIsolated`, `HorizonMonotone`, `ReplicaMonotone`, `FeedImplementsReplication` | the operator `XminXid8`; `TypeOK`, `GapFree`, `ClosedBehindCursors`, `HorizonCoversPruned`, `WideningExact`, `TenantIsolation`, `HorizonNeverRetreats`, `ReplicaNeverRegresses`, `ImplementsReplication` |
| `RefreshTokensProofs` | `TypeCorrect`, `FamiliesStaySingle`, `LineageKept`, `RevocationsHold`, `RevokedDeviceNeverRefreshes`, `TokensImplementFamilies` | `TypeOK`, `OneLivePerFamily`, `Lineage`, `RevocationCoversSnapshot` (in no run of its own), `RevokedDeviceStaysOut`, `ImplementsFamilies` |
| `ApiServerProofs` | `ServerTypeCorrect`, `CleanExits`, `RestartsKeepAccess`, `TokensSurviveRestarts`, `ServerImplementsFamilies` | `ServerTypeOK`, `CleanExit`, `AccessSurvivesRestart`, and those of the tokens under `ServerSpec` |
| `LoginLockoutProofs` | `FailuresLock`, `LocksEnd`, `OncePerEpisode` | `ThresholdLocks`, `LockIsBounded`, `LockIsNeverExtended` |
| `SyncPushProofs` | `EventsDoConverge`, `LastWriteDoesWin`, `OnlyOwnRows` | `EventsConverge`, `LastWriteWins`, `OwnRowsOnly` |
| `CatalogProofs` | `TypeCorrect`, `ListsAreComplete`, `ListsDoNotRepeat`, `DeletionsAreFinal`, `OwnersAreKept`, `VersionsAreOrdered` | `TypeOK`, `ListComplete`, `ListNoRepeat`, `DeletedStaysDeleted`, `RowsKeepOwner`, `VersionsGrow` |
| `MergeProofs` | `MergeExact`, `MergeBound` | the operator `MergeAndSum` |
| `ReportsProofs` | `SplitsAreExact`, `MergeCountsOnce`, `NeverMoreThanTheRange` | `SplitExact`, `TrimExact`, `WithinWindow` |

Each module but `MergeProofs`, which is about an operator, has an inductive invariant `IInv` (`ServerIInv`, `FeedIInv`), proved as
theorem `Invariant` (`ServerInvariant`) by one lemma per conjunct and one step per
action; each was also checked by TLC on the bounds of the module's run.

### The feed

`GapFree` alone is not inductive. A row committed later could land
behind a cursor: `ClosedBehindCursors` says no running or future transaction has an
id as small as a cursor's, which needs `NumbersTaken` (ids in use were handed out,
idle sessions hold none). An answer in flight is about to become the client's
state: `ResponseGapFree` is `GapFree` of that state. The page resolves to current
versions, which covers every row of the page only because versions of an entity are
numbered in commit order: `VersionsInOrder`, the effect of the row lock. Rows that
were pruned are missing from the page: `HorizonCoversPruned` puts them at or below
the horizon, and the 410 check puts the cursor at or above it, or the client starts
from the empty cursor and they are in `lost`. `ResponseFresh` orders replica, answer
and table, which gives `ReplicaNeverRegresses`. That a page is a prefix of what is
available needs finiteness of the changelog (`IsFiniteSet`): the rows before a row
that is not on the page are at least `PageLimit` many.

`TenantIsolation` speaks of answers and replicas; it is inductive once an answer only
resolves entities of rows the caller may see. For the refinement, `VersionsCommitted`
adds that whatever a table, an answer or a replica holds is a version some changelog
row ever committed (`Versions`, which counts pruned rows too). A commit then maps to
`Replication`'s write, a delivered page to a synchronisation of the entities on it, and
every other step to a stutter.

`WideningLossless`: for every modulus, `XminXid8` of a truncated id
is that id, provided the snapshot's xmax is at or above it by less than one epoch.
That condition is a real one: freezing keeps a row's raw xmin, so a changelog row that
outlives 2^32 transactions would get a wrong position. Retention deletes rows long
before that at any realistic rate, and `WideningExact` is stated for the rows within
the distance. The proof is linear arithmetic once ids are written as multiples of the
modulus plus a rest.

### Tokens

A rotation revokes one row and adds one, so `OneLivePerFamily` needs that the row it
replaces is still live at the commit. `LocksExclusive` gives a row lock one holder;
`HoldsItsToken` says a refresh past its second look holds the lock of the presented
row, and past the reuse check that row is live, because everybody who revokes a row
must hold its lock first. `Replacement` keeps the row a transaction will insert out
of everybody else's hands. A revocation works on a snapshot: `Accounted` follows each
row of it from "to be looked at" to "locked and live" or "revoked by somebody else",
so that at the commit none is left, which is `RevocationCoversSnapshot`.
`DeviceChecked` rests on a revoked device staying revoked. `References` and `InHand`
say that the rows named by tokens and requests are there.

For the refinement the invariant is enough. The commit of a rotation is `Rotate`: its row
is the family's only live one, and the new row was nobody's. A committed revocation is
`End` for the families of the rows it hit, each of which had no other live row. The token
a login inserts names a family that has no row, since what rows refer to is there
(`References`). Every other step leaves the committed rows as they are.

`ApiServerProofs` extends these: every step of the server is a step of
`RefreshTokens` (`Next`) on its variables, or, when a process ends with requests in
flight, drops some of them, which keeps `IInv` too since rolling back only gives up locks.
So the tokens' guarantees survive crashes, and under the server they implement
`TokenFamilies` too. `CleanExit` needs `ExitsDrained` (a process
on its way to exit code 0 has nothing in flight), `AccessSurvivesRestart` needs
`KeysConfigured` (outside development there is one key, the configured one, in every process and behind every
unexpired access token).

### Lockout

`CheckedInThePast`: a login that passed the lockout check holds a time that is not ahead
of the clock, so the lock it may set ends at most the longest duration from now, and the
guard of an escalation, no lock at that time, excludes one that is still running.
`LockDuration` is written as "the product if it is within bounds, else the maximum",
which is `LEAST` of the two; in this form its range follows without knowing
anything of 2^n, which the provers do not.

### Push and focus sessions

`ItemInHand` keeps the kind of item a request was dispatched for, and that the event
a tombstone is for exists. For `LastWriteWins` the strengthening is `OffersStored`:
a session that was offered exists, so the first offer is stored unconditionally and
each later one is compared with the largest so far.

### Lists and CRUD

`RowsLocked` and `KeysFree` are the row lock and the unique index: one statement at a
time updates a row or inserts a key, and what it holds is still as it read it after
its lock. They give `DeletedStaysDeleted`, `RowsKeepOwner` and `VersionsGrow`.
`ListNoRepeat` follows from `PagesPassed` (the cursor is past everything read), and
`ListComplete` from `RowsAhead`: a row that was listed at the start and not read is
after the cursor. A page is taken to be the smallest rows after the cursor; that a row
left out is after the page's last one uses that finitely many rows exist (the row
set of a database), and `FirstElement`, that a finite set of keys has a smallest one.

### Reports

`SplitShape` says that `splitClosedOpen` returns one of four shapes, in which the
pieces meet end to end; `PiecesCover` counts the pieces an instant lies in. The
arithmetic is that two starts of days are at least a day apart (`StartsApart`). The
clock advances between the split and the read of the closed days, and they stay past days.

`MergeProofs` is about `mergeAndSum` as a function, for every finite set of intervals.
Its loop invariant has two halves. `BoundedRun`: the seconds counted so far fit between
the first start and the start of the current run. `ExactRun`: with `C` the instants
that the intervals read so far cover, the current run is the last unbroken stretch of
`C`, and the total is the sum over all the other stretches. `LoopNext` has two cases:
the next interval starts after the run's end, and the run becomes one more finished
stretch, or it does not, and the stretch grows to the further of the two ends. That it
starts no earlier than the run does is the sorting; ties need no order. At the
end of the slice, `ExactRun` is `MergeExact` and `BoundedRun` is `MergeBound`. Clipping
to the window keeps exactly the instants inside it (`ClipFacts`), which makes
`MergeExact` into `TrimExact`.

`WithinWindow` speaks of a finished report, and of one bucket of it, as the comment on
`perDeviceSeconds` does: the total that Summary and Daily add up over buckets is not
bounded by it, since a device may have events of several categories at once. Of an
unfinished report `ReadSoFar` holds: its seconds are at most the devices times the
windows already read, `Unread` being what is left of the range. A raw window adds at most its length per device
(`RawBound`, from `MergeBound`). A closed one adds at most its length per device
whatever is stored in the aggregate, since each device's sum is capped (`ClosedBound`);
the cap is one second at least, and `WindowsOK` says the window has a day.

Sums, sequences and the loop are recursive functions. The library's induction theorems
take an operator as a parameter and cannot be instantiated by the installed provers;
`EveryNat` states the induction of the natural numbers for a *set* of numbers instead, and
each use names the set of numbers a claim holds for. From it `FoldExists`
and `FoldUnique` get that the fold of the community modules is one well-defined number
whichever element it takes out first, and `SumRest`, `SumBound` and `RunsAre` follow.

### Only model-checked

* `EventuallyDelivered`, `RequestsEnd`, `ShutdownEnds`: liveness under fairness is
  outside the prover's reach.
* The findings, which are counterexamples.

## Not modelled, and abstractions

* The base64 text of a cursor and parsing in general are left out. All malformed push
  items are one class, and so are all malformed numbers of the configuration.
* The feed starts from an empty database. The backfill of migration 000026 gives old
  rows one transaction id.
* `refreshNoTx` and `revokeDeviceNoTx` exist for unit tests without a pool. Device
  renaming and profile updates write columns no property reads. An account's devices
  are one in the token runs; the module allows any number.
* Cryptography, HTTP decoding, logging, CORS, Sentry and metrics have no protocol of
  their own; the rate limiter's counters are in a third-party library. The pruner
  goroutine is in `ChangeFeed`, not in `ApiServer`; it ends with its context.
* Requests other than the authentication ones are not in `ApiServer`: those hold
  a connection for one statement at a time and take no lock across statements.
* A report has one bucket; names, sorting and the grand totals of Summary and Daily
  (`sumSeconds` over the buckets) are left out, the timeline is in `Catalog`; device
  clocks are right, so no event ends in the future (the push itself rejects only an
  event that ends before it starts; no property depends on this). The TimescaleDB refresh is modelled from its policy: it
  rewrites whole days inside its window and moves the watermark to the window's end.
* `power(2, lockout_count)` in the lockout's UPDATE overflows a double at about 1024
  lockouts in a row; `LockDuration` has the maximum there.
* The activities list starts at the Unix epoch, not at `-infinity` as the comment on
  its query says; `cursor.go` argues that no event is older, and `Started` is positive
  in `Catalog`. Its cursor carries nanoseconds in 64 bits, which ends in 2262; the
  model takes the number as it is.
* In `Catalog` an event's id stands for its whole key, the optional filters of the
  activities list are left out, and the list of focus sessions, which is written like
  that of projects, is not repeated.

## Plan

Done: the modules above, and a theorem for every checked property that is not
liveness. What could follow:

1. An abstract specification of `SyncPush` (events as a set that only grows, focus
   sessions as last-writer-wins registers), with a proof that the module implements it;
   its inductive invariant has what that needs.
2. Shorter proofs where a lemma is shared: the steps "a request's record changes,
   everybody else's stays" occur in three modules.
