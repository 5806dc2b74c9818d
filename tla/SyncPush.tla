------------------------------ MODULE SyncPush ------------------------------
(***************************************************************************)
(* POST /v1/sync/events (internal/sync/service.go) and the focus-session   *)
(* endpoints that edit the same rows (internal/focussessions/service.go).  *)
(*                                                                         *)
(* A push applies the items of its batch one after the other, each with    *)
(* statements that commit on their own: an error part-way leaves the items *)
(* before it in place.  A device sends a batch again until it is answered, *)
(* and batches of several devices and retries of one batch run at the same *)
(* time.                                                                   *)
(*                                                                         *)
(* The payload of a focus session is two fields, each holding a tag that   *)
(* says which write its value comes from.                                  *)
(***************************************************************************)
EXTENDS Naturals, Sequences

CONSTANTS
    Users,      \* accounts
    NoUser,
    Devices,    \* live devices
    UserOf,     \* the account of each device
    Events,     \* idempotency keys (user_id, event_id, started_at)
    FocusIds,   \* ids of focus_sessions rows, chosen by clients
    Apps,       \* (bundle_id, platform) pairs
    Tags,       \* payload values clients push
    Edit,       \* a payload value set through the REST endpoints
    Outbox,     \* the batches each device may send
    Sessions,   \* request handlers
    MaxBatch,   \* maxBatchItems
    MaxSkew,    \* maxClockSkew, in clock ticks
    MaxClock    \* bound: clock ticks

ValidEvent == [type : {"event"}, id : Events, app : Apps, deleted : BOOLEAN]
ValidFocus == [type : {"focus"}, id : FocusIds, updated : Nat, tag : Tags,
               deleted : BOOLEAN]
\* A malformed item, one that fails validation, or an unsupported entity type
Invalid == [type : {"invalid"}]
Item == ValidEvent \cup ValidFocus \cup Invalid

ASSUME PushAssumption ==
    /\ NoUser \notin Users
    /\ Edit \notin Tags
    /\ UserOf \in [Devices -> Users]
    /\ Outbox \in [Devices -> SUBSET Seq(Item)]
    /\ MaxBatch \in Nat /\ MaxSkew \in Nat /\ MaxClock \in Nat

VARIABLES
    clock,      \* the service's clock and the database's now()
    apps,       \* rows of apps
    event,      \* rows of activity_events
    focus,      \* rows of focus_sessions
    req,        \* the request each session is serving
    done,       \* history variable: event items that were given a result
    offers      \* history variable: the versions of each focus session that
                \* were offered since the last REST write, that one included

vars == <<clock, apps, event, focus, req, done, offers>>

-----------------------------------------------------------------------------
Payload == [status : Tags \cup {Edit}, note : Tags \cup {Edit}]
Both(v) == [status |-> v, note |-> v]

NoFocus == [owner |-> NoUser, updated |-> 0, deleted |-> FALSE, payload |-> Both(Edit)]
Focus == [owner : Users \cup {NoUser}, updated : Nat, deleted : BOOLEAN,
          payload : Payload]
Version(row) == [updated |-> row.updated, deleted |-> row.deleted, payload |-> row.payload]
Exists(id) == focus[id].owner # NoUser

Idle == [pc |-> "idle", user |-> NoUser, batch |-> <<>>, index |-> 1, stamp |-> 0,
         id |-> 0, read |-> Both(Edit)]

\* The item a push is at, and the state of a push that has dealt with it
Current(s) == req[s].batch[req[s].index]
Advance(r) == [r EXCEPT !.pc = "item", !.index = @ + 1, !.stamp = 0]

Init ==
    /\ clock = 0
    /\ apps = {}
    /\ event = [e \in Events |-> "absent"]
    /\ focus = [f \in FocusIds |-> NoFocus]
    /\ req = [s \in Sessions |-> Idle]
    /\ done = {}
    /\ offers = [f \in FocusIds |-> {}]

Tick ==
    /\ clock < MaxClock
    /\ clock' = clock + 1
    /\ UNCHANGED <<apps, event, focus, req, done, offers>>

-----------------------------------------------------------------------------
(* Service.push                                                            *)

\* A batch that is too long or a device that is not the caller's is refused
StartPush(s, d, b) ==
    /\ req[s].pc = "idle"
    /\ b \in Outbox[d] /\ Len(b) <= MaxBatch
    /\ req' = [req EXCEPT ![s] = [Idle EXCEPT !.pc = "item", !.user = UserOf[d],
                                              !.batch = b]]
    /\ UNCHANGED <<clock, apps, event, focus, done, offers>>

FinishPush(s) ==
    /\ req[s].pc = "item" /\ req[s].index > Len(req[s].batch)
    /\ req' = [req EXCEPT ![s] = Idle]
    /\ UNCHANGED <<clock, apps, event, focus, done, offers>>

\* Dispatch on entity_type; an invalid item is a result of its own
StartItem(s) ==
    /\ req[s].pc = "item" /\ req[s].index <= Len(req[s].batch)
    /\ req' = [req EXCEPT ![s] =
                 IF Current(s).type = "event" THEN [@ EXCEPT !.pc = "app"]
                 ELSE IF Current(s).type = "focus" THEN [@ EXCEPT !.pc = "stamp"]
                 ELSE Advance(@)]
    /\ UNCHANGED <<clock, apps, event, focus, done, offers>>

\* resolveApp: get, or create, or lose the race and get
ResolveApp(s) ==
    /\ req[s].pc = "app"
    /\ apps' = apps \cup {Current(s).app}
    /\ req' = [req EXCEPT ![s].pc = "insert"]
    /\ UNCHANGED <<clock, event, focus, done, offers>>

\* Faulty variant: an existing row makes a tombstone a duplicate too
TombstoneDropped(s) == FALSE

\* The conflicting row is to be tombstoned
TombstoneDue(s) == Current(s).deleted

\* InsertActivityEvent ON CONFLICT DO NOTHING; the category was only read
InsertEvent(s) ==
    /\ req[s].pc = "insert"
    /\ LET i == Current(s)
       IN  /\ event' = IF event[i.id] # "absent" THEN event
                       ELSE [event EXCEPT ![i.id] = IF i.deleted THEN "deleted"
                                                                 ELSE "present"]
           /\ IF event[i.id] # "absent" /\ TombstoneDue(s)
              THEN /\ req' = [req EXCEPT ![s].pc = "tombstone"]
                   /\ UNCHANGED done
              ELSE /\ req' = [req EXCEPT ![s] = Advance(@)]
                   /\ done' = done \cup {i}
    /\ UNCHANGED <<clock, apps, focus, offers>>

\* TombstoneActivityEvent, a duplicate when somebody else was first
TombstoneEvent(s) ==
    /\ req[s].pc = "tombstone"
    /\ event' = [event EXCEPT ![Current(s).id] = "deleted"]
    /\ req' = [req EXCEPT ![s] = Advance(@)]
    /\ done' = done \cup {Current(s)}
    /\ UNCHANGED <<clock, apps, focus, offers>>

Skewed(t) == t + MaxSkew < clock \/ clock + MaxSkew < t

\* A client clock too far off is replaced by the server's
StampFocus(s) ==
    /\ req[s].pc = "stamp"
    /\ req' = [req EXCEPT ![s].pc = "upsert",
                          ![s].stamp = IF Skewed(Current(s).updated)
                                       THEN clock ELSE Current(s).updated]
    /\ UNCHANGED <<clock, apps, event, focus, done, offers>>

\* Faulty variant: last arrival wins
LastArrivalWins(row, u, t) == row.owner = u

\* Faulty variant: the conflicting row's owner is not compared
WinsForAnyone(row, u, t) == row.updated < t

\* WHERE focus_sessions.user_id = EXCLUDED.user_id AND updated_at < EXCLUDED
Wins(row, u, t) == row.owner = u /\ row.updated < t

\* UpsertFocusSession
UpsertFocus(s) ==
    /\ req[s].pc = "upsert"
    /\ LET i == Current(s)
           r == req[s]
           row == [owner |-> r.user, updated |-> r.stamp, deleted |-> i.deleted,
                   payload |-> Both(i.tag)]
           applies == ~Exists(i.id) \/ Wins(focus[i.id], r.user, r.stamp)
       IN  /\ focus' = IF applies THEN [focus EXCEPT ![i.id] = row] ELSE focus
           /\ offers' = IF Exists(i.id) /\ focus[i.id].owner # r.user THEN offers
                        ELSE [offers EXCEPT ![i.id] = @ \cup {Version(row)}]
           /\ req' = [req EXCEPT ![s] = IF applies THEN Advance(@)
                                        ELSE [@ EXCEPT !.pc = "lookup"]]
    /\ UNCHANGED <<clock, apps, event, done>>

\* GetFocusSessionByID tells FORBIDDEN from duplicate; both are results
LookupFocus(s) ==
    /\ req[s].pc = "lookup"
    /\ req' = [req EXCEPT ![s] = Advance(@)]
    /\ UNCHANGED <<clock, apps, event, focus, done, offers>>

\* constraintViolationResult: the statement is refused, the item is invalid
ConstraintViolation(s) ==
    /\ req[s].pc \in {"insert", "upsert"}
    /\ req' = [req EXCEPT ![s] = Advance(@)]
    /\ UNCHANGED <<clock, apps, event, focus, done, offers>>

-----------------------------------------------------------------------------
(* The REST endpoints of focus sessions: updated_at = now(), no comparison *)

\* An id that exists already, anybody's, is a constraint violation
CreateFocus(u, id) ==
    /\ ~Exists(id)
    /\ focus' = [focus EXCEPT ![id] = [owner |-> u, updated |-> clock,
                                       deleted |-> FALSE, payload |-> Both(Edit)]]
    /\ offers' = [offers EXCEPT ![id] = {Version(focus'[id])}]
    /\ UNCHANGED <<clock, apps, event, req, done>>

Editable(u, id) == focus[id].owner = u /\ ~focus[id].deleted

\* Update: Get, then an UPDATE of every column from the copy and the request
PatchRead(s, u, id) ==
    /\ req[s].pc = "idle"
    /\ Editable(u, id)
    /\ req' = [req EXCEPT ![s] = [Idle EXCEPT !.pc = "patch", !.user = u, !.id = id,
                                              !.read = focus[id].payload]]
    /\ UNCHANGED <<clock, apps, event, focus, done, offers>>

PatchWrite(s, field) ==
    /\ req[s].pc = "patch"
    /\ LET id == req[s].id
       IN  IF Editable(req[s].user, id)
           THEN /\ focus' = [focus EXCEPT ![id].updated = clock,
                                ![id].payload = [req[s].read EXCEPT ![field] = Edit]]
                /\ offers' = [offers EXCEPT ![id] = {Version(focus'[id])}]
           ELSE UNCHANGED <<focus, offers>>
    /\ req' = [req EXCEPT ![s] = Idle]
    /\ UNCHANGED <<clock, apps, event, done>>

DeleteFocus(u, id) ==
    /\ Editable(u, id)
    /\ focus' = [focus EXCEPT ![id].deleted = TRUE, ![id].updated = clock]
    /\ offers' = [offers EXCEPT ![id] = {Version(focus'[id])}]
    /\ UNCHANGED <<clock, apps, event, req, done>>

\* A database error or a cancelled request: what was applied stays
FailRequest(s) ==
    /\ req[s].pc # "idle"
    /\ req' = [req EXCEPT ![s] = Idle]
    /\ UNCHANGED <<clock, apps, event, focus, done, offers>>

-----------------------------------------------------------------------------
Push(s) ==
    \/ \E d \in Devices : \E b \in Outbox[d] : StartPush(s, d, b)
    \/ StartItem(s) \/ FinishPush(s)
    \/ ResolveApp(s) \/ InsertEvent(s) \/ TombstoneEvent(s)
    \/ StampFocus(s) \/ UpsertFocus(s) \/ LookupFocus(s) \/ ConstraintViolation(s)

Rest(s) ==
    \/ \E u \in Users, id \in FocusIds : PatchRead(s, u, id)
    \/ \E field \in {"status", "note"} : PatchWrite(s, field)

Next ==
    \/ Tick
    \/ \E s \in Sessions : Push(s) \/ Rest(s) \/ FailRequest(s)
    \/ \E u \in Users, id \in FocusIds : CreateFocus(u, id) \/ DeleteFocus(u, id)

Spec == Init /\ [][Next]_vars

-----------------------------------------------------------------------------
(* Properties.                                                             *)

\* Activity events do not depend on the order, the number or the overlap of
\* the pushes that carry them: an event with a result is there, one with a
\* tombstone result is deleted for good, and nothing is deleted that no
\* tombstone was pushed for.
EventsConverge ==
    /\ \A i \in done : event[i.id] # "absent" /\ (i.deleted => event[i.id] = "deleted")
    /\ \A e \in Events : event[e] = "deleted" =>
           \E i \in done : i.id = e /\ i.deleted

\* Last write wins: among everything offered for a focus session since the
\* last direct edit, and that edit, the row holds one with the largest
\* updated_at, whole.
LastWriteWins ==
    \A id \in FocusIds : Exists(id) =>
        /\ Version(focus[id]) \in offers[id]
        /\ \A v \in offers[id] : v.updated <= focus[id].updated

\* Tenant isolation of client-chosen ids: a row changes hands never, and a
\* step of a session changes only rows of the session's account.
OwnRowsOnly ==
    [][\A id \in FocusIds : Exists(id) /\ focus'[id] # focus[id] =>
          /\ focus'[id].owner = focus[id].owner
          /\ \A s \in Sessions : req'[s] # req[s] => req[s].user = focus[id].owner]_vars

-----------------------------------------------------------------------------
(* The inductive invariant: what makes them survive every step.            *)

Request == [pc : {"idle", "item", "app", "insert", "tombstone", "stamp", "upsert",
                  "lookup", "patch"},
            user : Users \cup {NoUser}, batch : Seq(Item), index : Nat \ {0},
            stamp : Nat, id : FocusIds \cup {0}, read : Payload]
Offer == [updated : Nat, deleted : BOOLEAN, payload : Payload]

TypeOK ==
    /\ clock \in Nat
    /\ apps \subseteq Apps
    /\ event \in [Events -> {"absent", "present", "deleted"}]
    /\ focus \in [FocusIds -> Focus]
    /\ req \in [Sessions -> Request]
    /\ done \subseteq ValidEvent
    /\ offers \in [FocusIds -> SUBSET Offer]

\* A request acts for an account, on the kind of item it was dispatched for; a
\* tombstone is for an event that is there
ItemInHand ==
    \A s \in Sessions :
        /\ req[s].pc # "idle" => req[s].user \in Users
        /\ req[s].pc \in {"app", "insert", "tombstone"} => Current(s) \in ValidEvent
        /\ req[s].pc \in {"stamp", "upsert", "lookup"} => Current(s) \in ValidFocus
        /\ req[s].pc = "tombstone" =>
               Current(s).deleted /\ event[Current(s).id] # "absent"
        /\ req[s].pc = "patch" => req[s].id \in FocusIds

\* Whoever offers a version of a session that is not there creates it
OffersStored == \A id \in FocusIds : ~Exists(id) => offers[id] = {}

IInv ==
    /\ TypeOK
    /\ ItemInHand
    /\ EventsConverge
    /\ OffersStored /\ LastWriteWins
=============================================================================
