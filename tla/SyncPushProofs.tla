-------------------------- MODULE SyncPushProofs --------------------------
(***************************************************************************)
(* Proofs about SyncPush, for every set of accounts, devices, events and   *)
(* focus sessions, every outbox and any number of concurrent requests.     *)
(***************************************************************************)
EXTENDS SyncPush, TLAPS

(* Next, one disjunct per action.                                          *)
LEMMA NextCases ==
    ASSUME Next
    PROVE  \/ Tick
           \/ \E s \in Sessions :
                \/ \E d \in Devices : \E b \in Outbox[d] : StartPush(s, d, b)
                \/ StartItem(s) \/ FinishPush(s)
                \/ ResolveApp(s) \/ InsertEvent(s) \/ TombstoneEvent(s)
                \/ StampFocus(s) \/ UpsertFocus(s) \/ LookupFocus(s) \/ ConstraintViolation(s)
                \/ \E u \in Users, id \in FocusIds : PatchRead(s, u, id)
                \/ \E field \in {"status", "note"} : PatchWrite(s, field)
                \/ FailRequest(s)
           \/ \E u \in Users, id \in FocusIds : CreateFocus(u, id) \/ DeleteFocus(u, id)
  BY DEF Next, Push, Rest

-----------------------------------------------------------------------------
(* Types.                                                                  *)

LEMMA IdleType == Idle \in Request
<1>1. Both(Edit) \in Payload /\ <<>> \in Seq(Item)
  BY DEF Both, Payload
<1> QED
  BY <1>1 DEF Idle, Request

LEMMA AdvanceType ==
    ASSUME NEW r \in Request
    PROVE  /\ Advance(r) \in Request /\ Advance(r).pc = "item"
           /\ Advance(r).user = r.user
<1>1. r.index + 1 \in Nat \ {0}
  BY DEF Request
<1>2. ASSUME NEW n \in Nat \ {0}
      PROVE  LET a == [r EXCEPT !.pc = "item", !.index = n, !.stamp = 0]
             IN  a \in Request /\ a.pc = "item" /\ a.user = r.user
  BY DEF Request
<1> QED
  BY <1>1, <1>2 DEF Advance

\* The item a session is at, by its type
LEMMA ItemKinds ==
    ASSUME NEW i \in Item
    PROVE  /\ i.type = "event" => i \in ValidEvent
           /\ i.type = "focus" => i \in ValidFocus
<1>1. CASE i \in ValidEvent
  BY <1>1 DEF ValidEvent
<1>2. CASE i \in ValidFocus
  BY <1>2 DEF ValidFocus
<1>3. CASE i \in Invalid
  BY <1>3 DEF Invalid
<1> QED
  BY <1>1, <1>2, <1>3 DEF Item

LEMMA CurrentItem ==
    ASSUME TypeOK, NEW s \in Sessions, req[s].index <= Len(req[s].batch)
    PROVE  Current(s) \in Item
<1>1. req[s].batch \in Seq(Item) /\ req[s].index \in Nat \ {0}
  BY DEF TypeOK, Request
<1>2. req[s].index \in 1..Len(req[s].batch)
  BY <1>1
<1> QED
  BY <1>1, <1>2 DEF Current

\* What a step leaves of the requests, the events and the focus sessions
LEMMA RequestStep ==
    ASSUME TypeOK, [Next]_vars
    PROVE  \/ req' = req
           \/ \E s \in Sessions :
                \/ \E d \in Devices : \E b \in Outbox[d] : StartPush(s, d, b)
                \/ StartItem(s) \/ FinishPush(s)
                \/ ResolveApp(s) \/ InsertEvent(s) \/ TombstoneEvent(s)
                \/ StampFocus(s) \/ UpsertFocus(s) \/ LookupFocus(s) \/ ConstraintViolation(s)
                \/ \E u \in Users, id \in FocusIds : PatchRead(s, u, id)
                \/ \E field \in {"status", "note"} : PatchWrite(s, field)
                \/ FailRequest(s)
  BY NextCases DEF vars, Tick, CreateFocus, DeleteFocus

LEMMA EventStep ==
    ASSUME [Next]_vars
    PROVE  \/ UNCHANGED <<event, done>>
           \/ \E s \in Sessions : InsertEvent(s) \/ TombstoneEvent(s)
  BY NextCases DEF vars, Tick, StartPush, StartItem, FinishPush, ResolveApp, StampFocus,
     UpsertFocus, LookupFocus, ConstraintViolation, PatchRead, PatchWrite, FailRequest,
     CreateFocus, DeleteFocus

LEMMA FocusStep ==
    ASSUME [Next]_vars
    PROVE  \/ UNCHANGED <<focus, offers>>
           \/ \E s \in Sessions :
                UpsertFocus(s) \/ \E field \in {"status", "note"} : PatchWrite(s, field)
           \/ \E u \in Users, id \in FocusIds : CreateFocus(u, id) \/ DeleteFocus(u, id)
  BY NextCases DEF vars, Tick, StartPush, StartItem, FinishPush, ResolveApp, StampFocus,
     InsertEvent, TombstoneEvent, LookupFocus, ConstraintViolation, PatchRead, FailRequest

\* How a request goes on: idle again, at the next item, or as its action says
LEMMA RequestAfter ==
    ASSUME TypeOK, ItemInHand, NEW s \in Sessions
    PROVE  /\ \A d \in Devices : \A b \in Outbox[d] : StartPush(s, d, b) =>
                req' = [req EXCEPT ![s] = [Idle EXCEPT !.pc = "item", !.user = UserOf[d],
                                                       !.batch = b]]
           /\ StartItem(s) =>
                \/ req' = [req EXCEPT ![s] = Advance(req[s])]
                \/ /\ Current(s) \in ValidEvent
                   /\ req' = [req EXCEPT ![s] = [req[s] EXCEPT !.pc = "app"]]
                \/ /\ Current(s) \in ValidFocus
                   /\ req' = [req EXCEPT ![s] = [req[s] EXCEPT !.pc = "stamp"]]
           /\ ResolveApp(s) => req' = [req EXCEPT ![s] = [req[s] EXCEPT !.pc = "insert"]]
           /\ InsertEvent(s) =>
                \/ req' = [req EXCEPT ![s] = Advance(req[s])]
                \/ /\ Current(s).deleted /\ event[Current(s).id] # "absent"
                   /\ req' = [req EXCEPT ![s] = [req[s] EXCEPT !.pc = "tombstone"]]
           /\ StampFocus(s) =>
                req' = [req EXCEPT ![s] = [req[s] EXCEPT !.pc = "upsert",
                                             !.stamp = IF Skewed(Current(s).updated)
                                                       THEN clock ELSE Current(s).updated]]
           /\ UpsertFocus(s) =>
                \/ req' = [req EXCEPT ![s] = Advance(req[s])]
                \/ req' = [req EXCEPT ![s] = [req[s] EXCEPT !.pc = "lookup"]]
           /\ TombstoneEvent(s) \/ LookupFocus(s) \/ ConstraintViolation(s) =>
                req' = [req EXCEPT ![s] = Advance(req[s])]
           /\ \A u \in Users, id \in FocusIds : PatchRead(s, u, id) =>
                req' = [req EXCEPT ![s] = [Idle EXCEPT !.pc = "patch", !.user = u, !.id = id,
                                                       !.read = focus[id].payload]]
           /\ \A field : PatchWrite(s, field) => req' = [req EXCEPT ![s] = Idle]
           /\ FinishPush(s) \/ FailRequest(s) => req' = [req EXCEPT ![s] = Idle]
<1>0. req \in [Sessions -> Request]
  BY DEF TypeOK
<1>1. ASSUME StartItem(s)
      PROVE  \/ req' = [req EXCEPT ![s] = Advance(req[s])]
             \/ /\ Current(s) \in ValidEvent
                /\ req' = [req EXCEPT ![s] = [req[s] EXCEPT !.pc = "app"]]
             \/ /\ Current(s) \in ValidFocus
                /\ req' = [req EXCEPT ![s] = [req[s] EXCEPT !.pc = "stamp"]]
  <2>1. Current(s) \in Item
    BY <1>1, CurrentItem DEF StartItem
  <2> QED
    BY <1>0, <1>1, <2>1, ItemKinds DEF StartItem
<1>2. InsertEvent(s) =>
        \/ req' = [req EXCEPT ![s] = Advance(req[s])]
        \/ /\ Current(s).deleted /\ event[Current(s).id] # "absent"
           /\ req' = [req EXCEPT ![s] = [req[s] EXCEPT !.pc = "tombstone"]]
  BY <1>0 DEF InsertEvent, TombstoneDue
<1>3. UpsertFocus(s) =>
        \/ req' = [req EXCEPT ![s] = Advance(req[s])]
        \/ req' = [req EXCEPT ![s] = [req[s] EXCEPT !.pc = "lookup"]]
  BY <1>0 DEF UpsertFocus
<1>4. ResolveApp(s) => req' = [req EXCEPT ![s] = [req[s] EXCEPT !.pc = "insert"]]
  BY <1>0 DEF ResolveApp
<1>5. StampFocus(s) =>
        req' = [req EXCEPT ![s] = [req[s] EXCEPT !.pc = "upsert",
                                     !.stamp = IF Skewed(Current(s).updated)
                                               THEN clock ELSE Current(s).updated]]
  BY <1>0 DEF StampFocus
<1>6. TombstoneEvent(s) \/ LookupFocus(s) \/ ConstraintViolation(s) =>
        req' = [req EXCEPT ![s] = Advance(req[s])]
  BY <1>0 DEF TombstoneEvent, LookupFocus, ConstraintViolation
<1> QED
  BY <1>1, <1>2, <1>3, <1>4, <1>5, <1>6 DEF StartPush, PatchRead, PatchWrite, FinishPush, FailRequest

LEMMA RequestTypes ==
    ASSUME TypeOK, ItemInHand, [Next]_vars
    PROVE  req' \in [Sessions -> Request]
<1>0. req \in [Sessions -> Request] /\ clock \in Nat
  BY DEF TypeOK
<1>1. ASSUME NEW s \in Sessions, NEW r \in Request, req' = [req EXCEPT ![s] = r]
      PROVE  req' \in [Sessions -> Request]
  BY <1>0, <1>1
<1>2. ASSUME NEW s \in Sessions
      PROVE  Advance(req[s]) \in Request /\ Idle \in Request
  BY <1>0, AdvanceType, IdleType
<1>3. ASSUME NEW s \in Sessions, NEW p \in {"app", "insert", "tombstone", "stamp", "lookup"}
      PROVE  [req[s] EXCEPT !.pc = p] \in Request
  BY <1>0 DEF Request
<1>4. ASSUME NEW s \in Sessions, NEW d \in Devices, NEW b \in Outbox[d], StartPush(s, d, b)
      PROVE  req' \in [Sessions -> Request]
  <2>1. UserOf[d] \in Users /\ b \in Seq(Item)
    BY PushAssumption
  <2>2. [Idle EXCEPT !.pc = "item", !.user = UserOf[d], !.batch = b] \in Request
    BY <2>1, IdleType DEF Request
  <2>3. req' = [req EXCEPT ![s] = [Idle EXCEPT !.pc = "item", !.user = UserOf[d], !.batch = b]]
    BY <1>4 DEF StartPush
  <2> QED
    BY <1>1, <2>2, <2>3
<1>5. ASSUME NEW s \in Sessions, StampFocus(s) PROVE req' \in [Sessions -> Request]
  <2>1. Current(s) \in ValidFocus
    BY <1>5 DEF StampFocus, ItemInHand
  <2>2. (IF Skewed(Current(s).updated) THEN clock ELSE Current(s).updated) \in Nat
    BY <1>0, <2>1 DEF ValidFocus
  <2>3. ASSUME NEW n \in Nat PROVE [req[s] EXCEPT !.pc = "upsert", !.stamp = n] \in Request
    BY <1>0 DEF Request
  <2>4. req' = [req EXCEPT ![s] = [req[s] EXCEPT !.pc = "upsert",
                                       !.stamp = IF Skewed(Current(s).updated)
                                                 THEN clock ELSE Current(s).updated]]
    BY <1>5, RequestAfter
  <2> QED
    BY <1>1, <2>2, <2>3, <2>4
<1>6. ASSUME NEW s \in Sessions, NEW u \in Users, NEW id \in FocusIds, PatchRead(s, u, id)
      PROVE  req' \in [Sessions -> Request]
  <2>1. focus[id].payload \in Payload
    BY DEF TypeOK, Focus
  <2>2. [Idle EXCEPT !.pc = "patch", !.user = u, !.id = id, !.read = focus[id].payload] \in Request
    BY <2>1, IdleType DEF Request
  <2>3. req' = [req EXCEPT ![s] = [Idle EXCEPT !.pc = "patch", !.user = u, !.id = id,
                                              !.read = focus[id].payload]]
    BY <1>6 DEF PatchRead
  <2> QED
    BY <1>1, <2>2, <2>3
<1>7. ASSUME NEW s \in Sessions, StartItem(s) \/ ResolveApp(s) \/ InsertEvent(s) \/ UpsertFocus(s)
      PROVE  req' \in [Sessions -> Request]
  <2>1. \/ req' = [req EXCEPT ![s] = Advance(req[s])]
        \/ \E p \in {"app", "insert", "tombstone", "stamp", "lookup"} :
              req' = [req EXCEPT ![s] = [req[s] EXCEPT !.pc = p]]
    BY <1>7, RequestAfter
  <2> QED
    BY <1>1, <1>2, <1>3, <2>1
<1>8. ASSUME NEW s \in Sessions,
             \/ TombstoneEvent(s) \/ LookupFocus(s) \/ ConstraintViolation(s)
             \/ FinishPush(s) \/ FailRequest(s)
             \/ \E field \in {"status", "note"} : PatchWrite(s, field)
      PROVE  req' \in [Sessions -> Request]
  <2>1. req' = [req EXCEPT ![s] = Advance(req[s])] \/ req' = [req EXCEPT ![s] = Idle]
    BY <1>8, RequestAfter
  <2> QED
    BY <1>1, <1>2, <2>1
<1> QED
  BY <1>0, <1>4, <1>5, <1>6, <1>7, <1>8, RequestStep

\* A focus session's row, with the fields a statement sets
LEMMA FocusRows ==
    ASSUME NEW row \in Focus, NEW u \in Users, NEW t \in Nat, NEW del \in BOOLEAN,
           NEW p \in Payload
    PROVE  /\ [owner |-> u, updated |-> t, deleted |-> del, payload |-> p] \in Focus
           /\ [row EXCEPT !.updated = t, !.payload = p] \in Focus
           /\ [row EXCEPT !.updated = t, !.payload = p].owner = row.owner
           /\ [row EXCEPT !.deleted = TRUE, !.updated = t] \in Focus
           /\ [row EXCEPT !.deleted = TRUE, !.updated = t].owner = row.owner
           /\ Version(row) \in Offer
           /\ Version(row).updated = row.updated
  BY DEF Focus, Offer, Version

LEMMA Payloads ==
    ASSUME NEW p \in Payload, NEW field \in {"status", "note"}, NEW v \in Tags \cup {Edit}
    PROVE  Both(v) \in Payload /\ [p EXCEPT ![field] = Edit] \in Payload
  BY DEF Both, Payload

\* What each statement does to the focus session it is about
LEMMA UpsertAfter ==
    ASSUME TypeOK, ItemInHand, NEW s \in Sessions, UpsertFocus(s)
    PROVE  \E id \in FocusIds, row \in Focus :
              /\ row.owner = req[s].user /\ row.owner \in Users
              /\ \/ focus' = [focus EXCEPT ![id] = row] /\ (~Exists(id) \/ Wins(focus[id], row.owner, row.updated))
                 \/ /\ focus' = focus /\ Exists(id)
                    /\ focus[id].owner = row.owner => row.updated <= focus[id].updated
              /\ offers' = IF Exists(id) /\ focus[id].owner # row.owner THEN offers
                           ELSE [offers EXCEPT ![id] = @ \cup {Version(row)}]
<1> DEFINE i == Current(s)
           r == req[s]
           row == [owner |-> r.user, updated |-> r.stamp, deleted |-> i.deleted,
                   payload |-> Both(i.tag)]
           applies == ~Exists(i.id) \/ Wins(focus[i.id], r.user, r.stamp)
<1>1. /\ i.id \in FocusIds /\ i.deleted \in BOOLEAN /\ Both(i.tag) \in Payload
      /\ r.user \in Users /\ r.stamp \in Nat
  <2>1. i \in ValidFocus /\ r.user \in Users /\ r \in Request
    BY DEF UpsertFocus, ItemInHand, TypeOK
  <2>2. i.id \in FocusIds /\ i.deleted \in BOOLEAN /\ i.tag \in Tags
    BY <2>1 DEF ValidFocus
  <2>3. Both(i.tag) \in Payload
    BY <2>2 DEF Both, Payload
  <2> QED
    BY <2>1, <2>2, <2>3 DEF Request
<1>2. row \in Focus
  BY <1>1 DEF Focus
<1>3. /\ focus' = IF applies THEN [focus EXCEPT ![i.id] = row] ELSE focus
      /\ offers' = IF Exists(i.id) /\ focus[i.id].owner # r.user THEN offers
                   ELSE [offers EXCEPT ![i.id] = @ \cup {Version(row)}]
  BY DEF UpsertFocus
<1>4. row.owner = r.user /\ row.updated = r.stamp
  OBVIOUS
<1>5. focus[i.id].updated \in Nat
  BY <1>1 DEF TypeOK, Focus
<1>6. ~applies => Exists(i.id) /\ (focus[i.id].owner = r.user => r.stamp <= focus[i.id].updated)
  BY <1>1, <1>5 DEF Wins
<1>7. PICK id \in FocusIds : id = i.id
  BY <1>1
<1>8. PICK w \in Focus : w = row
  BY <1>2
<1> HIDE DEF row
<1>9. w.owner = r.user /\ w.updated = r.stamp
  BY <1>4, <1>8
<1> QED
  BY <1>1, <1>3, <1>6, <1>7, <1>8, <1>9

LEMMA FocusTypes ==
    ASSUME TypeOK, ItemInHand, [Next]_vars
    PROVE  focus' \in [FocusIds -> Focus] /\ offers' \in [FocusIds -> SUBSET Offer]
<1>0. /\ focus \in [FocusIds -> Focus] /\ offers \in [FocusIds -> SUBSET Offer]
      /\ req \in [Sessions -> Request] /\ clock \in Nat
  BY DEF TypeOK
<1>1. ASSUME NEW s \in Sessions, UpsertFocus(s)
      PROVE  focus' \in [FocusIds -> Focus] /\ offers' \in [FocusIds -> SUBSET Offer]
  <2>1. PICK id \in FocusIds, row \in Focus :
           /\ focus' = [focus EXCEPT ![id] = row] \/ focus' = focus
           /\ offers' = [offers EXCEPT ![id] = @ \cup {Version(row)}] \/ offers' = offers
    BY <1>1, UpsertAfter
  <2>2. Version(row) \in Offer
    BY DEF Version, Focus, Offer
  <2> QED
    BY <1>0, <2>1, <2>2
<1>2. ASSUME NEW id \in FocusIds, NEW row \in Focus,
             focus' = [focus EXCEPT ![id] = row],
             offers' = [offers EXCEPT ![id] = {Version(focus'[id])}]
      PROVE  focus' \in [FocusIds -> Focus] /\ offers' \in [FocusIds -> SUBSET Offer]
  <2>1. focus'[id] = row /\ Version(row) \in Offer
    BY <1>0, <1>2 DEF Version, Focus, Offer
  <2> QED
    BY <1>0, <1>2, <2>1
<1>3. ASSUME NEW s \in Sessions, NEW field \in {"status", "note"}, PatchWrite(s, field)
      PROVE  focus' \in [FocusIds -> Focus] /\ offers' \in [FocusIds -> SUBSET Offer]
  <2> DEFINE id == req[s].id
             p == [req[s].read EXCEPT ![field] = Edit]
  <2>1. id \in FocusIds /\ p \in Payload
    BY <1>0, <1>3, Payloads DEF PatchWrite, ItemInHand, Request
  <2>2. [focus[id] EXCEPT !.updated = clock, !.payload = p] \in Focus
    BY <1>0, <2>1 DEF Focus
  <2>3. \/ UNCHANGED <<focus, offers>>
        \/ /\ focus' = [focus EXCEPT ![id] = [focus[id] EXCEPT !.updated = clock, !.payload = p]]
           /\ offers' = [offers EXCEPT ![id] = {Version(focus'[id])}]
    BY <1>0, <1>3, <2>1 DEF PatchWrite
  <2> QED
    BY <1>0, <1>2, <2>1, <2>2, <2>3
<1>4. ASSUME NEW u \in Users, NEW id \in FocusIds, CreateFocus(u, id)
      PROVE  focus' \in [FocusIds -> Focus] /\ offers' \in [FocusIds -> SUBSET Offer]
  <2>1. Both(Edit) \in Payload
    BY DEF Both, Payload
  <2>2. [owner |-> u, updated |-> clock, deleted |-> FALSE, payload |-> Both(Edit)] \in Focus
    BY <1>0, <2>1 DEF Focus
  <2> QED
    BY <1>2, <1>4, <2>2 DEF CreateFocus
<1>5. ASSUME NEW u \in Users, NEW id \in FocusIds, DeleteFocus(u, id)
      PROVE  focus' \in [FocusIds -> Focus] /\ offers' \in [FocusIds -> SUBSET Offer]
  <2>1. [focus[id] EXCEPT !.deleted = TRUE, !.updated = clock] \in Focus
    BY <1>0 DEF Focus
  <2>2. focus' = [focus EXCEPT ![id] = [focus[id] EXCEPT !.deleted = TRUE, !.updated = clock]]
    BY <1>0, <1>5 DEF DeleteFocus
  <2> QED
    BY <1>2, <1>5, <2>1, <2>2 DEF DeleteFocus
<1> QED
  BY <1>0, <1>1, <1>3, <1>4, <1>5, FocusStep

\* What the event statements do to the event they are about
LEMMA EventAfter ==
    ASSUME TypeOK, ItemInHand, NEW s \in Sessions, InsertEvent(s) \/ TombstoneEvent(s)
    PROVE  \E i \in ValidEvent :
              /\ i = Current(s)
              /\ \/ event' = event /\ event[i.id] # "absent"
                 \/ /\ event[i.id] = "absent"
                    /\ event' = [event EXCEPT ![i.id] = IF i.deleted THEN "deleted" ELSE "present"]
                    /\ done' = done \cup {i}
                 \/ i.deleted /\ event' = [event EXCEPT ![i.id] = "deleted"] /\ done' = done \cup {i}
              /\ \/ done' = done
                 \/ done' = done \cup {i} /\ (event' = event => ~i.deleted \/ event[i.id] = "deleted")
<1>0. event \in [Events -> {"absent", "present", "deleted"}]
  BY DEF TypeOK
<1>1. Current(s) \in ValidEvent
  BY DEF InsertEvent, TombstoneEvent, ItemInHand
<1>2. PICK i \in ValidEvent : i = Current(s)
  BY <1>1
<1>3. i.id \in Events /\ i.deleted \in BOOLEAN
  BY DEF ValidEvent
<1>4. CASE InsertEvent(s) /\ event[i.id] = "absent"
  <2>1. event' = [event EXCEPT ![i.id] = IF i.deleted THEN "deleted" ELSE "present"]
        /\ done' = done \cup {i}
    BY <1>2, <1>4 DEF InsertEvent
  <2>2. event' # event
    BY <1>0, <1>3, <1>4, <2>1
  <2> QED
    BY <1>2, <1>4, <2>1, <2>2
<1>5. CASE InsertEvent(s) /\ event[i.id] # "absent"
  <2>1. event' = event
    BY <1>2, <1>5 DEF InsertEvent
  <2>2. ~TombstoneDue(s) => done' = done \cup {i}
    BY <1>2, <1>5 DEF InsertEvent
  <2>3. TombstoneDue(s) => done' = done
    BY <1>2, <1>5 DEF InsertEvent
  <2>4. TombstoneDue(s) <=> i.deleted
    BY <1>2 DEF TombstoneDue
  <2> QED
    BY <1>2, <1>5, <2>1, <2>2, <2>3, <2>4
<1>6. CASE TombstoneEvent(s)
  <2>1. event' = [event EXCEPT ![i.id] = "deleted"] /\ done' = done \cup {i} /\ i.deleted
    BY <1>2, <1>6 DEF TombstoneEvent, ItemInHand
  <2>2. event' = event => event[i.id] = "deleted"
    BY <1>0, <1>3, <2>1
  <2> QED
    BY <1>2, <2>1, <2>2
<1> QED
  BY <1>4, <1>5, <1>6

LEMMA EventTypes ==
    ASSUME TypeOK, ItemInHand, [Next]_vars
    PROVE  event' \in [Events -> {"absent", "present", "deleted"}] /\ done' \subseteq ValidEvent
<1>0. event \in [Events -> {"absent", "present", "deleted"}] /\ done \subseteq ValidEvent
  BY DEF TypeOK
<1>1. ASSUME NEW s \in Sessions, InsertEvent(s) \/ TombstoneEvent(s)
      PROVE  event' \in [Events -> {"absent", "present", "deleted"}] /\ done' \subseteq ValidEvent
  <2>1. PICK i \in ValidEvent :
           /\ \/ event' = event
              \/ \E v \in {"present", "deleted"} : event' = [event EXCEPT ![i.id] = v]
           /\ done' = done \/ done' = done \cup {i}
    <3>1. PICK i \in ValidEvent :
             /\ \/ event' = event
                \/ event' = [event EXCEPT ![i.id] = IF i.deleted THEN "deleted" ELSE "present"]
                \/ event' = [event EXCEPT ![i.id] = "deleted"]
             /\ done' = done \/ done' = done \cup {i}
      BY <1>1, EventAfter
    <3>2. (IF i.deleted THEN "deleted" ELSE "present") \in {"present", "deleted"}
      OBVIOUS
    <3> QED
      BY <3>1, <3>2
  <2> QED
    BY <1>0, <2>1
<1> QED
  BY <1>0, <1>1, EventStep

LEMMA TypeNext ==
    ASSUME TypeOK, ItemInHand, [Next]_vars
    PROVE  TypeOK'
<1>1. clock' \in Nat
  <2>1. clock \in Nat
    BY DEF TypeOK
  <2>2. clock' = clock \/ clock' = clock + 1
    BY NextCases DEF vars, Tick, StartPush, StartItem, FinishPush, ResolveApp, StampFocus,
       UpsertFocus, InsertEvent, TombstoneEvent, LookupFocus, ConstraintViolation, PatchRead,
       PatchWrite, FailRequest, CreateFocus, DeleteFocus
  <2> QED
    BY <2>1, <2>2
<1>2. apps' \subseteq Apps
  <2>1. \/ apps' = apps
        \/ \E s \in Sessions : ResolveApp(s)
    BY NextCases DEF vars, Tick, StartPush, StartItem, FinishPush, StampFocus,
       UpsertFocus, InsertEvent, TombstoneEvent, LookupFocus, ConstraintViolation, PatchRead,
       PatchWrite, FailRequest, CreateFocus, DeleteFocus
  <2>2. ASSUME NEW s \in Sessions, ResolveApp(s) PROVE apps' \subseteq Apps
    <3>1. Current(s) \in ValidEvent /\ apps' = apps \cup {Current(s).app}
      BY <2>2 DEF ResolveApp, ItemInHand
    <3>2. Current(s).app \in Apps
      BY <3>1 DEF ValidEvent
    <3> QED
      BY <3>1, <3>2 DEF TypeOK
  <2> QED
    BY <2>1, <2>2 DEF TypeOK
<1> QED
  BY <1>1, <1>2, RequestTypes, FocusTypes, EventTypes DEF TypeOK

-----------------------------------------------------------------------------
(* The conjuncts of IInv, one lemma each.                                  *)

\* An event that is there never disappears, and a deleted one stays deleted
LEMMA EventsForward ==
    ASSUME TypeOK, ItemInHand, [Next]_vars, NEW e \in Events
    PROVE  /\ event[e] # "absent" => event'[e] # "absent"
           /\ event[e] = "deleted" => event'[e] = "deleted"
<1>0. event \in [Events -> {"absent", "present", "deleted"}]
  BY DEF TypeOK
<1>1. ASSUME NEW s \in Sessions, InsertEvent(s) \/ TombstoneEvent(s)
      PROVE  /\ event[e] # "absent" => event'[e] # "absent"
             /\ event[e] = "deleted" => event'[e] = "deleted"
  <2>1. PICK i \in ValidEvent :
           \/ event' = event
           \/ /\ event[i.id] = "absent"
              /\ event' = [event EXCEPT ![i.id] = IF i.deleted THEN "deleted" ELSE "present"]
           \/ event' = [event EXCEPT ![i.id] = "deleted"]
    BY <1>1, EventAfter
  <2> QED
    BY <1>0, <2>1
<1> QED
  BY <1>1, EventStep

LEMMA ItemInHandNext ==
    ASSUME TypeOK, ItemInHand, [Next]_vars
    PROVE  ItemInHand'
<1>0. /\ req \in [Sessions -> Request]
      /\ \A s \in Sessions : req[s] \in Request
  BY DEF TypeOK
<1> DEFINE InHand(s, r, i) ==
              /\ r.pc # "idle" => r.user \in Users
              /\ r.pc \in {"app", "insert", "tombstone"} => i \in ValidEvent
              /\ r.pc \in {"stamp", "upsert", "lookup"} => i \in ValidFocus
              /\ r.pc = "tombstone" => i.deleted /\ event'[i.id] # "absent"
              /\ r.pc = "patch" => r.id \in FocusIds
<1>1. ASSUME NEW s \in Sessions PROVE InHand(s, req[s], Current(s))
  <2>1. Current(s) \in ValidEvent => Current(s).id \in Events
    BY DEF ValidEvent
  <2>2. req[s].pc = "tombstone" => event'[Current(s).id] # "absent"
    BY <2>1, EventsForward DEF ItemInHand
  <2> QED
    BY <2>2 DEF ItemInHand
<1>2. ASSUME NEW s \in Sessions, NEW t \in Sessions, NEW r, req' = [req EXCEPT ![t] = r],
             InHand(t, r, r.batch[r.index])
      PROVE  InHand(s, req'[s], req'[s].batch[req'[s].index])
  <2>1. CASE s = t
    BY <1>0, <1>2, <2>1
  <2>2. CASE s # t
    <3>1. req'[s] = req[s] /\ Current(s) = req[s].batch[req[s].index]
      BY <1>0, <1>2, <2>2 DEF Current
    <3> HIDE DEF InHand
    <3> QED
      BY <1>1, <3>1
  <2> QED
    BY <2>1, <2>2
<1>3. ASSUME NEW t \in Sessions, NEW i
      PROVE  /\ req[t].user \in Users => InHand(t, Advance(req[t]), i)
             /\ InHand(t, Idle, i)
  BY <1>0, AdvanceType DEF Idle
<1>4. ASSUME NEW t \in Sessions, req[t].user \in Users,
             NEW p \in {"app", "insert", "tombstone", "stamp", "lookup"},
             p \in {"app", "insert", "tombstone"} => Current(t) \in ValidEvent,
             p \in {"stamp", "lookup"} => Current(t) \in ValidFocus,
             p = "tombstone" => Current(t).deleted /\ event'[Current(t).id] # "absent"
      PROVE  LET r == [req[t] EXCEPT !.pc = p] IN InHand(t, r, r.batch[r.index])
  <2> DEFINE r == [req[t] EXCEPT !.pc = p]
  <2>1. r.pc = p /\ r.user = req[t].user /\ r.batch = req[t].batch /\ r.index = req[t].index
    BY <1>0 DEF Request
  <2>2. r.batch[r.index] = Current(t)
    BY <2>1 DEF Current
  <2> HIDE DEF r
  <2>3. InHand(t, r, Current(t))
    BY <1>4, <2>1
  <2> QED
    BY <2>2, <2>3 DEF r
<1> HIDE DEF InHand
<1>5. SUFFICES ASSUME NEW s \in Sessions
               PROVE  InHand(s, req'[s], req'[s].batch[req'[s].index])
  BY DEF InHand, ItemInHand, Current
<1>6. CASE req' = req
  BY <1>1, <1>6 DEF Current
<1>7. ASSUME NEW t \in Sessions, req[t].pc # "idle" PROVE req[t].user \in Users
  BY <1>7 DEF ItemInHand
<1>8. ASSUME NEW t \in Sessions, StartItem(t) \/ ResolveApp(t) \/ InsertEvent(t) \/ UpsertFocus(t)
      PROVE  InHand(s, req'[s], req'[s].batch[req'[s].index])
  <2>1. req[t].user \in Users
    BY <1>7, <1>8 DEF StartItem, ResolveApp, InsertEvent, UpsertFocus
  <2>2. CASE req' = [req EXCEPT ![t] = Advance(req[t])]
    BY <1>2, <1>3, <2>1, <2>2
  <2>3. ASSUME NEW p \in {"app", "insert", "tombstone", "stamp", "lookup"},
               p \in {"app", "insert", "tombstone"} => Current(t) \in ValidEvent,
               p \in {"stamp", "lookup"} => Current(t) \in ValidFocus,
               p = "tombstone" => Current(t).deleted /\ event'[Current(t).id] # "absent",
               req' = [req EXCEPT ![t] = [req[t] EXCEPT !.pc = p]]
        PROVE  InHand(s, req'[s], req'[s].batch[req'[s].index])
    BY <1>2, <1>4, <2>1, <2>3
  <2>4. CASE StartItem(t)
    BY <2>2, <2>3, <2>4, RequestAfter
  <2>5. CASE ResolveApp(t)
    <3>1. Current(t) \in ValidEvent
      BY <2>5 DEF ResolveApp, ItemInHand
    <3> QED
      BY <2>3, <2>5, <3>1, RequestAfter
  <2>6. CASE InsertEvent(t)
    <3>1. Current(t) \in ValidEvent /\ Current(t).id \in Events
      BY <2>6 DEF InsertEvent, ItemInHand, ValidEvent
    <3> QED
      BY <2>2, <2>3, <2>6, <3>1, RequestAfter, EventsForward
  <2>7. CASE UpsertFocus(t)
    <3>1. Current(t) \in ValidFocus
      BY <2>7 DEF UpsertFocus, ItemInHand
    <3> QED
      BY <2>2, <2>3, <2>7, <3>1, RequestAfter
  <2> QED
    BY <1>8, <2>4, <2>5, <2>6, <2>7
<1>9. ASSUME NEW t \in Sessions, StampFocus(t)
      PROVE  InHand(s, req'[s], req'[s].batch[req'[s].index])
  <2>1. Current(t) \in ValidFocus /\ req[t].user \in Users
    BY <1>9 DEF StampFocus, ItemInHand
  <2> DEFINE n == IF Skewed(Current(t).updated) THEN clock ELSE Current(t).updated
  <2>2. req' = [req EXCEPT ![t] = [req[t] EXCEPT !.pc = "upsert", !.stamp = n]]
    BY <1>9, RequestAfter
  <2> HIDE DEF n
  <2> DEFINE r == [req[t] EXCEPT !.pc = "upsert", !.stamp = n]
  <2>3. r.pc = "upsert" /\ r.user = req[t].user /\ r.batch = req[t].batch /\ r.index = req[t].index
    BY <1>0 DEF Request
  <2>4. r.batch[r.index] = Current(t)
    BY <2>3 DEF Current
  <2>5. InHand(t, r, r.batch[r.index])
    <3> HIDE DEF r
    <3> QED
      BY <2>1, <2>3, <2>4 DEF InHand
  <2> QED
    BY <1>2, <2>2, <2>5
<1>10. ASSUME NEW t \in Sessions, TombstoneEvent(t) \/ LookupFocus(t) \/ ConstraintViolation(t)
       PROVE  InHand(s, req'[s], req'[s].batch[req'[s].index])
  <2>1. req[t].user \in Users
    BY <1>7, <1>10 DEF TombstoneEvent, LookupFocus, ConstraintViolation
  <2>2. req' = [req EXCEPT ![t] = Advance(req[t])]
    BY <1>10, RequestAfter
  <2> QED
    BY <1>2, <1>3, <2>1, <2>2
<1>11. ASSUME NEW t \in Sessions,
              \/ FinishPush(t) \/ FailRequest(t)
              \/ \E field \in {"status", "note"} : PatchWrite(t, field)
       PROVE  InHand(s, req'[s], req'[s].batch[req'[s].index])
  <2>1. req' = [req EXCEPT ![t] = Idle]
    BY <1>11, RequestAfter
  <2> QED
    BY <1>2, <1>3, <2>1
<1>12. ASSUME NEW t \in Sessions, NEW d \in Devices, NEW b \in Outbox[d], StartPush(t, d, b)
       PROVE  InHand(s, req'[s], req'[s].batch[req'[s].index])
  <2> DEFINE r == [Idle EXCEPT !.pc = "item", !.user = UserOf[d], !.batch = b]
  <2>1. r.pc = "item" /\ r.user \in Users
    BY PushAssumption DEF Idle
  <2>2. req' = [req EXCEPT ![t] = r]
    BY <1>12 DEF StartPush
  <2>3. InHand(t, r, r.batch[r.index])
    <3> HIDE DEF r
    <3> QED
      BY <2>1 DEF InHand
  <2> QED
    BY <1>2, <2>2, <2>3
<1>13. ASSUME NEW t \in Sessions, NEW u \in Users, NEW id \in FocusIds, PatchRead(t, u, id)
       PROVE  InHand(s, req'[s], req'[s].batch[req'[s].index])
  <2> DEFINE r == [Idle EXCEPT !.pc = "patch", !.user = u, !.id = id, !.read = focus[id].payload]
  <2>1. r.pc = "patch" /\ r.user = u /\ r.id = id
    BY DEF Idle
  <2>2. req' = [req EXCEPT ![t] = r]
    BY <1>13 DEF PatchRead
  <2>3. InHand(t, r, r.batch[r.index])
    <3> HIDE DEF r
    <3> QED
      BY <2>1 DEF InHand
  <2> QED
    BY <1>2, <2>2, <2>3
<1> QED
  BY <1>6, <1>8, <1>9, <1>10, <1>11, <1>12, <1>13, RequestStep

LEMMA EventsNext ==
    ASSUME IInv, [Next]_vars
    PROVE  EventsConverge'
<1>0. /\ TypeOK /\ ItemInHand /\ EventsConverge /\ done \subseteq ValidEvent
      /\ event \in [Events -> {"absent", "present", "deleted"}]
  BY DEF IInv, TypeOK
<1>1. \A i \in ValidEvent : i.id \in Events
  BY DEF ValidEvent
<1>2. ASSUME NEW i \in done PROVE event'[i.id] # "absent" /\ (i.deleted => event'[i.id] = "deleted")
  BY <1>0, <1>1, EventsForward DEF EventsConverge
<1>3. CASE UNCHANGED <<event, done>>
  BY <1>0, <1>3 DEF EventsConverge
<1>4. ASSUME NEW s \in Sessions, InsertEvent(s) \/ TombstoneEvent(s) PROVE EventsConverge'
  <2>1. PICK j \in ValidEvent :
           /\ \/ event' = event /\ event[j.id] # "absent"
              \/ /\ event[j.id] = "absent"
                 /\ event' = [event EXCEPT ![j.id] = IF j.deleted THEN "deleted" ELSE "present"]
                 /\ done' = done \cup {j}
              \/ j.deleted /\ event' = [event EXCEPT ![j.id] = "deleted"] /\ done' = done \cup {j}
           /\ \/ done' = done
              \/ done' = done \cup {j} /\ (event' = event => ~j.deleted \/ event[j.id] = "deleted")
    BY <1>0, <1>4, EventAfter
  <2>2. done' \in {done, done \cup {j}}
    BY <2>1
  <2>3. ASSUME done' = done \cup {j}
        PROVE  event'[j.id] # "absent" /\ (j.deleted => event'[j.id] = "deleted")
    <3>1. j.id \in Events
      BY <1>1
    <3>2. CASE event' = event
      <4>1. event[j.id] # "absent"
        BY <2>1, <3>1, <3>2, <1>0
      <4>2. ~j.deleted \/ event[j.id] = "deleted"
        BY <2>1, <2>3, <3>2, <1>2
      <4> QED
        BY <3>2, <4>1, <4>2, Zenon
    <3>3. CASE j.deleted /\ event' = [event EXCEPT ![j.id] = "deleted"]
      <4>1. event'[j.id] = "deleted"
        BY <1>0, <3>1, <3>3
      <4> QED
        BY <4>1
    <3>4. CASE event' = [event EXCEPT ![j.id] = IF j.deleted THEN "deleted" ELSE "present"]
      <4>1. event'[j.id] = IF j.deleted THEN "deleted" ELSE "present"
        BY <1>0, <3>1, <3>4
      <4>2. CASE j.deleted
        <5>1. event'[j.id] = "deleted"
          BY <4>1, <4>2, Zenon
        <5> QED
          BY <5>1
      <4>3. CASE ~j.deleted
        <5>1. event'[j.id] = "present"
          BY <4>1, <4>3, Zenon
        <5>2. event'[j.id] # "absent"
          BY <5>1
        <5> QED
          BY <4>3, <5>2, Zenon
      <4> QED
        BY <4>2, <4>3, Zenon
    <3> QED
      BY <2>1, <3>2, <3>3, <3>4, Zenon
  <2>4. \A i \in done' : event'[i.id] # "absent" /\ (i.deleted => event'[i.id] = "deleted")
    BY <1>2, <2>2, <2>3
  <2>5. ASSUME NEW e \in Events, event'[e] = "deleted" PROVE \E i \in done' : i.id = e /\ i.deleted
    <3>1. CASE event[e] = "deleted"
      BY <1>0, <2>2, <3>1 DEF EventsConverge
    <3>2. CASE event[e] # "deleted"
      BY <1>0, <1>1, <2>1, <2>5, <3>2
    <3> QED
      BY <3>1, <3>2
  <2> QED
    BY <2>4, <2>5 DEF EventsConverge
<1> QED
  BY <1>3, <1>4, EventStep

\* Storing a version no older than any offer, and offering it
LEMMA StoreKeeps ==
    ASSUME IInv, NEW id \in FocusIds, NEW row \in Focus, row.owner \in Users,
           focus' = [focus EXCEPT ![id] = row],
           \/ offers' = [offers EXCEPT ![id] = {Version(row)}]
           \/ /\ offers' = [offers EXCEPT ![id] = @ \cup {Version(row)}]
              /\ \A v \in offers[id] : v.updated <= row.updated
    PROVE  OffersStored' /\ LastWriteWins'
<1>0. /\ focus \in [FocusIds -> Focus] /\ offers \in [FocusIds -> SUBSET Offer]
      /\ OffersStored /\ LastWriteWins
  BY DEF IInv, TypeOK
<1>1. focus'[id] = row /\ \A f \in FocusIds \ {id} : focus'[f] = focus[f] /\ offers'[f] = offers[f]
  BY <1>0
<1>2. Version(row) \in offers'[id]
  BY <1>0
<1>3. \A v \in offers'[id] : v.updated <= row.updated
  <2>1. Version(row).updated = row.updated /\ row.updated \in Nat
    BY DEF Version, Focus
  <2> QED
    BY <1>0, <2>1
<1>4. row.owner # NoUser
  BY PushAssumption
<1> QED
  BY <1>0, <1>1, <1>2, <1>3, <1>4 DEF OffersStored, LastWriteWins, Exists

\* The direct edits replace all offers by the row they store
LEMMA EditAfter ==
    ASSUME TypeOK, ItemInHand,
           \/ \E s \in Sessions, field \in {"status", "note"} : PatchWrite(s, field)
           \/ \E u \in Users, id \in FocusIds : CreateFocus(u, id) \/ DeleteFocus(u, id)
    PROVE  \/ UNCHANGED <<focus, offers>>
           \/ \E id \in FocusIds, row \in Focus :
                /\ row.owner \in Users
                /\ focus' = [focus EXCEPT ![id] = row]
                /\ offers' = [offers EXCEPT ![id] = {Version(row)}]
                /\ Exists(id) => focus[id].owner = row.owner
<1>0. /\ focus \in [FocusIds -> Focus] /\ offers \in [FocusIds -> SUBSET Offer]
      /\ req \in [Sessions -> Request] /\ clock \in Nat
  BY DEF TypeOK
<1>1. ASSUME NEW id \in FocusIds, NEW row \in Focus, row.owner \in Users,
             focus' = [focus EXCEPT ![id] = row],
             offers' = [offers EXCEPT ![id] = {Version(focus'[id])}],
             Exists(id) => focus[id].owner = row.owner
      PROVE  \E f \in FocusIds, w \in Focus :
                /\ w.owner \in Users
                /\ focus' = [focus EXCEPT ![f] = w]
                /\ offers' = [offers EXCEPT ![f] = {Version(w)}]
                /\ Exists(f) => focus[f].owner = w.owner
  <2>1. focus'[id] = row
    BY <1>0, <1>1
  <2> QED
    BY <1>1, <2>1
<1>2. ASSUME NEW s \in Sessions, NEW field \in {"status", "note"}, PatchWrite(s, field),
             ~UNCHANGED <<focus, offers>>
      PROVE  \E f \in FocusIds, w \in Focus :
                /\ w.owner \in Users
                /\ focus' = [focus EXCEPT ![f] = w]
                /\ offers' = [offers EXCEPT ![f] = {Version(w)}]
                /\ Exists(f) => focus[f].owner = w.owner
  <2> DEFINE id == req[s].id
             p == [req[s].read EXCEPT ![field] = Edit]
             row == [focus[id] EXCEPT !.updated = clock, !.payload = p]
  <2>1. id \in FocusIds /\ p \in Payload /\ focus[id] \in Focus /\ req[s].user \in Users
    BY <1>0, <1>2, Payloads DEF PatchWrite, ItemInHand, Request
  <2>2. row \in Focus /\ row.owner = focus[id].owner
    BY <1>0, <2>1 DEF Focus
  <2>3. /\ focus' = [focus EXCEPT ![id] = row] /\ focus[id].owner = req[s].user
        /\ offers' = [offers EXCEPT ![id] = {Version(focus'[id])}]
    BY <1>0, <1>2, <2>1 DEF PatchWrite, Editable
  <2> HIDE DEF row, id
  <2> QED
    BY <1>1, <2>1, <2>2, <2>3
<1>3. ASSUME NEW u \in Users, NEW id \in FocusIds, CreateFocus(u, id)
      PROVE  \E f \in FocusIds, w \in Focus :
                /\ w.owner \in Users
                /\ focus' = [focus EXCEPT ![f] = w]
                /\ offers' = [offers EXCEPT ![f] = {Version(w)}]
                /\ Exists(f) => focus[f].owner = w.owner
  <2> DEFINE row == [owner |-> u, updated |-> clock, deleted |-> FALSE, payload |-> Both(Edit)]
  <2>1. row \in Focus /\ row.owner = u
    <3>1. Both(Edit) \in Payload
      BY DEF Both, Payload
    <3> QED
      BY <1>0, <3>1 DEF Focus
  <2>2. focus' = [focus EXCEPT ![id] = row] /\ ~Exists(id)
        /\ offers' = [offers EXCEPT ![id] = {Version(focus'[id])}]
    BY <1>3 DEF CreateFocus
  <2> HIDE DEF row
  <2> QED
    BY <1>1, <2>1, <2>2
<1>4. ASSUME NEW u \in Users, NEW id \in FocusIds, DeleteFocus(u, id)
      PROVE  \E f \in FocusIds, w \in Focus :
                /\ w.owner \in Users
                /\ focus' = [focus EXCEPT ![f] = w]
                /\ offers' = [offers EXCEPT ![f] = {Version(w)}]
                /\ Exists(f) => focus[f].owner = w.owner
  <2> DEFINE row == [focus[id] EXCEPT !.deleted = TRUE, !.updated = clock]
  <2>1. row \in Focus /\ row.owner = focus[id].owner
    BY <1>0 DEF Focus
  <2>2. focus' = [focus EXCEPT ![id] = row] /\ focus[id].owner = u
        /\ offers' = [offers EXCEPT ![id] = {Version(focus'[id])}]
    BY <1>0, <1>4 DEF DeleteFocus, Editable
  <2> HIDE DEF row
  <2> QED
    BY <1>1, <2>1, <2>2
<1> QED
  BY <1>2, <1>3, <1>4

LEMMA LastWriteNext ==
    ASSUME IInv, [Next]_vars
    PROVE  OffersStored' /\ LastWriteWins'
<1>0. /\ TypeOK /\ ItemInHand /\ OffersStored /\ LastWriteWins
      /\ focus \in [FocusIds -> Focus] /\ offers \in [FocusIds -> SUBSET Offer]
  BY DEF IInv, TypeOK
<1>1. CASE UNCHANGED <<focus, offers>>
  BY <1>0, <1>1 DEF OffersStored, LastWriteWins, Exists
<1>2. ASSUME NEW s \in Sessions, UpsertFocus(s) PROVE OffersStored' /\ LastWriteWins'
  <2>1. PICK id \in FocusIds, row \in Focus :
           /\ row.owner = req[s].user /\ row.owner \in Users
           /\ \/ focus' = [focus EXCEPT ![id] = row] /\ (~Exists(id) \/ Wins(focus[id], row.owner, row.updated))
              \/ /\ focus' = focus /\ Exists(id)
                 /\ focus[id].owner = row.owner => row.updated <= focus[id].updated
           /\ offers' = IF Exists(id) /\ focus[id].owner # row.owner THEN offers
                        ELSE [offers EXCEPT ![id] = @ \cup {Version(row)}]
    BY <1>0, <1>2, UpsertAfter
  <2>2. row.updated \in Nat /\ focus[id].updated \in Nat /\ Version(row).updated = row.updated
    BY <1>0 DEF Focus, Version
  <2>3. CASE focus' = [focus EXCEPT ![id] = row] /\ ~Exists(id)
    <3>1. offers[id] = {} /\ offers' = [offers EXCEPT ![id] = @ \cup {Version(row)}]
      BY <1>0, <2>1, <2>3 DEF OffersStored
    <3> QED
      BY <2>1, <2>3, <3>1, StoreKeeps
  <2>4. CASE focus' = [focus EXCEPT ![id] = row] /\ Exists(id) /\ Wins(focus[id], row.owner, row.updated)
    <3>1. offers' = [offers EXCEPT ![id] = @ \cup {Version(row)}] /\ focus[id].updated < row.updated
      BY <2>1, <2>4 DEF Wins
    <3>2. \A v \in offers[id] : v.updated \in Nat /\ v.updated <= focus[id].updated
      BY <1>0, <2>4 DEF LastWriteWins, Offer
    <3>3. \A v \in offers[id] : v.updated <= row.updated
      BY <2>2, <3>1, <3>2
    <3> QED
      BY <2>1, <2>4, <3>1, <3>3, StoreKeeps
  <2>5. CASE /\ focus' = focus /\ Exists(id) /\ focus[id].owner = row.owner
             /\ row.updated <= focus[id].updated
    <3>1. offers' = [offers EXCEPT ![id] = @ \cup {Version(row)}]
      BY <2>1, <2>5
    <3> QED
      BY <1>0, <2>2, <2>5, <3>1 DEF OffersStored, LastWriteWins, Exists
  <2>6. CASE focus' = focus /\ offers' = offers
    BY <1>1, <2>6
  <2> QED
    BY <2>1, <2>3, <2>4, <2>5, <2>6
<1>3. ASSUME NEW id \in FocusIds, NEW row \in Focus, row.owner \in Users,
             focus' = [focus EXCEPT ![id] = row],
             offers' = [offers EXCEPT ![id] = {Version(row)}]
      PROVE  OffersStored' /\ LastWriteWins'
  BY <1>3, StoreKeeps
<1> QED
  BY <1>0, <1>1, <1>2, <1>3, EditAfter, FocusStep

-----------------------------------------------------------------------------
(* The invariant holds initially and every step keeps it.                  *)
LEMMA InvInit == Init => IInv
<1> SUFFICES ASSUME Init PROVE IInv
  OBVIOUS
<1>1. NoFocus \in Focus
  BY DEF NoFocus, Focus, Both, Payload
<1>2. TypeOK
  BY <1>1, IdleType DEF Init, TypeOK
<1>3. ItemInHand
  BY DEF Init, ItemInHand, Idle
<1>4. EventsConverge /\ OffersStored
  BY DEF Init, EventsConverge, OffersStored
<1>5. LastWriteWins
  BY DEF Init, LastWriteWins, Exists, NoFocus
<1> QED
  BY <1>2, <1>3, <1>4, <1>5 DEF IInv

LEMMA InvNext == IInv /\ [Next]_vars => IInv'
  BY TypeNext, ItemInHandNext, EventsNext, LastWriteNext DEF IInv

(* Rows, requests and offers are consistent in every reachable state.      *)
THEOREM Invariant == Spec => []IInv
  BY InvInit, InvNext, PTL DEF Spec

(* However the pushes that carry an event and its tombstone overlap, repeat*)
(* or fail half-way, a tombstoned event is deleted and no other is.        *)
THEOREM EventsDoConverge == Spec => []EventsConverge
<1>1. IInv => EventsConverge
  BY DEF IInv
<1> QED
  BY <1>1, Invariant, PTL

(* A focus session is the latest of what was offered for it.               *)
THEOREM LastWriteDoesWin == Spec => []LastWriteWins
<1>1. IInv => LastWriteWins
  BY DEF IInv
<1> QED
  BY <1>1, Invariant, PTL

(* A focus session stays with its account, and only requests of that       *)
(* account change it.                                                      *)
THEOREM OnlyOwnRows == Spec => OwnRowsOnly
<1>1. ASSUME IInv, [Next]_vars, NEW id \in FocusIds, Exists(id), focus'[id] # focus[id]
      PROVE  /\ focus'[id].owner = focus[id].owner
             /\ \A s \in Sessions : req'[s] # req[s] => req[s].user = focus[id].owner
  <2>0. /\ TypeOK /\ ItemInHand /\ focus \in [FocusIds -> Focus] /\ req \in [Sessions -> Request]
    BY <1>1 DEF IInv, TypeOK
  <2>1. ASSUME NEW s \in Sessions, UpsertFocus(s)
        PROVE  focus'[id].owner = focus[id].owner /\ req[s].user = focus[id].owner
    <3>1. PICK f \in FocusIds, row \in Focus :
             /\ row.owner = req[s].user
             /\ \/ /\ focus' = [focus EXCEPT ![f] = row]
                   /\ ~Exists(f) \/ Wins(focus[f], row.owner, row.updated)
                \/ focus' = focus
      BY <2>0, <2>1, UpsertAfter
    <3>2. f = id /\ focus'[id] = row /\ Wins(focus[id], row.owner, row.updated)
      BY <1>1, <2>0, <3>1
    <3> QED
      BY <3>1, <3>2 DEF Wins
  <2>2. ASSUME NEW s \in Sessions, NEW field \in {"status", "note"}, PatchWrite(s, field)
        PROVE  req[s].user = focus[id].owner
    BY <1>1, <2>0, <2>2 DEF PatchWrite, Editable
  <2>3. ASSUME \/ \E s \in Sessions, field \in {"status", "note"} : PatchWrite(s, field)
               \/ \E u \in Users, f \in FocusIds : CreateFocus(u, f) \/ DeleteFocus(u, f)
        PROVE  focus'[id].owner = focus[id].owner
    BY <1>1, <2>0, <2>3, EditAfter
  <2>4. ASSUME NEW s \in Sessions, UpsertFocus(s) \/ \E field \in {"status", "note"} : PatchWrite(s, field)
        PROVE  \A t \in Sessions \ {s} : req'[t] = req[t]
    BY <2>0, <2>4 DEF UpsertFocus, PatchWrite
  <2>5. ASSUME NEW u \in Users, NEW f \in FocusIds, CreateFocus(u, f) \/ DeleteFocus(u, f)
        PROVE  req' = req
    BY <2>5 DEF CreateFocus, DeleteFocus
  <2> QED
    BY <1>1, <2>1, <2>2, <2>3, <2>4, <2>5, FocusStep
<1>2. IInv /\ [Next]_vars =>
        [\A id \in FocusIds : Exists(id) /\ focus'[id] # focus[id] =>
            /\ focus'[id].owner = focus[id].owner
            /\ \A s \in Sessions : req'[s] # req[s] => req[s].user = focus[id].owner]_vars
  BY <1>1
<1> QED
  BY <1>2, Invariant, PTL DEF Spec, OwnRowsOnly

=============================================================================
