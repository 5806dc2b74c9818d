--------------------------- MODULE RefreshTokens ---------------------------
(***************************************************************************)
(* Refresh-token rotation and revocation of internal/auth: Login (from the *)
(* point where the password is verified), Refresh (refreshTx), Logout and  *)
(* RevokeDevice (revokeDeviceTx), with the requests of several sessions    *)
(* interleaved statement by statement under READ COMMITTED.                *)
(*                                                                         *)
(* An UPDATE of refresh_tokens finds its rows in a snapshot taken when the *)
(* statement starts, then locks them one at a time, waiting for a row      *)
(* another transaction holds and looking at the row again once it has it.  *)
(* A row inserted after the snapshot is not found.  Statements outside a   *)
(* transaction (Login, Logout) commit on their own.                        *)
(*                                                                         *)
(* A token stands for its row and its hash; a family is named after its    *)
(* first token.                                                            *)
(***************************************************************************)
EXTENDS Naturals, FiniteSets

CONSTANTS
    Users,      \* accounts
    Devices,    \* rows of devices, present or to be created
    NoDevice,
    Owner,      \* the user_id of each device
    Sessions,   \* request handlers, each with a database connection
    MaxTokens   \* bound: rows of refresh_tokens

ASSUME DevicesAssumption ==
    /\ NoDevice \notin Devices
    /\ Owner \in [Devices -> Users]

ASSUME TokensAssumption == MaxTokens \in Nat

VARIABLES
    device,     \* state of each device row
    token,      \* committed rows of refresh_tokens
    expired,    \* tokens whose expires_at has passed
    req,        \* the request each session is serving
    ended       \* history variable: tokens a completed revocation found

vars == <<device, token, expired, req, ended>>

-----------------------------------------------------------------------------
NoToken == 0
Tokens == 1..MaxTokens
AnyToken == Tokens \cup {NoToken}

Row == [status : {"none", "live", "revoked"}, family : AnyToken,
        device : Devices \cup {NoDevice}, replacedBy : AnyToken]
NoRow == [status |-> "none", family |-> NoToken, device |-> NoDevice,
          replacedBy |-> NoToken]

Request ==
    [op : {"idle", "login", "refresh", "logout", "revokeDevice"},
     pc : {"idle", "revoke", "locking", "create", "nowait", "wait", "check",
           "device", "metadata", "mint", "commit", "update"},
     tok : AnyToken,             \* the token presented
     dev : Devices \cup {NoDevice},
     targets : SUBSET Tokens,    \* rows the UPDATE found and has not locked
     locks : SUBSET Tokens,      \* token row locks held
     hits : SUBSET Tokens,       \* rows whose revoked_at it has set
     devLock : BOOLEAN,          \* the device row's lock
     contended : BOOLEAN,        \* refreshTx's variable
     new : AnyToken,             \* the replacement row it inserted
     seen : SUBSET Tokens,       \* history: what the UPDATE's snapshot found
     devWasLive : BOOLEAN]       \* history: device live when it started

Idle == [op |-> "idle", pc |-> "idle", tok |-> NoToken, dev |-> NoDevice,
         targets |-> {}, locks |-> {}, hits |-> {}, devLock |-> FALSE,
         contended |-> FALSE, new |-> NoToken, seen |-> {},
         devWasLive |-> FALSE]

Committed == {t \in Tokens : token[t].status # "none"}
Live == {t \in Tokens : token[t].status = "live"}

\* Token ids no row, committed or not, has
Unused == {t \in Tokens \ Committed : \A s \in Sessions : req[s].new # t}
IsFresh(t) == t \in Unused /\ \A u \in Unused : t <= u

TokenFree(s, t) == \A r \in Sessions \ {s} : t \notin req[r].locks
DeviceFree(s, d) ==
    \A r \in Sessions \ {s} : req[r].dev = d => ~req[r].devLock

Init ==
    /\ device = [d \in Devices |-> "absent"]
    /\ token = [t \in Tokens |-> NoRow]
    /\ expired = {}
    /\ req = [s \in Sessions |-> Idle]
    /\ ended = {}

\* expires_at passes; of a revoked token it is not looked at any more
Expire(t) ==
    /\ t \in Live \ expired
    /\ expired' = expired \cup {t}
    /\ UNCHANGED <<device, token, req, ended>>

-----------------------------------------------------------------------------
(* UPDATE refresh_tokens SET revoked_at = now() WHERE ... AND revoked_at   *)
(* IS NULL: by family (reuse, logout) or by device (login, revokeDevice).  *)

Matches(s, t) ==
    IF req[s].op \in {"login", "revokeDevice"}
    THEN token[t].device = req[s].dev
    ELSE token[t].family = token[req[s].tok].family

RevokeSnapshot(s) ==
    /\ req[s].pc = "revoke"
    /\ LET found == {t \in Live : Matches(s, t)}
       IN  req' = [req EXCEPT ![s].pc = "locking", ![s].targets = found,
                              ![s].seen = found]
    /\ UNCHANGED <<device, token, expired, ended>>

\* The row's latest version is checked again once nobody else holds it
LockTarget(s, t) ==
    /\ req[s].pc = "locking" /\ t \in req[s].targets
    /\ TokenFree(s, t)
    /\ req' = IF token[t].status = "live"
              THEN [req EXCEPT ![s].targets = @ \ {t}, ![s].locks = @ \cup {t},
                               ![s].hits = @ \cup {t}]
              ELSE [req EXCEPT ![s].targets = @ \ {t}]
    /\ UNCHANGED <<device, token, expired, ended>>

\* The statement of Login or Logout commits, or the transaction of reuse
\* detection or RevokeDevice does; Login goes on to create its token.
CommitRevocation(s) ==
    /\ req[s].pc = "locking" /\ req[s].targets = {}
    /\ token' = [t \in Tokens |-> IF t \in req[s].hits
                                  THEN [token[t] EXCEPT !.status = "revoked"]
                                  ELSE token[t]]
    /\ device' = IF req[s].op = "revokeDevice"
                 THEN [device EXCEPT ![req[s].dev] = "revoked"] ELSE device
    /\ ended' = ended \cup req[s].seen
    /\ req' = [req EXCEPT ![s] = IF req[s].op = "login"
                                 THEN [Idle EXCEPT !.op = "login", !.pc = "create",
                                                   !.dev = req[s].dev]
                                 ELSE Idle]
    /\ UNCHANGED expired

-----------------------------------------------------------------------------
(* Login: resolveDevice, then issueTokenPair, each statement on its own.   *)

\* device.id names a live device: UpdateDeviceMetadata
LoginKnownDevice(s, d) ==
    /\ req[s] = Idle
    /\ device[d] = "live" /\ DeviceFree(s, d)
    /\ req' = [req EXCEPT ![s] = [Idle EXCEPT !.op = "login", !.pc = "revoke",
                                              !.dev = d]]
    /\ UNCHANGED <<device, token, expired, ended>>

\* no id, or one that is unknown, revoked or another user's: CreateDevice.
\* Register does the same for a new account.
LoginNewDevice(s, d) ==
    /\ req[s] = Idle
    /\ device[d] = "absent"
    /\ device' = [device EXCEPT ![d] = "live"]
    /\ req' = [req EXCEPT ![s] = [Idle EXCEPT !.op = "login", !.pc = "revoke",
                                              !.dev = d]]
    /\ UNCHANGED <<token, expired, ended>>

\* CreateRefreshToken
NewRow(d, f) == [status |-> "live", family |-> f, device |-> d,
                 replacedBy |-> NoToken]

CreateToken(s, t) ==
    /\ req[s].pc = "create"
    /\ IsFresh(t)
    /\ token' = [token EXCEPT ![t] = NewRow(req[s].dev, t)]
    /\ req' = [req EXCEPT ![s] = Idle]
    /\ UNCHANGED <<device, expired, ended>>

-----------------------------------------------------------------------------
(* Refresh: refreshTx.                                                     *)

\* BEGIN, SAVEPOINT, and the snapshot of the NOWAIT lookup.  A token without
\* a row is answered with ErrInvalidRefreshToken and changes nothing.
RefreshLookup(s, t) ==
    /\ req[s] = Idle
    /\ t \in Committed
    /\ req' = [req EXCEPT ![s] =
                 [Idle EXCEPT !.op = "refresh", !.pc = "nowait", !.tok = t,
                              !.dev = token[t].device,
                              !.devWasLive = device[token[t].device] = "live"]]
    /\ UNCHANGED <<device, token, expired, ended>>

\* Faulty variant: the lookup without FOR UPDATE (refreshNoTx in production)
LookupWithoutLock(s) ==
    /\ req[s].pc = "nowait"
    /\ req' = [req EXCEPT ![s].pc = "check"]
    /\ UNCHANGED <<device, token, expired, ended>>

\* FOR UPDATE NOWAIT: granted, or lock_not_available and back to the savepoint
LockNoWait(s) ==
    /\ req[s].pc = "nowait"
    /\ req' = IF TokenFree(s, req[s].tok)
              THEN [req EXCEPT ![s].pc = "check", ![s].locks = {req[s].tok}]
              ELSE [req EXCEPT ![s].pc = "wait", ![s].contended = TRUE]
    /\ UNCHANGED <<device, token, expired, ended>>

\* the blocking FOR UPDATE
LockWait(s) ==
    /\ req[s].pc = "wait"
    /\ TokenFree(s, req[s].tok)
    /\ req' = [req EXCEPT ![s].pc = "check", ![s].locks = {req[s].tok}]
    /\ UNCHANGED <<device, token, expired, ended>>

\* Faulty variant: an early return that leaves the transaction open
RejectWithoutRollback(s) ==
    /\ req' = [req EXCEPT ![s] = [Idle EXCEPT !.locks = req[s].locks]]
    /\ UNCHANGED <<device, token, expired, ended>>

\* An error return; the deferred Rollback releases every lock
Reject(s) ==
    /\ req' = [req EXCEPT ![s] = Idle]
    /\ UNCHANGED <<device, token, expired, ended>>

\* revoked and contended: a race loser; expired: both ErrInvalidRefreshToken
RefuseToken(s) ==
    /\ req[s].pc = "check"
    /\ IF token[req[s].tok].status = "revoked" THEN req[s].contended
                                               ELSE req[s].tok \in expired
    /\ Reject(s)

\* revoked and not contended: reuse, RevokeRefreshTokenFamily
DetectReuse(s) ==
    /\ req[s].pc = "check"
    /\ token[req[s].tok].status = "revoked" /\ ~req[s].contended
    /\ req' = [req EXCEPT ![s].pc = "revoke"]
    /\ UNCHANGED <<device, token, expired, ended>>

AcceptToken(s) ==
    /\ req[s].pc = "check"
    /\ token[req[s].tok].status # "revoked" /\ req[s].tok \notin expired
    /\ req' = [req EXCEPT ![s].pc = "device"]
    /\ UNCHANGED <<device, token, expired, ended>>

\* Faulty variant: a revoked device is found too
DeviceExists(d) == device[d] # "absent"

\* WHERE ... AND revoked_at IS NULL, in the committed state
DeviceFound(d) == device[d] = "live"

\* GetDeviceByID; the request carries new device metadata or does not
GetDevice(s, next) ==
    /\ req[s].pc = "device"
    /\ next \in {"metadata", "mint"}
    /\ DeviceFound(req[s].dev)
    /\ req' = [req EXCEPT ![s].pc = next]
    /\ UNCHANGED <<device, token, expired, ended>>

DeviceGone(s) ==
    /\ req[s].pc = "device"
    /\ ~DeviceFound(req[s].dev)
    /\ Reject(s)

\* UpdateDeviceMetadata: waits for the row; revoked meanwhile is an error
UpdateMetadata(s) ==
    /\ req[s].pc = "metadata"
    /\ DeviceFree(s, req[s].dev)
    /\ IF DeviceFound(req[s].dev)
       THEN /\ req' = [req EXCEPT ![s].pc = "mint", ![s].devLock = TRUE]
            /\ UNCHANGED <<device, token, expired, ended>>
       ELSE Reject(s)

\* CreateRefreshToken and RotateRefreshToken, not yet committed
Mint(s, t) ==
    /\ req[s].pc = "mint"
    /\ IsFresh(t)
    /\ req' = [req EXCEPT ![s].pc = "commit", ![s].new = t,
                          ![s].hits = {req[s].tok}]
    /\ UNCHANGED <<device, token, expired, ended>>

\* Faulty variant: replaced_by is not set
ConsumedOnly(row, t) == [row EXCEPT !.status = "revoked"]

\* Faulty variant: the consumed row is deleted
RowDeleted(row, t) == NoRow

\* SET revoked_at = now(), replaced_by = $2
Rotated(row, t) == [row EXCEPT !.status = "revoked", !.replacedBy = t]

CommitRotation(s) ==
    /\ req[s].pc = "commit"
    /\ LET old == req[s].tok
           new == req[s].new
       IN  token' = [token EXCEPT ![old] = Rotated(token[old], new),
                                  ![new] = NewRow(token[old].device, token[old].family)]
    /\ req' = [req EXCEPT ![s] = Idle]
    /\ UNCHANGED <<device, expired, ended>>

-----------------------------------------------------------------------------
(* Logout and RevokeDevice.                                                *)

\* GetRefreshTokenByHash, no lock; only the owner's family is revoked, a
\* foreign or unknown token changes nothing
LogoutLookup(s, u, t) ==
    /\ req[s] = Idle
    /\ t \in Committed /\ Owner[token[t].device] = u
    /\ req' = [req EXCEPT ![s] = [Idle EXCEPT !.op = "logout", !.pc = "revoke",
                                              !.tok = t]]
    /\ UNCHANGED <<device, token, expired, ended>>

\* BEGIN and GetDeviceByID; otherwise ErrDeviceNotFound
RevokeDeviceLookup(s, d) ==
    /\ req[s] = Idle
    /\ DeviceFound(d)
    /\ req' = [req EXCEPT ![s] = [Idle EXCEPT !.op = "revokeDevice",
                                              !.pc = "update", !.dev = d]]
    /\ UNCHANGED <<device, token, expired, ended>>

\* UPDATE devices; no row when it was revoked meanwhile, which is no error
RevokeDeviceUpdate(s) ==
    /\ req[s].pc = "update"
    /\ DeviceFree(s, req[s].dev)
    /\ req' = [req EXCEPT ![s].pc = "revoke",
                          ![s].devLock = DeviceFound(req[s].dev)]
    /\ UNCHANGED <<device, token, expired, ended>>

-----------------------------------------------------------------------------
(* Failures.                                                               *)

\* A failed statement, a cancelled context or a lost connection.  Statements
\* that committed on their own stay committed.
Fail(s) ==
    /\ req[s].op # "idle"
    /\ Reject(s)

\* Bound: no row left to insert
OutOfTokens(s) ==
    /\ req[s].pc \in {"create", "mint"} /\ Unused = {}
    /\ Reject(s)

\* The rows a blocked session waits for, as the sessions that hold them
WaitsFor(s) ==
    LET p == req[s].pc
        wanted == IF p = "wait" THEN {req[s].tok}
                  ELSE IF p = "locking" THEN req[s].targets ELSE {}
    IN  {r \in Sessions \ {s} :
            \/ wanted \cap req[r].locks # {}
            \/ p \in {"metadata", "update"} /\ req[r].devLock
                                            /\ req[r].dev = req[s].dev}

\* PostgreSQL's deadlock detector ends one transaction of a wait cycle
DeadlockAbort(s) ==
    /\ \E S \in SUBSET Sessions :
          /\ s \in S
          /\ \A r \in S : /\ WaitsFor(r) \cap S # {}
                          /\ \E q \in S : r \in WaitsFor(q)
    /\ Reject(s)

-----------------------------------------------------------------------------
Revoke(s) ==
    \/ RevokeSnapshot(s)
    \/ \E t \in Tokens : LockTarget(s, t)
    \/ CommitRevocation(s)

Refresh(s) ==
    \/ LockNoWait(s) \/ LockWait(s)
    \/ RefuseToken(s) \/ DetectReuse(s) \/ AcceptToken(s)
    \/ \E next \in {"metadata", "mint"} : GetDevice(s, next)
    \/ DeviceGone(s) \/ UpdateMetadata(s)
    \/ \E t \in Tokens : Mint(s, t)
    \/ CommitRotation(s)

\* A request that has started goes on
Step(s) ==
    \/ Revoke(s)
    \/ Refresh(s)
    \/ \E t \in Tokens : CreateToken(s, t)
    \/ RevokeDeviceUpdate(s)
    \/ OutOfTokens(s)

Start(s) ==
    \/ \E d \in Devices : \/ LoginKnownDevice(s, d) \/ LoginNewDevice(s, d)
                          \/ RevokeDeviceLookup(s, d)
    \/ \E t \in Tokens : RefreshLookup(s, t) \/ \E u \in Users : LogoutLookup(s, u, t)

Next ==
    \/ \E t \in Tokens : Expire(t)
    \/ \E s \in Sessions : Start(s) \/ Step(s) \/ Fail(s) \/ DeadlockAbort(s)

Spec == Init /\ [][Next]_vars

-----------------------------------------------------------------------------
(* Properties.                                                             *)

TypeOK ==
    /\ device \in [Devices -> {"absent", "live", "revoked"}]
    /\ token \in [Tokens -> Row]
    /\ \A t \in Committed : token[t].family \in Tokens /\ token[t].device \in Devices
    /\ expired \in SUBSET Tokens
    /\ req \in [Sessions -> Request]
    /\ ended \in SUBSET Tokens

\* However many requests present the same token at once, a rotation family
\* never has two live tokens: concurrent refreshes "serialize against each
\* other instead of racing".
OneLivePerFamily ==
    \A t, u \in Live : token[t].family = token[u].family => t = u

\* "No orphaned replacement row is ever left behind": every token but the
\* first of its family replaces exactly one consumed token of that family
\* and device.
Lineage ==
    \A t \in Committed : token[t].family # t =>
        \E p \in Committed :
            /\ token[p].status = "revoked" /\ token[p].replacedBy = t
            /\ token[p].family = token[t].family /\ token[p].device = token[t].device
            /\ \A q \in Tokens : token[q].replacedBy = t => q = p

\* What a completed revocation does guarantee (logout, reuse detection, device
\* revocation, the first half of a login): no token is live any more that was
\* live when its UPDATE started.  EntireFamilyRevoked asks for more.
RevocationCoversSnapshot == \A t \in ended : token[t].status = "revoked"

\* A refresh that starts after its device was revoked never gets a token,
\* whichever tokens of that device are still unrevoked.
RevokedDeviceStaysOut ==
    \A s \in Sessions : req[s].pc = "commit" => req[s].devWasLive

\* The families as their holders see them, in the committed rows
OfFamily(S) == [f \in Tokens |-> {t \in S : token[t].family = f}]

Families == INSTANCE TokenFamilies
    WITH valid <- OfFamily(Live), spent <- OfFamily(Committed \ Live)

\* The requests, row by row and lock by lock, do to the committed rows what
\* TokenFamilies does in one step: a token is exchanged once, and a family
\* without a valid token never has one again.  A revocation that loses to a
\* rotation is a stutter here, so this does not say that it ends the family.
ImplementsFamilies == Families!Spec

\* Every request ends: a lock is waited for only while its holder runs, and
\* Refresh and RevokeDevice, which take the device's row and the token's row
\* in opposite orders, do not block each other for good.
RequestsEnd == \A s \in Sessions : req[s].op # "idle" ~> req[s].op = "idle"

\* The comments on Refresh and refreshTx ("the entire token family is revoked"),
\* Logout ("revokes the refresh token family") and RevokeDevice ("every refresh
\* token ever issued to it"): when one of these revocations commits, no token is
\* live of a family it set out to revoke, a replacement issued meanwhile included.
EntireFamilyRevoked ==
    [][\A s \in Sessions :
          CommitRevocation(s) /\ req[s].op # "login" =>
              \A u \in req[s].seen, t \in Live' : token[t].family # token[u].family]_vars

\* issueTokenPair's comment, quoting documentation/security.md: "exactly one
\* active refresh token per device".
OneLivePerDevice ==
    \A t, u \in Live : token[t].device = token[u].device => t = u
=============================================================================
