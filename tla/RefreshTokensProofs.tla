------------------------ MODULE RefreshTokensProofs ------------------------
(***************************************************************************)
(* Proofs about RefreshTokens, for every set of accounts, devices and      *)
(* sessions and every number of tokens.                                    *)
(***************************************************************************)
EXTENDS RefreshTokens, TLAPS

-----------------------------------------------------------------------------
(* The inductive invariant.                                                *)

\* What the rows refer to is there: a family's first token, the row that
\* replaced a token, the device a token was issued to.
References ==
    /\ \A t \in Committed : /\ token[t].family \in Committed
                            /\ device[token[t].device] # "absent"
    /\ \A t \in Tokens : token[t].replacedBy \in Committed \cup {NoToken}

\* A row lock has one holder
LocksExclusive ==
    \A r, s \in Sessions : r # s => req[r].locks \cap req[s].locks = {}

RefreshPcs == {"nowait", "wait", "check", "device", "metadata", "mint", "commit"}

\* What a request has in hand when it has come this far
InHand(s) ==
    /\ req[s].op = "idle" => req[s].pc = "idle"
    /\ req[s].pc = "create" => req[s].op = "login"
    /\ req[s].pc \in RefreshPcs => req[s].op = "refresh"
    /\ req[s].pc \notin {"locking", "commit"} => req[s].hits = {}
    /\ req[s].op \in {"refresh", "logout"} => req[s].tok \in Committed
    /\ req[s].op \in {"login", "refresh", "revokeDevice"} =>
          req[s].dev \in Devices /\ device[req[s].dev] # "absent"

\* From the check on, a refresh holds the presented row's lock, and once it
\* has found the token unrevoked nobody else can revoke it.
HoldsItsToken(s) ==
    /\ req[s].pc \in RefreshPcs \ {"nowait", "wait"} => req[s].tok \in req[s].locks
    /\ req[s].pc \in {"device", "metadata", "mint", "commit"} => req[s].tok \in Live

\* The rows of a revocation's snapshot are still to be looked at, or locked
\* and live, or were revoked by somebody else.
Accounted(s) ==
    req[s].pc = "locking" =>
        /\ req[s].hits \subseteq req[s].locks /\ req[s].hits \subseteq Live
        /\ req[s].seen \subseteq Committed
        /\ \A t \in req[s].seen : \/ t \in req[s].targets \cup req[s].hits
                                  \/ token[t].status = "revoked"

\* A replacement row is nobody else's until its transaction commits
Replacement(s) ==
    /\ req[s].new # NoToken => req[s].pc = "commit"
    /\ req[s].pc = "commit" =>
          /\ req[s].new \in Tokens \ Committed
          /\ \A r \in Sessions \ {s} : req[r].new # req[s].new

\* A device that was not live when a refresh looked its token up is revoked,
\* and a revoked device never becomes live again.
DeviceChecked(s) ==
    /\ req[s].op = "refresh" /\ ~req[s].devWasLive => device[req[s].dev] = "revoked"
    /\ req[s].pc \in {"metadata", "mint", "commit"} => req[s].devWasLive

IInv ==
    /\ TypeOK /\ References /\ LocksExclusive
    /\ \A s \in Sessions : InHand(s) /\ HoldsItsToken(s) /\ Accounted(s)
                           /\ Replacement(s) /\ DeviceChecked(s)
    /\ OneLivePerFamily /\ Lineage /\ RevocationCoversSnapshot

-----------------------------------------------------------------------------
(* The cases of Next.  Every way a request ends with an error is a Reject. *)

SessionStep(s) ==
    \/ \E d \in Devices : \/ LoginKnownDevice(s, d) \/ LoginNewDevice(s, d)
                          \/ RevokeDeviceLookup(s, d)
    \/ \E t \in Tokens : \/ RefreshLookup(s, t)
                         \/ \E u \in Users : LogoutLookup(s, u, t)
                         \/ LockTarget(s, t) \/ Mint(s, t) \/ CreateToken(s, t)
    \/ RevokeSnapshot(s) \/ CommitRevocation(s)
    \/ LockNoWait(s) \/ LockWait(s) \/ DetectReuse(s) \/ AcceptToken(s)
    \/ \E next \in {"metadata", "mint"} : GetDevice(s, next)
    \/ UpdateMetadata(s) \/ CommitRotation(s) \/ RevokeDeviceUpdate(s)
    \/ Reject(s)

LEMMA NextCases ==
    ASSUME Next
    PROVE  (\E t \in Tokens : Expire(t)) \/ (\E s \in Sessions : SessionStep(s))
  BY Zenon DEF Next, Start, Step, Revoke, Refresh, RefuseToken, DeviceGone, OutOfTokens, Fail,
     DeadlockAbort, SessionStep

(* The steps that write rows are four.                                     *)
LEMMA SessionRows ==
    ASSUME NEW s \in Sessions, SessionStep(s)
    PROVE  \/ UNCHANGED <<device, token, ended>>
           \/ \E d \in Devices : LoginNewDevice(s, d)
           \/ CommitRevocation(s) \/ CommitRotation(s)
           \/ \E t \in Tokens : CreateToken(s, t)
<1> DEFINE Same == UNCHANGED <<device, token, ended>>
<1>1. \A d \in Devices : LoginKnownDevice(s, d) \/ RevokeDeviceLookup(s, d) => Same
  BY DEF LoginKnownDevice, RevokeDeviceLookup
<1>2. \A t \in Tokens : RefreshLookup(s, t) \/ LockTarget(s, t) \/ Mint(s, t) => Same
  BY DEF RefreshLookup, LockTarget, Mint
<1>3. \A t \in Tokens, u \in Users : LogoutLookup(s, u, t) => Same
  BY DEF LogoutLookup
<1>4. RevokeSnapshot(s) \/ LockNoWait(s) \/ LockWait(s) \/ DetectReuse(s)
        \/ AcceptToken(s) \/ RevokeDeviceUpdate(s) \/ Reject(s) => Same
  BY DEF RevokeSnapshot, LockNoWait, LockWait, DetectReuse, AcceptToken,
     RevokeDeviceUpdate, Reject
<1>5. UpdateMetadata(s) \/ (\E next \in {"metadata", "mint"} : GetDevice(s, next)) => Same
  BY DEF UpdateMetadata, GetDevice, Reject
<1> QED
  BY <1>1, <1>2, <1>3, <1>4, <1>5, Zenon DEF SessionStep

LEMMA RowsStep ==
    ASSUME [Next]_vars
    PROVE  \/ UNCHANGED <<device, token, ended>>
           \/ \E s \in Sessions :
                \/ \E d \in Devices : LoginNewDevice(s, d)
                \/ CommitRevocation(s) \/ CommitRotation(s)
                \/ \E t \in Tokens : CreateToken(s, t)
<1>1. UNCHANGED vars \/ (\E t \in Tokens : Expire(t)) => UNCHANGED <<device, token, ended>>
  BY DEF vars, Expire
<1> QED
  BY <1>1, NextCases, SessionRows, Zenon

-----------------------------------------------------------------------------
(* Types.                                                                  *)

LEMMA RowTypes ==
    /\ NoRow \in Row
    /\ \A d \in Devices, f \in Tokens : NewRow(d, f) \in Row
    /\ \A row \in Row, t \in Tokens : Rotated(row, t) \in Row
  BY DEF NoRow, Row, NewRow, Rotated, AnyToken, NoToken

LEMMA MintType ==
    ASSUME NEW r \in Request
    PROVE  [r EXCEPT !.pc = "mint", !.devLock = TRUE] \in Request
  BY DEF Request

LEMMA IdleTypes ==
    /\ Idle \in Request
    /\ \A o \in {"login", "revokeDevice"}, p \in {"revoke", "create", "update"},
          d \in Devices : [Idle EXCEPT !.op = o, !.pc = p, !.dev = d] \in Request
    /\ \A t \in Tokens, d \in Devices, b \in BOOLEAN :
          /\ [Idle EXCEPT !.op = "refresh", !.pc = "nowait", !.tok = t, !.dev = d,
                          !.devWasLive = b] \in Request
          /\ [Idle EXCEPT !.op = "logout", !.pc = "revoke", !.tok = t] \in Request
<1>1. Idle \in Request
  BY DEF Idle, Request, AnyToken, NoToken
<1>2. ASSUME NEW o \in {"login", "revokeDevice"}, NEW p \in {"revoke", "create", "update"},
             NEW d \in Devices
      PROVE  [Idle EXCEPT !.op = o, !.pc = p, !.dev = d] \in Request
  BY <1>1 DEF Request
<1>3. ASSUME NEW t \in Tokens, NEW d \in Devices, NEW b \in BOOLEAN
      PROVE  /\ [Idle EXCEPT !.op = "refresh", !.pc = "nowait", !.tok = t, !.dev = d,
                             !.devWasLive = b] \in Request
             /\ [Idle EXCEPT !.op = "logout", !.pc = "revoke", !.tok = t] \in Request
  BY <1>1 DEF Request, AnyToken
<1> QED
  BY <1>1, <1>2, <1>3

LEMMA TypeInit == Init => TypeOK
<1> SUFFICES ASSUME Init PROVE TypeOK
  OBVIOUS
<1>1. token \in [Tokens -> Row] /\ Committed = {}
  BY RowTypes DEF Init, Committed, NoRow
<1> QED
  BY <1>1, IdleTypes DEF Init, TypeOK

LEMMA ReqType ==
    ASSUME IInv, [Next]_vars
    PROVE  req' \in [Sessions -> Request]
<1> USE DEF IInv, TypeOK
<1>1. CASE UNCHANGED req
  BY <1>1
<1>2. ASSUME NEW s \in Sessions, NEW d \in Devices,
             LoginKnownDevice(s, d) \/ LoginNewDevice(s, d) \/ RevokeDeviceLookup(s, d)
      PROVE  req' \in [Sessions -> Request]
  <2>1. PICK o \in {"login", "revokeDevice"}, p \in {"revoke", "create", "update"} :
           req' = [req EXCEPT ![s] = [Idle EXCEPT !.op = o, !.pc = p, !.dev = d]]
    BY <1>2 DEF LoginKnownDevice, LoginNewDevice, RevokeDeviceLookup
  <2>2. [Idle EXCEPT !.op = o, !.pc = p, !.dev = d] \in Request
    BY IdleTypes
  <2> HIDE DEF IInv, TypeOK
  <2>3. req \in [Sessions -> Request]
    BY DEF IInv, TypeOK
  <2> QED
    BY <2>1, <2>2, <2>3
<1>3. ASSUME NEW s \in Sessions, NEW t \in Tokens,
             RefreshLookup(s, t) \/ \E u \in Users : LogoutLookup(s, u, t)
      PROVE  req' \in [Sessions -> Request]
  <2>1. CASE RefreshLookup(s, t)
    <3> DEFINE d == token[t].device
               next == [Idle EXCEPT !.op = "refresh", !.pc = "nowait", !.tok = t, !.dev = d,
                                    !.devWasLive = device[d] = "live"]
    <3>1. d \in Devices /\ (device[d] = "live") \in BOOLEAN
      BY <2>1 DEF RefreshLookup
    <3>2. next \in Request
      BY <3>1, IdleTypes, Zenon
    <3>3. req' = [req EXCEPT ![s] = next]
      BY <2>1 DEF RefreshLookup
    <3> HIDE DEF next
    <3> QED
      BY <3>2, <3>3
  <2>2. CASE \E u \in Users : LogoutLookup(s, u, t)
    BY <2>2, IdleTypes DEF LogoutLookup
  <2> QED
    BY <1>3, <2>1, <2>2
<1>4. ASSUME NEW s \in Sessions, NEW t \in Tokens, LockTarget(s, t)
      PROVE  req' \in [Sessions -> Request]
  <2>1. req[s] \in Request
    OBVIOUS
  <2>2. [req[s] EXCEPT !.targets = @ \ {t}] \in Request
    BY <2>1 DEF Request
  <2>3. [req[s] EXCEPT !.targets = @ \ {t}, !.locks = @ \cup {t}, !.hits = @ \cup {t}]
          \in Request
    BY <2>1 DEF Request
  <2> QED
    BY <1>4, <2>2, <2>3 DEF LockTarget
<1>5. ASSUME NEW s \in Sessions, NEW t \in Tokens, Mint(s, t)
      PROVE  req' \in [Sessions -> Request]
  <2>1. req[s] \in Request /\ req[s].tok \in Tokens
    BY <1>5 DEF Mint, InHand, RefreshPcs, Committed
  <2>2. [req[s] EXCEPT !.pc = "commit", !.new = t, !.hits = {req[s].tok}] \in Request
    BY <2>1 DEF Request, AnyToken
  <2> QED
    BY <1>5, <2>2 DEF Mint
<1>6. ASSUME NEW s \in Sessions, RevokeSnapshot(s)
      PROVE  req' \in [Sessions -> Request]
  <2> DEFINE found == {t \in Live : Matches(s, t)}
  <2>1. req[s] \in Request /\ found \in SUBSET Tokens
    BY DEF Live
  <2>2. [req[s] EXCEPT !.pc = "locking", !.targets = found, !.seen = found] \in Request
    BY <2>1 DEF Request
  <2> QED
    BY <1>6, <2>2 DEF RevokeSnapshot
<1>7. ASSUME NEW s \in Sessions, CommitRevocation(s)
      PROVE  req' \in [Sessions -> Request]
  <2>1. CASE req[s].op = "login"
    BY <1>7, <2>1, IdleTypes DEF CommitRevocation, InHand
  <2>2. CASE req[s].op # "login"
    BY <1>7, <2>2, IdleTypes DEF CommitRevocation
  <2> QED
    BY <2>1, <2>2
<1>8. ASSUME NEW s \in Sessions, LockNoWait(s) \/ LockWait(s)
      PROVE  req' \in [Sessions -> Request]
  <2>1. req[s].tok \in Tokens
    BY <1>8 DEF LockNoWait, LockWait, InHand, RefreshPcs, Committed
  <2> QED
    BY <1>8, <2>1 DEF LockNoWait, LockWait, Request
<1>9. ASSUME NEW s \in Sessions,
             \/ DetectReuse(s) \/ AcceptToken(s) \/ RevokeDeviceUpdate(s)
             \/ \E next \in {"metadata", "mint"} : GetDevice(s, next)
      PROVE  req' \in [Sessions -> Request]
  BY <1>9 DEF DetectReuse, AcceptToken, GetDevice, RevokeDeviceUpdate, DeviceFound, Request
<1>10. ASSUME NEW s \in Sessions,
              \/ CommitRotation(s) \/ Reject(s) \/ UpdateMetadata(s)
              \/ \E t \in Tokens : CreateToken(s, t)
       PROVE  req' \in [Sessions -> Request]
  <2>1. [req[s] EXCEPT !.pc = "mint", !.devLock = TRUE] \in Request
    BY MintType
  <2> QED
    BY <1>10, <2>1, IdleTypes DEF CommitRotation, Reject, UpdateMetadata, CreateToken
<1> QED
  BY <1>1, <1>2, <1>3, <1>4, <1>5, <1>6, <1>7, <1>8, <1>9, <1>10, NextCases
     DEF vars, Expire, SessionStep

(* A step is of one session: no other request moves.                       *)
LEMMA OthersWait ==
    ASSUME TypeOK, NEW s \in Sessions, SessionStep(s)
    PROVE  \A r \in Sessions \ {s} : req'[r] = req[r]
<1> DEFINE Only == \A r \in Sessions \ {s} : req'[r] = req[r]
<1> USE DEF TypeOK
<1>1. ASSUME NEW d \in Devices,
             LoginKnownDevice(s, d) \/ LoginNewDevice(s, d) \/ RevokeDeviceLookup(s, d)
      PROVE  Only
  BY <1>1 DEF LoginKnownDevice, LoginNewDevice, RevokeDeviceLookup
<1>2. ASSUME NEW t \in Tokens,
             \/ RefreshLookup(s, t) \/ \E u \in Users : LogoutLookup(s, u, t)
             \/ Mint(s, t) \/ CreateToken(s, t)
      PROVE  Only
  BY <1>2 DEF RefreshLookup, LogoutLookup, Mint, CreateToken
<1>3. ASSUME NEW t \in Tokens, LockTarget(s, t) PROVE Only
  BY <1>3 DEF LockTarget
<1>4. CASE RevokeSnapshot(s)
  BY <1>4 DEF RevokeSnapshot
<1>5. CASE CommitRevocation(s)
  BY <1>5 DEF CommitRevocation
<1>6. CASE LockNoWait(s) \/ LockWait(s) \/ DetectReuse(s) \/ AcceptToken(s)
  BY <1>6 DEF LockNoWait, LockWait, DetectReuse, AcceptToken
<1>7. CASE \/ UpdateMetadata(s) \/ CommitRotation(s) \/ RevokeDeviceUpdate(s) \/ Reject(s)
           \/ \E next \in {"metadata", "mint"} : GetDevice(s, next)
  BY <1>7 DEF UpdateMetadata, CommitRotation, RevokeDeviceUpdate, Reject, GetDevice
<1> QED
  BY <1>1, <1>2, <1>3, <1>4, <1>5, <1>6, <1>7 DEF SessionStep

-----------------------------------------------------------------------------
(* The steps that write rows.                                              *)

LEMMA RevocationRows ==
    ASSUME IInv, NEW s \in Sessions, CommitRevocation(s)
    PROVE  /\ token' \in [Tokens -> Row] /\ Committed' = Committed
           /\ Live' = Live \ req[s].hits
           /\ \A t \in Tokens : /\ token'[t].family = token[t].family
                                /\ token'[t].device = token[t].device
                                /\ token'[t].replacedBy = token[t].replacedBy
                                /\ token[t].status = "revoked" => token'[t].status = "revoked"
           /\ \A t \in req[s].hits : token'[t].status = "revoked"
<1> USE DEF IInv, TypeOK
<1>1. token' = [t \in Tokens |-> IF t \in req[s].hits
                                 THEN [token[t] EXCEPT !.status = "revoked"]
                                 ELSE token[t]]
  BY DEF CommitRevocation
<1>2. req[s].hits \subseteq Live
  BY DEF CommitRevocation, Accounted
<1>3. \A t \in Tokens : [token[t] EXCEPT !.status = "revoked"] \in Row
  BY DEF Row
<1>4. token' \in [Tokens -> Row]
  BY <1>1, <1>3
<1>5. \A t \in Tokens : /\ token'[t].family = token[t].family
                        /\ token'[t].device = token[t].device
                        /\ token'[t].replacedBy = token[t].replacedBy
                        /\ token'[t].status = IF t \in req[s].hits THEN "revoked"
                                              ELSE token[t].status
  BY <1>1 DEF Row
<1>6. Committed' = Committed /\ Live' = Live \ req[s].hits
  BY <1>2, <1>5 DEF Committed, Live
<1> QED
  BY <1>2, <1>4, <1>5, <1>6 DEF Live

LEMMA CreationRows ==
    ASSUME IInv, NEW s \in Sessions, NEW t \in Tokens, CreateToken(s, t)
    PROVE  /\ t \notin Committed /\ req[s].dev \in Devices
           /\ token' \in [Tokens -> Row] /\ Committed' = Committed \cup {t}
           /\ Live' = Live \cup {t}
           /\ token'[t] = NewRow(req[s].dev, t)
           /\ \A u \in Tokens \ {t} : token'[u] = token[u]
<1> USE DEF IInv, TypeOK
<1>1. t \notin Committed
  BY DEF CreateToken, IsFresh, Unused
<1>2. token' = [token EXCEPT ![t] = NewRow(req[s].dev, t)]
  BY DEF CreateToken
<1>3. NewRow(req[s].dev, t) \in Row /\ req[s].dev \in Devices
  BY RowTypes DEF CreateToken, InHand
<1>4. token' \in [Tokens -> Row] /\ token'[t] = NewRow(req[s].dev, t)
      /\ \A u \in Tokens \ {t} : token'[u] = token[u]
  BY <1>2, <1>3
<1>5. Committed' = Committed \cup {t} /\ Live' = Live \cup {t}
  BY <1>1, <1>4 DEF Committed, Live, NewRow
<1> QED
  BY <1>1, <1>3, <1>4, <1>5

LEMMA RotationRows ==
    ASSUME IInv, NEW s \in Sessions, CommitRotation(s)
    PROVE  /\ req[s].tok \in Live /\ req[s].new \in Tokens \ Committed
           /\ token' \in [Tokens -> Row] /\ Committed' = Committed \cup {req[s].new}
           /\ Live' = (Live \ {req[s].tok}) \cup {req[s].new}
           /\ token'[req[s].tok] = Rotated(token[req[s].tok], req[s].new)
           /\ token'[req[s].new] = NewRow(token[req[s].tok].device, token[req[s].tok].family)
           /\ \A u \in Tokens \ {req[s].tok, req[s].new} : token'[u] = token[u]
<1> USE DEF IInv, TypeOK
<1> DEFINE old == req[s].tok
           new == req[s].new
<1>1. old \in Live /\ new \in Tokens \ Committed
  BY DEF CommitRotation, HoldsItsToken, Replacement
<1>2. old \in Committed /\ old # new /\ old \in Tokens
  BY <1>1 DEF Live, Committed
<1>3. token' = [token EXCEPT ![old] = Rotated(token[old], new),
                             ![new] = NewRow(token[old].device, token[old].family)]
  BY DEF CommitRotation
<1>4. Rotated(token[old], new) \in Row
      /\ NewRow(token[old].device, token[old].family) \in Row
  BY <1>1, <1>2, RowTypes
<1>5. /\ token' \in [Tokens -> Row]
      /\ token'[old] = Rotated(token[old], new)
      /\ token'[new] = NewRow(token[old].device, token[old].family)
      /\ \A u \in Tokens \ {old, new} : token'[u] = token[u]
  BY <1>1, <1>2, <1>3, <1>4
<1>6. token'[old].status = "revoked" /\ token'[new].status = "live"
  BY <1>2, <1>5 DEF Rotated, NewRow, Row
<1>7. Committed' = Committed \cup {new} /\ Live' = (Live \ {old}) \cup {new}
  BY <1>1, <1>2, <1>5, <1>6 DEF Committed, Live
<1> QED
  BY <1>1, <1>5, <1>7

(* A device row is inserted live and stays revoked once it is.             *)
LEMMA DevicesStep ==
    ASSUME IInv, [Next]_vars
    PROVE  /\ device' \in [Devices -> {"absent", "live", "revoked"}]
           /\ \A d \in Devices : /\ device[d] # "absent" => device'[d] # "absent"
                                 /\ device[d] = "revoked" => device'[d] = "revoked"
<1> USE DEF IInv, TypeOK
<1>1. CASE UNCHANGED device
  BY <1>1
<1>2. ASSUME NEW s \in Sessions, NEW d \in Devices, LoginNewDevice(s, d)
      PROVE  device' = [device EXCEPT ![d] = "live"] /\ device[d] = "absent"
  BY <1>2 DEF LoginNewDevice
<1>3. ASSUME NEW s \in Sessions, CommitRevocation(s)
      PROVE  \/ UNCHANGED device
             \/ device' = [device EXCEPT ![req[s].dev] = "revoked"]
  BY <1>3 DEF CommitRevocation
<1>4. ASSUME NEW s \in Sessions, CommitRotation(s) \/ \E t \in Tokens : CreateToken(s, t)
      PROVE  UNCHANGED device
  BY <1>4 DEF CommitRotation, CreateToken
<1> QED
  BY <1>1, <1>2, <1>3, <1>4, RowsStep

(* Tokens stay, keep their family and device, and stay revoked.            *)
LEMMA RowsMonotone ==
    ASSUME IInv, [Next]_vars
    PROVE  /\ token' \in [Tokens -> Row]
           /\ Committed \subseteq Committed'
           /\ \A t \in Committed : /\ token'[t].family = token[t].family
                                   /\ token'[t].device = token[t].device
           /\ \A t \in Tokens : token[t].status = "revoked" => token'[t].status = "revoked"
<1> DEFINE Typed == token' \in [Tokens -> Row]
           Stay == Committed \subseteq Committed'
           Same == \A t \in Committed : /\ token'[t].family = token[t].family
                                        /\ token'[t].device = token[t].device
           Dead == \A t \in Tokens : token[t].status = "revoked"
                                      => token'[t].status = "revoked"
<1>0. token \in [Tokens -> Row] /\ Committed \subseteq Tokens
      /\ \A t \in Tokens : token[t].status = "revoked" => t \in Committed
  BY DEF IInv, TypeOK, Committed
<1>1. ASSUME UNCHANGED token PROVE Typed /\ Stay /\ Same /\ Dead
  BY <1>0, <1>1 DEF Committed
<1>2. ASSUME NEW s \in Sessions, CommitRevocation(s)
      PROVE  Typed /\ Stay /\ Same /\ Dead
  <2>1. Typed /\ Committed' = Committed
    BY <1>2, RevocationRows
  <2>2. \A t \in Tokens : /\ token'[t].family = token[t].family
                          /\ token'[t].device = token[t].device
                          /\ token[t].status = "revoked" => token'[t].status = "revoked"
    BY <1>2, RevocationRows, Zenon
  <2> QED
    BY <1>0, <2>1, <2>2
<1>3. ASSUME NEW s \in Sessions, NEW t \in Tokens, CreateToken(s, t)
      PROVE  Typed /\ Stay /\ Same /\ Dead
  <2>1. /\ t \notin Committed /\ Typed /\ Committed' = Committed \cup {t}
        /\ \A u \in Tokens \ {t} : token'[u] = token[u]
    BY <1>3, CreationRows
  <2> QED
    BY <1>0, <2>1
<1>4. ASSUME NEW s \in Sessions, CommitRotation(s)
      PROVE  Typed /\ Stay /\ Same /\ Dead
  <2> DEFINE old == req[s].tok
             new == req[s].new
  <2>1. /\ old \in Live /\ new \in Tokens \ Committed
        /\ Typed /\ Committed' = Committed \cup {new}
        /\ token'[old] = Rotated(token[old], new)
        /\ \A u \in Tokens \ {old, new} : token'[u] = token[u]
    BY <1>4, RotationRows
  <2>2. old \in Tokens /\ token[old].status = "live"
    BY <2>1 DEF Live
  <2>3. /\ token'[old].family = token[old].family
        /\ token'[old].device = token[old].device
    BY <1>0, <2>1, <2>2 DEF Rotated, Row
  <2>4. \A t \in Committed \ {old} : token'[t] = token[t]
    BY <1>0, <2>1
  <2> QED
    BY <1>0, <2>1, <2>2, <2>3, <2>4
<1>5. ASSUME NEW s \in Sessions, NEW d \in Devices, LoginNewDevice(s, d)
      PROVE  UNCHANGED token
  BY <1>5 DEF LoginNewDevice
<1> HIDE DEF Typed, Stay, Same, Dead
<1>6. Typed /\ Stay /\ Same /\ Dead
  <2>1. UNCHANGED <<device, token, ended>> => UNCHANGED token
    OBVIOUS
  <2>2. \A s \in Sessions : (\E d \in Devices : LoginNewDevice(s, d)) => UNCHANGED token
    BY <1>5
  <2> QED
    BY <1>1, <1>2, <1>3, <1>4, <2>1, <2>2, RowsStep
<1> QED
  BY <1>6 DEF Typed, Stay, Same, Dead

(* Only the holder of a row lock writes the row.                           *)
LEMMA HeldRowsKept ==
    ASSUME IInv, NEW s \in Sessions, SessionStep(s), [Next]_vars,
           NEW r \in Sessions \ {s}
    PROVE  \A t \in req[r].locks : t \in Live => t \in Live'
<1> USE DEF IInv, TypeOK
<1>1. req[r].locks \cap req[s].locks = {}
  BY DEF LocksExclusive
<1>2. CASE CommitRevocation(s)
  <2>1. req[s].hits \subseteq req[s].locks /\ Live' = Live \ req[s].hits
    BY <1>2, RevocationRows DEF CommitRevocation, Accounted
  <2> QED
    BY <1>1, <2>1
<1>3. CASE \E t \in Tokens : CreateToken(s, t)
  BY <1>3, CreationRows
<1>4. CASE CommitRotation(s)
  <2>1. req[s].tok \in req[s].locks
    BY <1>4 DEF CommitRotation, HoldsItsToken, RefreshPcs
  <2>2. Live' = (Live \ {req[s].tok}) \cup {req[s].new}
    BY <1>4, RotationRows
  <2> QED
    BY <1>1, <2>1, <2>2
<1>5. CASE UNCHANGED token
  BY <1>5 DEF Live
<1> QED
  <2>1. CASE \E d \in Devices : LoginNewDevice(s, d)
    BY <1>5, <2>1 DEF LoginNewDevice
  <2> QED
    BY <1>2, <1>3, <1>4, <1>5, <2>1, SessionRows

-----------------------------------------------------------------------------
(* Requests.                                                               *)

LEMMA LookupRequest ==
    ASSUME TypeOK, NEW s \in Sessions, NEW t \in Tokens, RefreshLookup(s, t)
    PROVE  /\ req'[s].op = "refresh" /\ req'[s].pc = "nowait" /\ req'[s].tok = t
           /\ req'[s].dev = token[t].device
           /\ req'[s].devWasLive <=> device[token[t].device] = "live"
           /\ req'[s].locks = {} /\ req'[s].hits = {} /\ req'[s].new = NoToken
<1>1. req'[s] = [Idle EXCEPT !.op = "refresh", !.pc = "nowait", !.tok = t,
                             !.dev = token[t].device,
                             !.devWasLive = device[token[t].device] = "live"]
  BY DEF TypeOK, RefreshLookup
<1> QED
  BY <1>1 DEF Idle

(* What another session's step leaves a request with.                      *)
LEMMA OthersKeep ==
    ASSUME IInv, [Next]_vars, NEW s \in Sessions, SessionStep(s),
           NEW r \in Sessions \ {s}
    PROVE  InHand(r)' /\ HoldsItsToken(r)' /\ Accounted(r)' /\ DeviceChecked(r)'
<1>1. req'[r] = req[r] /\ req[r] \in Request
  BY OthersWait DEF IInv, TypeOK
<1>2. /\ Committed \subseteq Committed'
      /\ \A t \in Tokens : token[t].status = "revoked" => token'[t].status = "revoked"
  BY RowsMonotone
<1>3. \A d \in Devices : /\ device[d] # "absent" => device'[d] # "absent"
                         /\ device[d] = "revoked" => device'[d] = "revoked"
  BY DevicesStep
<1>4. \A t \in req[r].locks : t \in Live => t \in Live'
  BY HeldRowsKept
<1>5. InHand(r) /\ HoldsItsToken(r) /\ Accounted(r) /\ DeviceChecked(r)
  BY DEF IInv
<1>6. InHand(r)'
  BY <1>1, <1>2, <1>3, <1>5 DEF InHand
<1>7. HoldsItsToken(r)'
  BY <1>1, <1>4, <1>5 DEF HoldsItsToken, RefreshPcs
<1>8. Accounted(r)'
  <2>1. req[r].seen \subseteq Tokens
    BY <1>1 DEF Request
  <2> QED
    BY <1>1, <1>2, <1>4, <1>5, <2>1 DEF Accounted
<1>9. DeviceChecked(r)'
  BY <1>1, <1>3, <1>5 DEF DeviceChecked, InHand
<1> QED
  BY <1>6, <1>7, <1>8, <1>9

(* What its own step leaves a request with.                                *)
LEMMA OwnKept ==
    ASSUME IInv, [Next]_vars, NEW s \in Sessions, SessionStep(s)
    PROVE  InHand(s)' /\ HoldsItsToken(s)' /\ Accounted(s)' /\ DeviceChecked(s)'
<1> DEFINE Own == InHand(s)' /\ HoldsItsToken(s)' /\ Accounted(s)' /\ DeviceChecked(s)'
<1>1. /\ req \in [Sessions -> Request] /\ req[s] \in Request
      /\ InHand(s) /\ HoldsItsToken(s) /\ Accounted(s) /\ DeviceChecked(s)
  BY DEF IInv, TypeOK
<1> USE DEF InHand, HoldsItsToken, Accounted, DeviceChecked, RefreshPcs
<1>2. ASSUME req'[s] = Idle PROVE Own
  BY <1>2 DEF Idle
<1>3. ASSUME NEW d \in Devices, LoginKnownDevice(s, d) \/ LoginNewDevice(s, d) PROVE Own
  <2>1. req'[s] = [Idle EXCEPT !.op = "login", !.pc = "revoke", !.dev = d]
        /\ device'[d] # "absent"
    BY <1>1, <1>3 DEF LoginKnownDevice, LoginNewDevice, IInv, TypeOK
  <2> QED
    BY <2>1 DEF Idle
<1>4. ASSUME NEW d \in Devices, RevokeDeviceLookup(s, d) PROVE Own
  <2>1. req'[s] = [Idle EXCEPT !.op = "revokeDevice", !.pc = "update", !.dev = d]
        /\ device'[d] # "absent"
    BY <1>1, <1>4 DEF RevokeDeviceLookup, DeviceFound
  <2> QED
    BY <2>1 DEF Idle
<1>5. ASSUME NEW t \in Tokens, RefreshLookup(s, t) PROVE Own
  <2> DEFINE d == token[t].device
  <2>2. t \in Committed /\ UNCHANGED <<device, token>>
    BY <1>5 DEF RefreshLookup
  <2>3. /\ d \in Devices /\ device[d] # "absent"
        /\ device[d] # "live" => device[d] = "revoked"
    BY <2>2 DEF IInv, TypeOK, References
  <2>4. t \in Committed'
    BY <2>2 DEF Committed
  <2> QED
    BY <1>5, <2>2, <2>3, <2>4, LookupRequest DEF IInv
<1>6. ASSUME NEW t \in Tokens, NEW u \in Users, LogoutLookup(s, u, t) PROVE Own
  <2>1. req'[s] = [Idle EXCEPT !.op = "logout", !.pc = "revoke", !.tok = t]
    BY <1>1, <1>6 DEF LogoutLookup
  <2>2. t \in Committed'
    BY <1>6 DEF LogoutLookup, Committed
  <2> QED
    BY <2>1, <2>2 DEF Idle
<1>7. CASE CommitRevocation(s)
  <2>1. CASE req[s].op = "login"
    <3>1. req'[s] = [Idle EXCEPT !.op = "login", !.pc = "create", !.dev = req[s].dev]
      BY <1>1, <1>7, <2>1 DEF CommitRevocation
    <3>2. req[s].dev \in Devices /\ device'[req[s].dev] # "absent"
      BY <1>1, <2>1, DevicesStep
    <3> QED
      BY <3>1, <3>2 DEF Idle
  <2>2. CASE req[s].op # "login"
    BY <1>1, <1>2, <1>7, <2>2 DEF CommitRevocation
  <2> QED
    BY <2>1, <2>2
<1>8. CASE Reject(s) \/ CommitRotation(s) \/ \E t \in Tokens : CreateToken(s, t)
  BY <1>1, <1>2, <1>8 DEF Reject, CommitRotation, CreateToken
<1> DEFINE Same == UNCHANGED <<device, token>> /\ Committed' = Committed /\ Live' = Live
<1>9. ASSUME NEW t \in Tokens, LockTarget(s, t) PROVE Own
  <2>1. Same
    BY <1>9 DEF LockTarget, Committed, Live
  <2>2. CASE token[t].status = "live"
    <3>1. req'[s] = [req[s] EXCEPT !.targets = @ \ {t}, !.locks = @ \cup {t},
                                   !.hits = @ \cup {t}] /\ req[s].pc = "locking"
      BY <1>1, <1>9, <2>2 DEF LockTarget
    <3>2. t \in Live
      BY <2>2 DEF Live
    <3> QED
      BY <1>1, <2>1, <3>1, <3>2 DEF Request
  <2>3. CASE token[t].status # "live"
    <3>1. req'[s] = [req[s] EXCEPT !.targets = @ \ {t}] /\ req[s].pc = "locking"
          /\ t \in req[s].targets
      BY <1>1, <1>9, <2>3 DEF LockTarget
    <3>2. t \in req[s].seen => token[t].status = "revoked"
      BY <1>1, <2>3, <3>1 DEF IInv, TypeOK, Row, Committed
    <3> QED
      BY <1>1, <2>1, <3>1, <3>2 DEF Request
  <2> QED
    BY <2>2, <2>3

<1>10. ASSUME NEW t \in Tokens, Mint(s, t) PROVE Own
  <2>1. req'[s] = [req[s] EXCEPT !.pc = "commit", !.new = t, !.hits = {req[s].tok}]
        /\ req[s].pc = "mint"
    BY <1>1, <1>10 DEF Mint
  <2>2. Same
    BY <1>10 DEF Mint, Committed, Live
  <2> QED
    BY <1>1, <2>1, <2>2 DEF Request
<1>11. CASE RevokeSnapshot(s)
  <2> DEFINE found == {t \in Live : Matches(s, t)}
  <2>1. req'[s] = [req[s] EXCEPT !.pc = "locking", !.targets = found, !.seen = found]
        /\ req[s].pc = "revoke"
    BY <1>1, <1>11 DEF RevokeSnapshot
  <2>2. Same /\ found \subseteq Committed
    BY <1>11 DEF RevokeSnapshot, Committed, Live
  <2>3. req[s].hits = {}
    BY <1>1, <2>1
  <2> QED
    BY <1>1, <2>1, <2>2, <2>3 DEF Request
<1>12. CASE LockNoWait(s) \/ LockWait(s)
  <2>1. \/ req'[s] = [req[s] EXCEPT !.pc = "check", !.locks = {req[s].tok}]
        \/ req'[s] = [req[s] EXCEPT !.pc = "wait", !.contended = TRUE]
    BY <1>1, <1>12 DEF LockNoWait, LockWait
  <2>2. Same /\ req[s].pc \in {"nowait", "wait"}
    BY <1>12 DEF LockNoWait, LockWait, Committed, Live
  <2>3. CASE req'[s] = [req[s] EXCEPT !.pc = "check", !.locks = {req[s].tok}]
    BY <1>1, <2>2, <2>3 DEF Request
  <2>4. CASE req'[s] = [req[s] EXCEPT !.pc = "wait", !.contended = TRUE]
    BY <1>1, <2>2, <2>4 DEF Request
  <2> QED
    BY <2>1, <2>3, <2>4
<1>13. CASE DetectReuse(s)
  <2>1. req'[s] = [req[s] EXCEPT !.pc = "revoke"] /\ req[s].pc = "check" /\ Same
    BY <1>1, <1>13 DEF DetectReuse, Committed, Live
  <2> QED
    BY <1>1, <2>1 DEF Request
<1>14. CASE AcceptToken(s)
  <2>1. req'[s] = [req[s] EXCEPT !.pc = "device"] /\ req[s].pc = "check" /\ Same
    BY <1>1, <1>14 DEF AcceptToken, Committed, Live
  <2>2. req[s].tok \in Live
    BY <1>1, <1>14 DEF AcceptToken, IInv, TypeOK, Row, Committed, Live
  <2> QED
    BY <1>1, <2>1, <2>2 DEF Request
<1>15. ASSUME NEW next \in {"metadata", "mint"}, GetDevice(s, next) PROVE Own
  <2>1. req'[s] = [req[s] EXCEPT !.pc = next] /\ req[s].pc = "device" /\ Same
        /\ device[req[s].dev] = "live"
    BY <1>1, <1>15 DEF GetDevice, DeviceFound, Committed, Live
  <2> QED
    BY <1>1, <2>1 DEF Request
<1>16. CASE UpdateMetadata(s)
  <2>1. CASE Reject(s)
    BY <1>8, <2>1
  <2>2. CASE ~Reject(s)
    <3>1. req'[s] = [req[s] EXCEPT !.pc = "mint", !.devLock = TRUE] /\ Same
          /\ req[s].pc = "metadata"
      BY <1>1, <1>16, <2>2 DEF UpdateMetadata, Committed, Live
    <3> QED
      BY <1>1, <3>1 DEF Request
  <2> QED
    BY <2>1, <2>2
<1>17. CASE RevokeDeviceUpdate(s)
  <2>1. req'[s] = [req[s] EXCEPT !.pc = "revoke", !.devLock = DeviceFound(req[s].dev)]
        /\ req[s].pc = "update" /\ Same
    BY <1>1, <1>17 DEF RevokeDeviceUpdate, Committed, Live
  <2> QED
    BY <1>1, <2>1 DEF Request
<1> HIDE DEF Own
<1>18. Own
  BY <1>3, <1>4, <1>5, <1>6, <1>7, <1>8, <1>9, <1>10, <1>11, <1>12, <1>13, <1>14,
     <1>15, <1>16, <1>17, Zenon DEF SessionStep, Own
<1> QED
  BY <1>18 DEF Own

LEMMA RequestsNext ==
    ASSUME IInv, [Next]_vars
    PROVE  \A s \in Sessions : InHand(s)' /\ HoldsItsToken(s)' /\ Accounted(s)'
                               /\ DeviceChecked(s)'
<1>1. CASE UNCHANGED vars \/ \E t \in Tokens : Expire(t)
  <2>1. UNCHANGED <<device, token, req>>
    BY <1>1 DEF vars, Expire
  <2> QED
    BY <2>1 DEF IInv, InHand, HoldsItsToken, Accounted, DeviceChecked, Committed, Live
<1>2. ASSUME NEW s \in Sessions, SessionStep(s), NEW r \in Sessions
      PROVE  InHand(r)' /\ HoldsItsToken(r)' /\ Accounted(r)' /\ DeviceChecked(r)'
  <2>1. CASE r = s
    BY <1>2, <2>1, OwnKept
  <2>2. CASE r # s
    <3>1. r \in Sessions \ {s}
      BY <2>2
    <3> QED
      BY <1>2, <3>1, OthersKeep
  <2> QED
    BY <2>1, <2>2
<1> QED
  BY <1>1, <1>2, NextCases

(* A row lock is taken only when nobody else holds it.                     *)
LEMMA LocksNext ==
    ASSUME IInv, [Next]_vars
    PROVE  LocksExclusive'
<1>0. req \in [Sessions -> Request] /\ LocksExclusive
  BY DEF IInv, TypeOK
<1>1. CASE UNCHANGED vars \/ \E t \in Tokens : Expire(t)
  BY <1>0, <1>1 DEF vars, Expire, LocksExclusive
<1>2. ASSUME NEW s \in Sessions, SessionStep(s) PROVE LocksExclusive'
  <2>1. \A r \in Sessions \ {s} : req'[r] = req[r]
    BY <1>2, OthersWait DEF IInv
  <2> DEFINE Kept == req'[s].locks \subseteq req[s].locks
             Granted(t) == req'[s].locks \subseteq req[s].locks \cup {t} /\ TokenFree(s, t)
  <2>2. Kept \/ \E t \in Tokens \cup {req[s].tok} : Granted(t)
    <3>1. ASSUME NEW d \in Devices,
                 LoginKnownDevice(s, d) \/ LoginNewDevice(s, d) \/ RevokeDeviceLookup(s, d)
          PROVE  Kept
      <4>1. CASE LoginKnownDevice(s, d)
        BY <1>0, <4>1 DEF LoginKnownDevice, Idle
      <4>2. CASE LoginNewDevice(s, d)
        BY <1>0, <4>2 DEF LoginNewDevice, Idle
      <4>3. CASE RevokeDeviceLookup(s, d)
        BY <1>0, <4>3 DEF RevokeDeviceLookup, Idle
      <4> QED
        BY <3>1, <4>1, <4>2, <4>3
    <3>2. ASSUME NEW t \in Tokens, RefreshLookup(s, t) \/ CreateToken(s, t) PROVE Kept
      <4>1. CASE RefreshLookup(s, t)
        <5>1. TypeOK
          BY DEF IInv
        <5>2. req'[s].locks = {}
          BY <4>1, <5>1, LookupRequest
        <5> QED
          BY <5>2
      <4>2. CASE CreateToken(s, t)
        <5>1. req'[s] = Idle
          BY <1>0, <4>2 DEF CreateToken
        <5> QED
          BY <5>1 DEF Idle
      <4> QED
        BY <3>2, <4>1, <4>2
    <3>3. \A t \in Tokens, u \in Users : LogoutLookup(s, u, t) => Kept
      BY <1>0 DEF LogoutLookup, Idle
    <3>4. \A t \in Tokens : Mint(s, t) => Kept
      BY <1>0 DEF Mint, Request
    <3>5. ASSUME NEW t \in Tokens, LockTarget(s, t) PROVE Kept \/ Granted(t)
      <4>1. TokenFree(s, t)
        BY <3>5 DEF LockTarget
      <4>2. req'[s].locks = IF token[t].status = "live" THEN req[s].locks \cup {t}
                                                        ELSE req[s].locks
        BY <1>0, <3>5 DEF LockTarget, Request
      <4> QED
        BY <4>1, <4>2
    <3>6. RevokeSnapshot(s) => Kept
      <4> DEFINE found == {t \in Live : Matches(s, t)}
      <4>1. RevokeSnapshot(s) => req' = [req EXCEPT ![s].pc = "locking", ![s].targets = found,
                                                    ![s].seen = found]
        BY DEF RevokeSnapshot
      <4> HIDE DEF found
      <4> QED
        BY <1>0, <4>1 DEF Request
    <3>7. CommitRevocation(s) => Kept
      BY <1>0 DEF CommitRevocation, Idle
    <3>8. LockNoWait(s) \/ LockWait(s) => Kept \/ Granted(req[s].tok)
      BY <1>0 DEF LockNoWait, LockWait, Request
    <3>9. DetectReuse(s) \/ AcceptToken(s) \/ RevokeDeviceUpdate(s) => Kept
      BY <1>0 DEF DetectReuse, AcceptToken, RevokeDeviceUpdate, Request
    <3>10. Reject(s) \/ CommitRotation(s) => Kept
      BY <1>0 DEF Reject, CommitRotation, Idle
    <3>11. UpdateMetadata(s) => Kept
      BY <1>0, <3>10 DEF UpdateMetadata, Request
    <3>12. \A next \in {"metadata", "mint"} : GetDevice(s, next) => Kept
      BY <1>0 DEF GetDevice, Request
    <3> HIDE DEF Kept, Granted
    <3> QED
      BY <1>2, <3>1, <3>2, <3>3, <3>4, <3>5, <3>6, <3>7, <3>8, <3>9, <3>10, <3>11, <3>12
         DEF SessionStep
  <2>3. \A r \in Sessions \ {s} : req'[s].locks \cap req[r].locks = {}
    BY <1>0, <2>2 DEF LocksExclusive, TokenFree
  <2> QED
    BY <1>0, <2>1, <2>3 DEF LocksExclusive
<1> QED
  BY <1>1, <1>2, NextCases

(* A replacement's row is one no committed row, and no other session, has. *)
LEMMA ReplacementNext ==
    ASSUME IInv, [Next]_vars
    PROVE  \A s \in Sessions : Replacement(s)'
<1>0. /\ req \in [Sessions -> Request]
      /\ \A s \in Sessions : Replacement(s)
      /\ \A s \in Sessions : req[s].new \in Tokens \cup {NoToken}
  BY DEF IInv, TypeOK, Request, AnyToken
<1>1. CASE UNCHANGED vars \/ \E t \in Tokens : Expire(t)
  BY <1>0, <1>1 DEF vars, Expire, Replacement, Committed
<1>2. ASSUME NEW s \in Sessions, SessionStep(s) PROVE \A r \in Sessions : Replacement(r)'
  <2>1. \A r \in Sessions \ {s} : req'[r] = req[r]
    BY <1>2, OthersWait DEF IInv
  <2> DEFINE Idles == req'[s].new = NoToken /\ req'[s].pc # "commit"
             Keeps == req'[s].new = req[s].new
                      /\ (req[s].pc = "commit" <=> req'[s].pc = "commit")
  <2>2. CASE CommitRotation(s)
    <3>1. Idles /\ Committed' = Committed \cup {req[s].new} /\ req[s].pc = "commit"
      BY <1>0, <2>2, RotationRows DEF CommitRotation, Idle
    <3>2. req[s].new # NoToken
      BY <1>0, <3>1 DEF Replacement, NoToken, Tokens
    <3>3. \A r \in Sessions \ {s} : req[r].new # req[s].new
      BY <1>0, <3>1 DEF Replacement
    <3> QED
      BY <1>0, <2>1, <3>1, <3>2, <3>3 DEF Replacement, NoToken, Tokens
  <2>3. ASSUME NEW t \in Tokens, CreateToken(s, t) PROVE \A r \in Sessions : Replacement(r)'
    <3>1. Idles /\ Committed' = Committed \cup {t} /\ \A r \in Sessions : req[r].new # t
      BY <1>0, <2>3, CreationRows DEF CreateToken, Idle, IsFresh, Unused
    <3> QED
      BY <1>0, <2>1, <3>1 DEF Replacement, NoToken, Tokens
  <2>4. ASSUME NEW t \in Tokens, Mint(s, t) PROVE \A r \in Sessions : Replacement(r)'
    <3>1. /\ req'[s].new = t /\ req'[s].pc = "commit" /\ Committed' = Committed
          /\ t \in Tokens \ Committed /\ \A r \in Sessions : req[r].new # t
      BY <1>0, <2>4 DEF Mint, Request, IsFresh, Unused, Committed
    <3> QED
      BY <1>0, <2>1, <3>1 DEF Replacement
  <2>5. CASE CommitRevocation(s)
    <3>1. Idles /\ Committed' = Committed
      BY <1>0, <2>5, RevocationRows DEF CommitRevocation, Idle
    <3> QED
      BY <1>0, <2>1, <3>1 DEF Replacement, NoToken, Tokens
  <2>6. ASSUME Idles \/ Keeps, UNCHANGED token PROVE \A r \in Sessions : Replacement(r)'
    <3>1. Committed' = Committed
      BY <2>6 DEF Committed
    <3>2. CASE Idles
      BY <1>0, <2>1, <3>1, <3>2 DEF Replacement, NoToken, Tokens
    <3>3. CASE Keeps
      BY <1>0, <2>1, <3>1, <3>3 DEF Replacement
    <3> QED
      BY <2>6, <3>2, <3>3
  <2>7. ASSUME NEW d \in Devices,
               LoginKnownDevice(s, d) \/ LoginNewDevice(s, d) \/ RevokeDeviceLookup(s, d)
        PROVE  Idles /\ UNCHANGED token
    BY <1>0, <2>7 DEF LoginKnownDevice, LoginNewDevice, RevokeDeviceLookup, Idle
  <2>8. ASSUME NEW t \in Tokens, RefreshLookup(s, t) \/ \E u \in Users : LogoutLookup(s, u, t)
        PROVE  Idles /\ UNCHANGED token
    <3>1. CASE RefreshLookup(s, t)
      BY <3>1, LookupRequest DEF RefreshLookup, IInv
    <3>2. CASE \E u \in Users : LogoutLookup(s, u, t)
      BY <1>0, <3>2 DEF LogoutLookup, Idle
    <3> QED
      BY <2>8, <3>1, <3>2
  <2>9. ASSUME NEW t \in Tokens, LockTarget(s, t) PROVE Keeps /\ UNCHANGED token
    <3>1. UNCHANGED token
      BY <2>9 DEF LockTarget
    <3>2. Keeps
      BY <1>0, <2>9 DEF LockTarget, Request
    <3> QED
      BY <3>1, <3>2
  <2>10. ASSUME RevokeSnapshot(s) PROVE Keeps /\ UNCHANGED token
    <3> DEFINE found == {t \in Live : Matches(s, t)}
    <3>1. req' = [req EXCEPT ![s].pc = "locking", ![s].targets = found, ![s].seen = found]
          /\ req[s].pc = "revoke" /\ UNCHANGED token
      BY <2>10 DEF RevokeSnapshot
    <3> HIDE DEF found
    <3> QED
      BY <1>0, <3>1 DEF Request
  <2>11. ASSUME \/ LockNoWait(s) \/ LockWait(s) \/ DetectReuse(s) \/ AcceptToken(s)
                \/ RevokeDeviceUpdate(s)
         PROVE  Keeps /\ UNCHANGED token
    BY <1>0, <2>11 DEF LockNoWait, LockWait, DetectReuse, AcceptToken, RevokeDeviceUpdate, Request
  <2>12. ASSUME NEW next \in {"metadata", "mint"}, GetDevice(s, next)
         PROVE  Keeps /\ UNCHANGED token
    BY <1>0, <2>12 DEF GetDevice, Request
  <2>13. ASSUME Reject(s) PROVE Idles /\ UNCHANGED token
    BY <1>0, <2>13 DEF Reject, Idle
  <2>14. ASSUME UpdateMetadata(s) PROVE (Idles \/ Keeps) /\ UNCHANGED token
    BY <1>0, <2>13, <2>14 DEF UpdateMetadata, Request
  <2> HIDE DEF Idles, Keeps
  <2> QED
    BY <1>2, <2>2, <2>3, <2>4, <2>5, <2>6, <2>7, <2>8, <2>9, <2>10, <2>11, <2>12, <2>13,
       <2>14 DEF SessionStep
<1> QED
  BY <1>1, <1>2, NextCases

-----------------------------------------------------------------------------
(* Rows.                                                                   *)

LEMMA TypeNext ==
    ASSUME IInv, [Next]_vars
    PROVE  TypeOK'
<1>1. /\ device' \in [Devices -> {"absent", "live", "revoked"}]
      /\ token' \in [Tokens -> Row] /\ req' \in [Sessions -> Request]
  BY DevicesStep, RowsMonotone, ReqType
<1>2. expired' \in SUBSET Tokens
  <2>1. UNCHANGED expired \/ \E t \in Tokens : expired' = expired \cup {t}
    <3>1. UNCHANGED vars \/ (\E t \in Tokens : Expire(t)) =>
            UNCHANGED expired \/ \E t \in Tokens : expired' = expired \cup {t}
      BY DEF vars, Expire
    <3>2. ASSUME NEW s \in Sessions, SessionStep(s) PROVE UNCHANGED expired
      <4>1. \A d \in Devices :
              LoginKnownDevice(s, d) \/ LoginNewDevice(s, d) \/ RevokeDeviceLookup(s, d)
                => UNCHANGED expired
        BY DEF LoginKnownDevice, LoginNewDevice, RevokeDeviceLookup
      <4>2. \A t \in Tokens :
              RefreshLookup(s, t) \/ LockTarget(s, t) \/ Mint(s, t) \/ CreateToken(s, t)
                => UNCHANGED expired
        BY DEF RefreshLookup, LockTarget, Mint, CreateToken
      <4>3. \A t \in Tokens, u \in Users : LogoutLookup(s, u, t) => UNCHANGED expired
        BY DEF LogoutLookup
      <4>4. ASSUME \/ RevokeSnapshot(s) \/ CommitRevocation(s) \/ LockNoWait(s) \/ LockWait(s)
                   \/ DetectReuse(s) \/ AcceptToken(s) \/ CommitRotation(s)
                   \/ RevokeDeviceUpdate(s) \/ Reject(s)
            PROVE  UNCHANGED expired
        BY <4>4 DEF RevokeSnapshot, CommitRevocation, LockNoWait, LockWait, DetectReuse,
           AcceptToken, CommitRotation, RevokeDeviceUpdate, Reject
      <4>5. UpdateMetadata(s) => UNCHANGED expired
        BY DEF UpdateMetadata, Reject
      <4>6. \A next \in {"metadata", "mint"} : GetDevice(s, next) => UNCHANGED expired
        BY DEF GetDevice
      <4> QED
        BY <3>2, <4>1, <4>2, <4>3, <4>4, <4>5, <4>6 DEF SessionStep
    <3> QED
      BY <3>1, <3>2, NextCases, Zenon
  <2> QED
    BY <2>1 DEF IInv, TypeOK
<1>3. ended' \in SUBSET Tokens
  <2>1. ASSUME NEW s \in Sessions, CommitRevocation(s) PROVE ended' = ended \cup req[s].seen
    BY <2>1 DEF CommitRevocation
  <2>2. \A s \in Sessions : req[s].seen \subseteq Tokens
    BY DEF IInv, TypeOK, Request
  <2>3. ASSUME NEW s \in Sessions,
               \/ CommitRotation(s) \/ \E t \in Tokens : CreateToken(s, t)
               \/ \E d \in Devices : LoginNewDevice(s, d)
        PROVE  UNCHANGED ended
    BY <2>3 DEF CommitRotation, CreateToken, LoginNewDevice
  <2>4. ended \subseteq Tokens
    BY DEF IInv, TypeOK
  <2> QED
    BY <2>1, <2>2, <2>3, <2>4, RowsStep
<1>4. \A t \in Committed' : token'[t].family \in Tokens /\ token'[t].device \in Devices
  <2> DEFINE Placed == \A t \in Committed' : /\ token'[t].family \in Tokens
                                             /\ token'[t].device \in Devices
  <2>0. \A t \in Committed : token[t].family \in Tokens /\ token[t].device \in Devices
    BY DEF IInv, TypeOK
  <2>1. ASSUME UNCHANGED token PROVE Placed
    BY <2>0, <2>1 DEF Committed
  <2>2. ASSUME NEW s \in Sessions, CommitRevocation(s) PROVE Placed
    BY <2>0, <2>2, RevocationRows, RowsMonotone
  <2>3. ASSUME NEW s \in Sessions, NEW t \in Tokens, CreateToken(s, t) PROVE Placed
    <3>1. /\ Committed' = Committed \cup {t} /\ token'[t] = NewRow(req[s].dev, t)
          /\ req[s].dev \in Devices
      BY <2>3, CreationRows
    <3> QED
      BY <2>0, <3>1, RowsMonotone DEF NewRow
  <2>4. ASSUME NEW s \in Sessions, CommitRotation(s) PROVE Placed
    <3> DEFINE old == req[s].tok
    <3>1. /\ old \in Live /\ Committed' = Committed \cup {req[s].new}
          /\ token'[req[s].new] = NewRow(token[old].device, token[old].family)
      BY <2>4, RotationRows
    <3>2. old \in Committed
      BY <3>1 DEF Live, Committed
    <3> QED
      BY <2>0, <3>1, <3>2, RowsMonotone DEF NewRow
  <2>5. ASSUME NEW s \in Sessions, NEW d \in Devices, LoginNewDevice(s, d)
        PROVE  UNCHANGED token
    BY <2>5 DEF LoginNewDevice
  <2> HIDE DEF Placed
  <2>6. Placed
    BY <2>1, <2>2, <2>3, <2>4, <2>5, RowsStep
  <2> QED
    BY <2>6 DEF Placed
<1> QED
  BY <1>1, <1>2, <1>3, <1>4 DEF TypeOK

LEMMA ReferencesNext ==
    ASSUME IInv, [Next]_vars
    PROVE  References'
<1>0. /\ TypeOK /\ References /\ Committed \subseteq Tokens
      /\ \A t \in Committed : token[t].device \in Devices
  BY DEF IInv, TypeOK, Committed
<1>1. /\ Committed \subseteq Committed'
      /\ \A t \in Committed : /\ token'[t].family = token[t].family
                              /\ token'[t].device = token[t].device
  BY RowsMonotone
<1>2. \A d \in Devices : device[d] # "absent" => device'[d] # "absent"
  BY DevicesStep
<1>3. \A t \in Committed : /\ token'[t].family \in Committed'
                           /\ device'[token'[t].device] # "absent"
  BY <1>0, <1>1, <1>2 DEF References
<1>4. ASSUME Committed' = Committed,
             \A t \in Tokens : token'[t].replacedBy = token[t].replacedBy
      PROVE  References'
  BY <1>0, <1>3, <1>4 DEF References
<1>5. ASSUME UNCHANGED token PROVE References'
  BY <1>4, <1>5 DEF Committed
<1>6. ASSUME NEW s \in Sessions, CommitRevocation(s) PROVE References'
  BY <1>4, <1>6, RevocationRows
<1>7. ASSUME NEW s \in Sessions, NEW t \in Tokens, CreateToken(s, t) PROVE References'
  <2>1. /\ Committed' = Committed \cup {t} /\ token'[t] = NewRow(req[s].dev, t)
        /\ \A u \in Tokens \ {t} : token'[u] = token[u]
        /\ req[s].dev \in Devices
    BY <1>7, CreationRows
  <2>2. device'[req[s].dev] # "absent"
    BY <1>2, <1>7, <2>1 DEF CreateToken, IInv, InHand
  <2> QED
    BY <1>0, <1>3, <2>1, <2>2 DEF References, NewRow
<1>8. ASSUME NEW s \in Sessions, CommitRotation(s) PROVE References'
  <2> DEFINE old == req[s].tok
             new == req[s].new
  <2>1. /\ old \in Live /\ new \in Tokens \ Committed
        /\ Committed' = Committed \cup {new}
        /\ token'[old] = Rotated(token[old], new)
        /\ token'[new] = NewRow(token[old].device, token[old].family)
        /\ \A u \in Tokens \ {old, new} : token'[u] = token[u]
    BY <1>8, RotationRows
  <2>2. old \in Committed
    BY <2>1 DEF Live, Committed
  <2>3. token'[old].replacedBy = new /\ token'[new].replacedBy = NoToken
    BY <1>0, <2>1, <2>2 DEF Rotated, NewRow, TypeOK, Row
  <2>4. /\ token'[new].family \in Committed'
        /\ device'[token'[new].device] # "absent"
    BY <1>0, <1>1, <1>2, <2>1, <2>2 DEF NewRow, References
  <2> QED
    BY <1>0, <1>3, <2>1, <2>3, <2>4 DEF References
<1>9. ASSUME NEW s \in Sessions, NEW d \in Devices, LoginNewDevice(s, d)
      PROVE  UNCHANGED token
  BY <1>9 DEF LoginNewDevice
<1> QED
  BY <1>5, <1>6, <1>7, <1>8, <1>9, RowsStep

LEMMA OneLiveNext ==
    ASSUME IInv, [Next]_vars
    PROVE  OneLivePerFamily'
<1>0. /\ TypeOK /\ References /\ OneLivePerFamily /\ Live \subseteq Committed
      /\ Committed \subseteq Tokens
  BY DEF IInv, Live, Committed
<1>1. /\ \A t \in Committed : token'[t].family = token[t].family
  BY RowsMonotone
<1>2. ASSUME Live' \subseteq Live PROVE OneLivePerFamily'
  BY <1>0, <1>1, <1>2 DEF OneLivePerFamily
<1>3. ASSUME UNCHANGED token PROVE OneLivePerFamily'
  BY <1>2, <1>3 DEF Live
<1>4. ASSUME NEW s \in Sessions, CommitRevocation(s) PROVE OneLivePerFamily'
  BY <1>2, <1>4, RevocationRows
<1>5. ASSUME NEW s \in Sessions, NEW t \in Tokens, CreateToken(s, t) PROVE OneLivePerFamily'
  <2>1. /\ Live' = Live \cup {t} /\ token'[t].family = t /\ t \notin Committed
    <3>1. Live' = Live \cup {t} /\ token'[t] = NewRow(req[s].dev, t) /\ t \notin Committed
      BY <1>5, CreationRows
    <3> QED
      BY <3>1 DEF NewRow
  <2>2. \A u \in Live : token'[u].family # t
    BY <1>0, <1>1, <2>1 DEF References
  <2> QED
    BY <1>0, <1>1, <2>1, <2>2 DEF OneLivePerFamily
<1>6. ASSUME NEW s \in Sessions, CommitRotation(s) PROVE OneLivePerFamily'
  <2> DEFINE old == req[s].tok
             new == req[s].new
  <2>1. /\ old \in Live /\ Live' = (Live \ {old}) \cup {new}
        /\ token'[new].family = token[old].family
    <3>1. /\ old \in Live /\ Live' = (Live \ {old}) \cup {new}
          /\ token'[new] = NewRow(token[old].device, token[old].family)
      BY <1>6, RotationRows
    <3> QED
      BY <3>1 DEF NewRow
  <2>2. \A u \in Live \ {old} : token'[u].family # token'[new].family
    BY <1>0, <1>1, <2>1 DEF OneLivePerFamily
  <2> QED
    BY <1>0, <1>1, <2>1, <2>2 DEF OneLivePerFamily
<1>7. ASSUME NEW s \in Sessions, NEW d \in Devices, LoginNewDevice(s, d)
      PROVE  UNCHANGED token
  BY <1>7 DEF LoginNewDevice
<1> QED
  BY <1>3, <1>4, <1>5, <1>6, <1>7, RowsStep

(* The predecessor of t, as Lineage asks for it.                           *)
Replaces(p, t) ==
    /\ token[p].status = "revoked" /\ token[p].replacedBy = t
    /\ token[p].family = token[t].family /\ token[p].device = token[t].device
    /\ \A q \in Tokens : token[q].replacedBy = t => q = p

LEMMA LineageNext ==
    ASSUME IInv, [Next]_vars
    PROVE  Lineage'
<1>0. /\ TypeOK /\ References /\ Committed \subseteq Tokens /\ Live \subseteq Committed
      /\ \A t \in Committed : token[t].family # t => \E p \in Committed : Replaces(p, t)
  BY DEF IInv, Live, Committed, Lineage, Replaces
<1>1. /\ Committed \subseteq Committed'
      /\ \A t \in Committed : /\ token'[t].family = token[t].family
                              /\ token'[t].device = token[t].device
      /\ \A t \in Tokens : token[t].status = "revoked" => token'[t].status = "revoked"
  BY RowsMonotone
<1> DEFINE Linked(p, t) ==
             /\ token'[p].status = "revoked" /\ token'[p].replacedBy = t
             /\ token'[p].family = token'[t].family /\ token'[p].device = token'[t].device
             /\ \A q \in Tokens : token'[q].replacedBy = t => q = p
           Follows(t) == token'[t].family # t => \E p \in Committed' : Linked(p, t)
<1>2. ASSUME NEW t \in Committed, NEW p \in Committed, Replaces(p, t),
             token'[p].replacedBy = token[p].replacedBy,
             \A q \in Tokens : token'[q].replacedBy = t => token[q].replacedBy = t
      PROVE  Linked(p, t)
  BY <1>0, <1>1, <1>2 DEF Replaces
<1>3. ASSUME Committed' = Committed,
             \A t \in Tokens : token'[t].replacedBy = token[t].replacedBy
      PROVE  \A t \in Committed' : Follows(t)
  BY <1>0, <1>1, <1>2, <1>3
<1>4. ASSUME UNCHANGED token PROVE \A t \in Committed' : Follows(t)
  BY <1>3, <1>4 DEF Committed
<1>5. ASSUME NEW s \in Sessions, CommitRevocation(s) PROVE \A t \in Committed' : Follows(t)
  BY <1>3, <1>5, RevocationRows
<1>6. ASSUME NEW s \in Sessions, NEW u \in Tokens, CreateToken(s, u)
      PROVE  \A t \in Committed' : Follows(t)
  <2>1. /\ Committed' = Committed \cup {u} /\ u \notin Committed
        /\ \A q \in Tokens \ {u} : token'[q] = token[q]
        /\ token'[u].family = u /\ token'[u].replacedBy = NoToken
    <3>1. /\ Committed' = Committed \cup {u} /\ u \notin Committed
          /\ \A q \in Tokens \ {u} : token'[q] = token[q]
          /\ token'[u] = NewRow(req[s].dev, u)
      BY <1>6, CreationRows
    <3> QED
      BY <3>1 DEF NewRow
  <2>2. \A t \in Committed, q \in Tokens :
          token'[q].replacedBy = t => token[q].replacedBy = t
    BY <1>0, <2>1 DEF NoToken, Tokens
  <2>3. ASSUME NEW t \in Committed, token'[t].family # t
        PROVE  \E p \in Committed' : Linked(p, t)
    <3>1. PICK p \in Committed : Replaces(p, t)
      BY <1>0, <1>1, <2>3
    <3>2. token'[p].replacedBy = token[p].replacedBy
      BY <1>0, <2>1
    <3> QED
      BY <1>1, <1>2, <2>2, <3>1, <3>2
  <2> QED
    BY <2>1, <2>3
<1>7. ASSUME NEW s \in Sessions, CommitRotation(s) PROVE \A t \in Committed' : Follows(t)
  <2> DEFINE old == req[s].tok
             new == req[s].new
  <2>1. /\ old \in Live /\ new \in Tokens \ Committed
        /\ Committed' = Committed \cup {new}
        /\ token'[old] = Rotated(token[old], new)
        /\ token'[new] = NewRow(token[old].device, token[old].family)
        /\ \A u \in Tokens \ {old, new} : token'[u] = token[u]
    BY <1>7, RotationRows
  <2>2. old \in Tokens /\ old \in Committed /\ token[old].status = "live"
    BY <1>0, <2>1 DEF Live
  <2>3. /\ token'[old].status = "revoked" /\ token'[old].replacedBy = new
        /\ token'[new].replacedBy = NoToken
        /\ token'[new].family = token[old].family
        /\ token'[new].device = token[old].device
    BY <1>0, <2>1, <2>2 DEF Rotated, NewRow, TypeOK, Row
  <2>4. \A q \in Tokens : token[q].replacedBy # new
    BY <1>0, <2>1 DEF References, NoToken, Tokens
  <2>5. Linked(old, new)
    <3>1. \A q \in Tokens : token'[q].replacedBy = new => q = old
      BY <2>1, <2>3, <2>4 DEF NoToken, Tokens
    <3> QED
      BY <1>1, <2>2, <2>3, <3>1 DEF Replaces
  <2>6. \A t \in Committed, q \in Tokens :
          token'[q].replacedBy = t => token[q].replacedBy = t
    BY <1>0, <2>1, <2>3 DEF NoToken, Tokens
  <2>7. ASSUME NEW t \in Committed, token'[t].family # t
        PROVE  \E p \in Committed' : Linked(p, t)
    <3>1. PICK p \in Committed : Replaces(p, t)
      BY <1>0, <1>1, <2>7
    <3>2. p \in Tokens \ {old, new}
      BY <1>0, <2>1, <2>2, <3>1 DEF Replaces
    <3>3. token'[p].replacedBy = token[p].replacedBy
      BY <2>1, <3>2
    <3> QED
      BY <1>1, <1>2, <2>6, <3>1, <3>3
  <2> QED
    BY <1>1, <2>1, <2>2, <2>5, <2>7
<1>8. ASSUME NEW s \in Sessions, NEW d \in Devices, LoginNewDevice(s, d)
      PROVE  UNCHANGED token
  BY <1>8 DEF LoginNewDevice
<1> HIDE DEF Follows
<1>9. \A t \in Committed' : Follows(t)
  BY <1>4, <1>5, <1>6, <1>7, <1>8, RowsStep
<1> QED
  BY <1>9 DEF Follows, Lineage

LEMMA RevokedNext ==
    ASSUME IInv, [Next]_vars
    PROVE  RevocationCoversSnapshot'
<1>0. /\ RevocationCoversSnapshot /\ ended \subseteq Tokens
      /\ \A t \in Tokens : token[t].status = "revoked" => token'[t].status = "revoked"
  BY RowsMonotone DEF IInv, TypeOK
<1>1. ASSUME UNCHANGED ended PROVE RevocationCoversSnapshot'
  BY <1>0, <1>1 DEF RevocationCoversSnapshot
<1>2. ASSUME NEW s \in Sessions, CommitRevocation(s) PROVE RevocationCoversSnapshot'
  <2>1. /\ ended' = ended \cup req[s].seen
        /\ \A t \in req[s].seen : t \in req[s].hits \/ token[t].status = "revoked"
        /\ req[s].seen \subseteq Tokens
    BY <1>2 DEF CommitRevocation, IInv, Accounted, Committed
  <2>2. \A t \in req[s].hits : token'[t].status = "revoked"
    BY <1>2, RevocationRows
  <2> QED
    BY <1>0, <2>1, <2>2 DEF RevocationCoversSnapshot
<1>3. ASSUME NEW s \in Sessions,
             \/ CommitRotation(s) \/ \E t \in Tokens : CreateToken(s, t)
             \/ \E d \in Devices : LoginNewDevice(s, d)
      PROVE  UNCHANGED ended
  BY <1>3 DEF CommitRotation, CreateToken, LoginNewDevice
<1> QED
  BY <1>1, <1>2, <1>3, RowsStep

-----------------------------------------------------------------------------
(* The theorems.                                                           *)

LEMMA IInvInit == Init => IInv
<1> SUFFICES ASSUME Init PROVE IInv
  OBVIOUS
<1>1. TypeOK
  BY TypeInit
<1>2. /\ Committed = {} /\ Live = {} /\ ended = {}
      /\ \A t \in Tokens : token[t].replacedBy = NoToken
      /\ \A s \in Sessions : req[s] = Idle
  BY DEF Init, Committed, Live, NoRow
<1>3. References /\ OneLivePerFamily /\ Lineage /\ RevocationCoversSnapshot
  BY <1>2 DEF References, OneLivePerFamily, Lineage, RevocationCoversSnapshot
<1>4. /\ LocksExclusive
      /\ \A s \in Sessions : InHand(s) /\ HoldsItsToken(s) /\ Accounted(s)
                             /\ Replacement(s) /\ DeviceChecked(s)
  BY <1>2 DEF LocksExclusive, InHand, HoldsItsToken, Accounted, Replacement, DeviceChecked,
     Idle, RefreshPcs, NoToken
<1> QED
  BY <1>1, <1>3, <1>4 DEF IInv

LEMMA IInvNext == IInv /\ [Next]_vars => IInv'
<1> SUFFICES ASSUME IInv, [Next]_vars PROVE IInv'
  OBVIOUS
<1> QED
  BY TypeNext, ReferencesNext, LocksNext, RequestsNext, ReplacementNext, OneLiveNext,
     LineageNext, RevokedNext DEF IInv

(* The tables and the requests in flight are in a consistent state in      *)
(* every reachable state, whatever requests run and fail.                  *)
THEOREM Invariant == Spec => []IInv
  BY IInvInit, IInvNext, PTL DEF Spec

(* Type correctness: every row and request is well-formed.                 *)
THEOREM TypeCorrect == Spec => []TypeOK
<1>1. IInv => TypeOK
  BY DEF IInv
<1> QED
  BY <1>1, Invariant, PTL

(* refreshTx: however many requests present the same token at once, a      *)
(* family never has two live tokens.                                       *)
THEOREM FamiliesStaySingle == Spec => []OneLivePerFamily
<1>1. IInv => OneLivePerFamily
  BY DEF IInv
<1> QED
  BY <1>1, Invariant, PTL

(* refreshTx: the replacement and the link to it commit together, so every *)
(* token after a family's first one replaces exactly one revoked token of  *)
(* the same family and device.                                             *)
THEOREM LineageKept == Spec => []Lineage
<1>1. IInv => Lineage
  BY DEF IInv
<1> QED
  BY <1>1, Invariant, PTL

(* Logout, reuse detection, RevokeDevice and Login: when the revocation    *)
(* has committed, no token its UPDATE found is live, whatever rotated it   *)
(* meanwhile, and none becomes live again.                                 *)
THEOREM RevocationsHold == Spec => []RevocationCoversSnapshot
<1>1. IInv => RevocationCoversSnapshot
  BY DEF IInv
<1> QED
  BY <1>1, Invariant, PTL

(* GetDeviceByID inside refreshTx: a refresh that starts after its device  *)
(* was revoked does not come to its commit.                                *)
THEOREM RevokedDeviceNeverRefreshes == Spec => []RevokedDeviceStaysOut
<1>1. IInv => RevokedDeviceStaysOut
  BY DEF IInv, DeviceChecked, RevokedDeviceStaysOut
<1> QED
  BY <1>1, Invariant, PTL

-----------------------------------------------------------------------------
(* RefreshTokens implements TokenFamilies.                                 *)

LEMMA NotIssued ==
    ASSUME TypeOK, NEW t, t \notin Committed
    PROVE  t \notin Families!Issued
<1>1. ASSUME NEW f \in Tokens
      PROVE  OfFamily(Live)[f] \cup OfFamily(Committed \ Live)[f] \subseteq Committed
  BY DEF OfFamily, Live, Committed
<1> QED
  BY <1>1 DEF Families!Issued

LEMMA SameFamilies ==
    ASSUME UNCHANGED token
    PROVE  UNCHANGED Families!vars
  BY DEF Families!vars, OfFamily, Live, Committed

LEMMA FamiliesIssue ==
    ASSUME IInv, NEW s \in Sessions, NEW t \in Tokens, CreateToken(s, t)
    PROVE  Families!Issue(t)
<1>1. /\ Live' = Live \cup {t} /\ Committed' = Committed \cup {t} /\ t \notin Committed
      /\ \A u \in Tokens \ {t} : token'[u] = token[u]
      /\ token'[t].family = t
  <2>1. /\ Live' = Live \cup {t} /\ Committed' = Committed \cup {t} /\ t \notin Committed
        /\ \A u \in Tokens \ {t} : token'[u] = token[u]
        /\ token'[t] = NewRow(req[s].dev, t)
    BY CreationRows
  <2> QED
    BY <2>1 DEF NewRow
<1>2. /\ TypeOK /\ Live \subseteq Committed /\ Committed \subseteq Tokens
      /\ \A u \in Committed : token[u].family # t
  BY <1>1 DEF IInv, References, Live, Committed
<1>3. OfFamily(Live)[t] = {} /\ OfFamily(Committed \ Live)[t] = {}
  BY <1>2 DEF OfFamily
<1>4. OfFamily(Live)' = [OfFamily(Live) EXCEPT ![t] = {t}]
  <2>1. ASSUME NEW f \in Tokens
        PROVE  {u \in Live' : token'[u].family = f}
                   = IF f = t THEN {t} ELSE {u \in Live : token[u].family = f}
    BY <1>1, <1>2
  <2> QED
    BY <2>1 DEF OfFamily
<1>5. UNCHANGED OfFamily(Committed \ Live)
  <2>1. ASSUME NEW f \in Tokens
        PROVE  {u \in Committed' \ Live' : token'[u].family = f}
                   = {u \in Committed \ Live : token[u].family = f}
    BY <1>1, <1>2
  <2> QED
    BY <2>1 DEF OfFamily
<1>6. t \notin Families!Issued
  BY <1>1, <1>2, NotIssued
<1> QED
  BY <1>3, <1>4, <1>5, <1>6 DEF Families!Issue

LEMMA FamiliesRotate ==
    ASSUME IInv, NEW s \in Sessions, CommitRotation(s)
    PROVE  \E f, t, u \in Tokens : Families!Rotate(f, t, u)
<1> DEFINE old == req[s].tok
           new == req[s].new
           fam == token[old].family
<1>1. /\ old \in Live /\ new \in Tokens \ Committed
      /\ Live' = (Live \ {old}) \cup {new} /\ Committed' = Committed \cup {new}
      /\ \A u \in Tokens \ {old, new} : token'[u] = token[u]
      /\ token'[old].family = fam /\ token'[new].family = fam
  <2>1. /\ old \in Live /\ new \in Tokens \ Committed
        /\ Live' = (Live \ {old}) \cup {new} /\ Committed' = Committed \cup {new}
        /\ \A u \in Tokens \ {old, new} : token'[u] = token[u]
        /\ token'[new] = NewRow(token[old].device, fam)
    BY RotationRows
  <2>2. old \in Committed
    BY <2>1 DEF Live, Committed
  <2>3. token'[old].family = fam
    BY <2>2, RowsMonotone DEF Next, Step, Refresh
  <2> QED
    BY <2>1, <2>3 DEF NewRow
<1>2. /\ TypeOK /\ Live \subseteq Committed /\ Committed \subseteq Tokens
      /\ fam \in Tokens
      /\ \A u \in Live \ {old} : token[u].family # fam
  BY <1>1 DEF IInv, TypeOK, OneLivePerFamily, Live, Committed
<1> HIDE DEF old, new, fam
<1>3. OfFamily(Live)[fam] = {old}
  BY <1>1, <1>2 DEF OfFamily, fam
<1>4. OfFamily(Live)' = [OfFamily(Live) EXCEPT ![fam] = {new}]
  <2>1. ASSUME NEW f \in Tokens
        PROVE  {u \in Live' : token'[u].family = f}
                   = IF f = fam THEN {new} ELSE {u \in Live : token[u].family = f}
    BY <1>1, <1>2 DEF fam
  <2> QED
    BY <2>1 DEF OfFamily
<1>5. OfFamily(Committed \ Live)' = [OfFamily(Committed \ Live) EXCEPT ![fam] = @ \cup {old}]
  <2>1. ASSUME NEW f \in Tokens
        PROVE  {u \in Committed' \ Live' : token'[u].family = f}
                   = {u \in Committed \ Live : token[u].family = f}
                         \cup (IF f = fam THEN {old} ELSE {})
    BY <1>1, <1>2 DEF fam
  <2> QED
    BY <1>2, <2>1 DEF OfFamily
<1>6. new \notin Families!Issued
  BY <1>1, <1>2, NotIssued
<1>7. Families!Rotate(fam, old, new)
  BY <1>3, <1>4, <1>5, <1>6 DEF Families!Rotate
<1> QED
  BY <1>1, <1>2, <1>7

LEMMA FamiliesEnd ==
    ASSUME IInv, NEW s \in Sessions, CommitRevocation(s)
    PROVE  \E F \in SUBSET Tokens : Families!End(F)
<1> DEFINE hits == req[s].hits
           F == {f \in Tokens : \E t \in hits : token[t].family = f}
<1>1. /\ Live' = Live \ hits /\ Committed' = Committed
      /\ \A t \in Tokens : token'[t].family = token[t].family
  BY RevocationRows
<1>2. /\ Live \subseteq Committed /\ Committed \subseteq Tokens /\ hits \subseteq Live
      /\ \A t, u \in Live : token[t].family = token[u].family => t = u
  BY DEF IInv, OneLivePerFamily, Live, Committed, CommitRevocation, Accounted
<1>3. \A f \in Tokens, t \in Live : token[t].family = f => (t \in hits <=> f \in F)
  BY <1>2
<1> HIDE DEF hits, F
<1>4. OfFamily(Live)' = [f \in Tokens |-> IF f \in F THEN {} ELSE OfFamily(Live)[f]]
  <2>1. ASSUME NEW f \in Tokens
        PROVE  {t \in Live' : token'[t].family = f}
                   = IF f \in F THEN {} ELSE {t \in Live : token[t].family = f}
    BY <1>1, <1>2, <1>3
  <2> QED
    BY <2>1 DEF OfFamily
<1>5. OfFamily(Committed \ Live)'
        = [f \in Tokens |-> IF f \in F
                            THEN OfFamily(Committed \ Live)[f] \cup OfFamily(Live)[f]
                            ELSE OfFamily(Committed \ Live)[f]]
  <2>1. ASSUME NEW f \in Tokens
        PROVE  {t \in Committed' \ Live' : token'[t].family = f}
                   = IF f \in F
                     THEN {t \in Committed \ Live : token[t].family = f}
                              \cup {t \in Live : token[t].family = f}
                     ELSE {t \in Committed \ Live : token[t].family = f}
    BY <1>1, <1>2, <1>3
  <2> QED
    BY <2>1 DEF OfFamily
<1>6. Families!End(F)
  BY <1>4, <1>5 DEF Families!End
<1> QED
  BY <1>6 DEF F

LEMMA FamiliesInit == Init => Families!Init
  BY DEF Init, Families!Init, OfFamily, Live, Committed, NoRow

LEMMA FamiliesNext == IInv /\ [Next]_vars => [Families!Next]_Families!vars
<1> SUFFICES ASSUME IInv, [Next]_vars PROVE [Families!Next]_Families!vars
  OBVIOUS
<1>1. CASE UNCHANGED token
  BY <1>1, SameFamilies
<1>2. ASSUME NEW s \in Sessions, NEW d \in Devices, LoginNewDevice(s, d)
      PROVE  UNCHANGED token
  BY <1>2 DEF LoginNewDevice
<1>3. ASSUME NEW s \in Sessions, CommitRevocation(s) PROVE Families!Next
  BY <1>3, FamiliesEnd DEF Families!Next
<1>4. ASSUME NEW s \in Sessions, CommitRotation(s) PROVE Families!Next
  BY <1>4, FamiliesRotate DEF Families!Next
<1>5. ASSUME NEW s \in Sessions, NEW t \in Tokens, CreateToken(s, t) PROVE Families!Next
  BY <1>5, FamiliesIssue DEF Families!Next
<1> QED
  BY <1>1, <1>2, <1>3, <1>4, <1>5, RowsStep, Zenon

(* refreshTx, Login, Logout and RevokeDevice implement TokenFamilies: a    *)
(* token is issued once and exchanged at most once, by one request, and a  *)
(* family that a revocation ended never gets a valid token again.          *)
THEOREM TokensImplementFamilies == Spec => ImplementsFamilies
<1>1. Init => Families!Init
  BY FamiliesInit
<1>2. IInv /\ [Next]_vars => [Families!Next]_Families!vars
  BY FamiliesNext
<1> QED
  BY <1>1, <1>2, Invariant, PTL DEF Spec, ImplementsFamilies, Families!Spec

=============================================================================
