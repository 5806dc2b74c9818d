-------------------------- MODULE ApiServerProofs --------------------------
(***************************************************************************)
(* Proofs about ApiServer, for every set of accounts, devices, sessions    *)
(* and deployments and any number of starts and requests.  The invariant   *)
(* of the requests is RefreshTokensProofs'; the process adds its own.      *)
(***************************************************************************)
EXTENDS ApiServer, RefreshTokensProofs, TLAPS

-----------------------------------------------------------------------------
(* The inductive invariant.                                                *)

\* A process that runs has a key, outside development the configured one,
\* and so has every access token.
KeysConfigured ==
    /\ proc.phase # "down" => proc.key \in Keys
    /\ deployment.environment # "development" =>
          /\ proc.phase # "down" => proc.key = ConfiguredKey
          /\ \A u \in Users : access[u] \subseteq {ConfiguredKey}

\* A process that will exit with code 0 has answered everything, and takes
\* nothing new.
ExitsDrained == proc.phase = "closing" /\ proc.code = 0 => InFlight = {}

ServerIInv == IInv /\ ServerTypeOK /\ KeysConfigured /\ ExitsDrained /\ CleanExit

-----------------------------------------------------------------------------
(* The requests under the server.                                          *)

(* A statement of a request is a step of RefreshTokens.                    *)
LEMMA RequestStep ==
    ASSUME NEW s \in Sessions, Accept(s) \/ Proceed(s) \/ Abort(s) \/ RequestFails(s)
    PROVE  Next
<1>1. Accept(s) => Start(s)
  BY DEF Accept, Start
<1>2. Proceed(s) => Step(s)
  BY DEF Proceed
<1>3. Abort(s) \/ RequestFails(s) => DeadlockAbort(s) \/ Fail(s)
  BY DEF Abort, RequestFails
<1> QED
  BY <1>1, <1>2, <1>3 DEF Next

(* Every step of the server lets the requests be, lets one of them go on,  *)
(* or ends them all.                                                       *)
LEMMA ServerCases ==
    ASSUME [ServerNext]_allVars
    PROVE  \/ UNCHANGED vars
           \/ \E s \in Sessions : Accept(s) \/ Proceed(s) \/ Abort(s) \/ RequestFails(s)
           \/ \E t \in Tokens : TokenExpires(t)
           \/ PoolCloses \/ Kill
<1>1. UNCHANGED allVars => UNCHANGED vars
  BY DEF allVars
<1>2. Launch \/ LaunchFails => UNCHANGED vars
  BY DEF Launch, LaunchFails
<1>3. ListenFails \/ Signal \/ ShutdownReturns \/ ShutdownTimesOut => UNCHANGED vars
  BY DEF ListenFails, Signal, ShutdownReturns, ShutdownTimesOut, Return
<1> QED
  BY <1>1, <1>2, <1>3 DEF ServerNext

(* The end of the process rolls open transactions back: the rows are those *)
(* of a reachable state, and no request is left.                           *)
LEMMA EndKeepsIInv ==
    ASSUME IInv, UNCHANGED <<device, token, expired, ended>>, req' = [s \in Sessions |-> Idle]
    PROVE  IInv'
<1>1. \A s \in Sessions : req'[s] = Idle
  OBVIOUS
<1>2. Committed' = Committed /\ Live' = Live
  BY DEF Committed, Live
<1>3. TypeOK'
  BY <1>2, IdleTypes DEF IInv, TypeOK
<1>4. References' /\ OneLivePerFamily' /\ Lineage' /\ RevocationCoversSnapshot'
  BY <1>2 DEF IInv, References, OneLivePerFamily, Lineage, RevocationCoversSnapshot
<1>5. /\ LocksExclusive'
      /\ \A s \in Sessions : InHand(s)' /\ HoldsItsToken(s)' /\ Accounted(s)'
                             /\ Replacement(s)' /\ DeviceChecked(s)'
  BY <1>1 DEF LocksExclusive, InHand, HoldsItsToken, Accounted, Replacement, DeviceChecked,
     Idle, RefreshPcs, NoToken
<1> QED
  BY <1>3, <1>4, <1>5 DEF IInv

LEMMA RequestsUnderServer ==
    ASSUME IInv, [ServerNext]_allVars
    PROVE  IInv'
<1>1. CASE UNCHANGED vars
  BY <1>1, IInvNext
<1>2. ASSUME NEW s \in Sessions, Accept(s) \/ Proceed(s) \/ Abort(s) \/ RequestFails(s)
      PROVE  IInv'
  BY <1>2, RequestStep, IInvNext
<1>3. ASSUME NEW t \in Tokens, TokenExpires(t) PROVE IInv'
  BY <1>3, IInvNext DEF TokenExpires, Next
<1>4. CASE PoolCloses \/ Kill
  BY <1>4, EndKeepsIInv DEF PoolCloses, Kill, End
<1> QED
  BY <1>1, <1>2, <1>3, <1>4, ServerCases

(* A request that has ended does not go on by itself.                      *)
LEMMA IdleStays ==
    ASSUME IInv, InFlight = {}, NEW s \in Sessions, Step(s) \/ Fail(s) \/ DeadlockAbort(s)
    PROVE  InFlight' = {}
<1>1. /\ req[s].op = "idle" /\ req[s].pc = "idle" /\ req \in [Sessions -> Request]
      /\ \A r \in Sessions : req[r].op = "idle"
  BY DEF InFlight, IInv, InHand, TypeOK
<1>2. ~Step(s)
  BY <1>1 DEF Step, Revoke, Refresh, RevokeSnapshot, LockTarget, CommitRevocation, LockNoWait,
     LockWait, RefuseToken, DetectReuse, AcceptToken, GetDevice, DeviceGone, UpdateMetadata,
     Mint, CommitRotation, CreateToken, RevokeDeviceUpdate, OutOfTokens
<1>3. ~Fail(s)
  BY <1>1 DEF Fail
<1>4. DeadlockAbort(s) => req' = [req EXCEPT ![s] = Idle]
  BY DEF DeadlockAbort, Reject
<1> QED
  BY <1>1, <1>2, <1>3, <1>4 DEF InFlight, Idle

-----------------------------------------------------------------------------
(* Types.                                                                  *)

LEMMA DownType == \A code \in Nat : Down(code) \in Proc /\ Down(code).phase = "down"
                                    /\ Down(code).code = code
  BY DEF Down, Proc

LEMMA EndingType ==
    ASSUME NEW p \in Proc
    PROVE  /\ [p EXCEPT !.phase = "draining"] \in Proc
           /\ \A code \in {0, 1} : [p EXCEPT !.phase = "closing", !.code = code] \in Proc
<1>1. [p EXCEPT !.phase = "draining"] \in Proc
  BY DEF Proc
<1>2. ASSUME NEW code \in Nat
      PROVE  [p EXCEPT !.phase = "closing", !.code = code] \in Proc
  BY DEF Proc
<1> QED
  BY <1>1, <1>2

(* A process starts with the configured key, or in development with one of *)
(* its own.                                                                *)
LEMMA StartKey ==
    ASSUME ServerTypeOK, starts < MaxStarts, NEW k \in LoadOrGenerateSigningKey
    PROVE  k \in Keys /\ (deployment.environment # "development" => k = ConfiguredKey)
<1>1. /\ starts \in Nat /\ MaxStarts \in Nat
      /\ deployment.signingKey \in {"unset", "malformed", "set"}
  BY ServerAssumption DEF ServerTypeOK, Deployment
<1>2. k = ConfiguredKey \/ (deployment.environment = "development" /\ k = starts + 1)
  BY <1>1 DEF LoadOrGenerateSigningKey
<1> QED
  BY <1>1, <1>2 DEF Keys, ConfiguredKey

(* The row a pair is issued for belongs to a device, and its token is      *)
(* signed with the running process's key.                                  *)
LEMMA PairKey ==
    ASSUME ServerIInv, NEW s \in Sessions, Proceed(s)
    PROVE  \/ UNCHANGED access
           \/ /\ access' = [access EXCEPT ![Owner[req[s].dev]] = @ \cup {proc.key}]
              /\ Owner[req[s].dev] \in Users /\ proc.phase # "down"
<1>1. CASE IssuesPair(s)
  <2>1. req[s].dev \in Devices
    BY <1>1 DEF IssuesPair, ServerIInv, IInv, InHand, RefreshPcs
  <2>2. proc.phase # "down"
    BY DEF Proceed, MayRun
  <2> QED
    BY <1>1, <2>1, <2>2, DevicesAssumption DEF Proceed
<1>2. CASE ~IssuesPair(s)
  BY <1>2 DEF Proceed
<1> QED
  BY <1>1, <1>2

LEMMA ServerTypeNext ==
    ASSUME ServerIInv, [ServerNext]_allVars
    PROVE  ServerTypeOK'
<1>1. TypeOK'
  BY RequestsUnderServer DEF ServerIInv, IInv
<1> USE DEF ServerIInv, ServerTypeOK
<1>2. CASE UNCHANGED allVars
  BY <1>1, <1>2 DEF allVars, serverVars
<1>3. CASE Launch
  <2>1. PICK k \in LoadOrGenerateSigningKey : proc' = [phase |-> "serving", key |-> k, code |-> 0]
    BY <1>3 DEF Launch
  <2>2. proc' \in Proc
    BY <1>3, <2>1, StartKey DEF Launch, Proc
  <2>3. starts' \in 0..MaxStarts
    BY <1>3, ServerAssumption DEF Launch
  <2> QED
    BY <1>1, <1>3, <2>2, <2>3 DEF Launch
<1>4. CASE LaunchFails
  <2>1. proc' \in Proc
    BY <1>4, DownType DEF LaunchFails
  <2>2. starts' \in 0..MaxStarts
    BY <1>4, ServerAssumption DEF LaunchFails
  <2> QED
    BY <1>1, <1>4, <2>1, <2>2 DEF LaunchFails
<1>5. CASE ListenFails \/ Signal \/ ShutdownReturns \/ ShutdownTimesOut
  <2>0. proc \in Proc
    OBVIOUS
  <2>1. proc' = [proc EXCEPT !.phase = "draining"]
        \/ \E code \in {0, 1} : proc' = [proc EXCEPT !.phase = "closing", !.code = code]
    BY <1>5 DEF ListenFails, Signal, ShutdownReturns, ShutdownTimesOut, Return
  <2>2. proc' \in Proc
    BY <2>0, <2>1, EndingType
  <2>3. UNCHANGED <<deployment, starts, access, accepted, cut>>
    BY <1>5 DEF ListenFails, Signal, ShutdownReturns, ShutdownTimesOut, Return
  <2> QED
    BY <1>1, <2>2, <2>3
<1>6. CASE PoolCloses \/ Kill
  <2>1. proc.code \in Nat /\ Killed \in Nat
    BY DEF Proc, Killed
  <2>2. proc' \in Proc /\ cut' \in SUBSET Sessions
    BY <1>6, <2>1, DownType DEF PoolCloses, Kill, End, InFlight
  <2> QED
    BY <1>1, <1>6, <2>2 DEF PoolCloses, Kill, End
<1>7. ASSUME NEW s \in Sessions, Accept(s) PROVE ServerTypeOK'
  <2>1. accepted' \in 0..MaxRequests
    BY <1>7, ServerAssumption DEF Accept
  <2> QED
    BY <1>1, <1>7, <2>1 DEF Accept
<1>8. ASSUME NEW s \in Sessions, Proceed(s) PROVE ServerTypeOK'
  <2>1. access' \in [Users -> SUBSET Keys]
    BY <1>8, PairKey DEF KeysConfigured
  <2> QED
    BY <1>1, <1>8, <2>1 DEF Proceed
<1>9. ASSUME NEW s \in Sessions, Abort(s) \/ RequestFails(s) PROVE ServerTypeOK'
  BY <1>1, <1>9 DEF Abort, RequestFails, serverVars
<1>10. ASSUME NEW t \in Tokens, TokenExpires(t) PROVE ServerTypeOK'
  BY <1>1, <1>10 DEF TokenExpires, serverVars
<1> QED
  BY <1>2, <1>3, <1>4, <1>5, <1>6, <1>7, <1>8, <1>9, <1>10 DEF ServerNext

-----------------------------------------------------------------------------
(* Keys and exits.                                                         *)

LEMMA KeysNext ==
    ASSUME ServerIInv, [ServerNext]_allVars
    PROVE  KeysConfigured'
<1>0. /\ ServerTypeOK /\ KeysConfigured /\ proc \in Proc
      /\ deployment' = deployment
  <2>1. deployment' = deployment
    BY DEF ServerNext, allVars, serverVars, Launch, LaunchFails, ListenFails, Signal,
       ShutdownReturns, ShutdownTimesOut, Return, PoolCloses, Kill, End, Accept, Proceed,
       Abort, RequestFails, TokenExpires
  <2> QED
    BY <2>1 DEF ServerIInv, ServerTypeOK
<1> USE DEF KeysConfigured
<1>1. ASSUME UNCHANGED access, proc'.key = proc.key,
             proc'.phase # "down" => proc.phase # "down"
      PROVE  KeysConfigured'
  BY <1>0, <1>1
<1>2. CASE UNCHANGED allVars
  BY <1>1, <1>2 DEF allVars, serverVars
<1>3. CASE Launch
  <2>1. PICK k \in LoadOrGenerateSigningKey : proc' = [phase |-> "serving", key |-> k, code |-> 0]
    BY <1>3 DEF Launch
  <2>2. k \in Keys /\ (deployment.environment # "development" => k = ConfiguredKey)
    BY <1>0, <1>3, StartKey DEF Launch
  <2> QED
    BY <1>0, <1>3, <2>1, <2>2 DEF Launch
<1>4. CASE LaunchFails \/ PoolCloses \/ Kill
  <2>1. UNCHANGED access /\ \E code : proc' = Down(code)
    BY <1>4 DEF LaunchFails, PoolCloses, Kill, End
  <2>2. proc'.phase = "down"
    BY <2>1 DEF Down
  <2> QED
    BY <1>0, <2>1, <2>2
<1>5. CASE ListenFails \/ Signal \/ ShutdownReturns \/ ShutdownTimesOut
  <2>1. UNCHANGED access /\ proc'.key = proc.key /\ proc.phase # "down"
    BY <1>0, <1>5 DEF ListenFails, Signal, ShutdownReturns, ShutdownTimesOut, Return, Proc
  <2> QED
    BY <1>1, <2>1
<1>6. ASSUME NEW s \in Sessions, Proceed(s) PROVE KeysConfigured'
  <2>1. UNCHANGED proc
    BY <1>6 DEF Proceed
  <2>2. CASE UNCHANGED access
    BY <1>1, <2>1, <2>2
  <2>3. CASE ~ UNCHANGED access
    <3>1. /\ access' = [access EXCEPT ![Owner[req[s].dev]] = @ \cup {proc.key}]
          /\ proc.phase # "down" /\ access \in [Users -> SUBSET Keys]
      BY <1>0, <1>6, <2>3, PairKey DEF ServerTypeOK
    <3> QED
      BY <1>0, <2>1, <3>1
  <2> QED
    BY <2>2, <2>3
<1>7. ASSUME NEW s \in Sessions, Accept(s) \/ Abort(s) \/ RequestFails(s)
      PROVE  KeysConfigured'
  <2>1. UNCHANGED <<proc, access>>
    BY <1>7 DEF Accept, Abort, RequestFails, serverVars
  <2> QED
    BY <1>1, <2>1
<1>8. ASSUME NEW t \in Tokens, TokenExpires(t) PROVE KeysConfigured'
  BY <1>1, <1>8 DEF TokenExpires, serverVars
<1> QED
  BY <1>2, <1>3, <1>4, <1>5, <1>6, <1>7, <1>8 DEF ServerNext

LEMMA ExitNext ==
    ASSUME ServerIInv, [ServerNext]_allVars
    PROVE  ExitsDrained' /\ CleanExit'
<1>0. /\ IInv /\ ExitsDrained /\ CleanExit /\ proc \in Proc
      /\ \A code, other : Down(code) = Down(other) => code = other
      /\ \A code : Down(code).phase = "down"
  BY DEF ServerIInv, ServerTypeOK, Down
<1> USE DEF ExitsDrained, CleanExit
<1>1. CASE UNCHANGED allVars
  BY <1>0, <1>1 DEF allVars, vars, serverVars, InFlight
<1>2. CASE Launch
  <2>1. proc'.phase = "serving"
    BY <1>2 DEF Launch
  <2> QED
    BY <1>0, <2>1
<1>3. CASE LaunchFails
  BY <1>0, <1>3 DEF LaunchFails
<1>4. ASSUME NEW code \in {0, 1}, Return(code), proc.phase # "down",
             code = 0 => InFlight = {}
      PROVE  ExitsDrained' /\ CleanExit'
  <2>1. proc'.phase = "closing" /\ proc'.code = code /\ InFlight' = InFlight
    BY <1>0, <1>4 DEF Return, Proc, vars, InFlight
  <2> QED
    BY <1>0, <1>4, <2>1
<1>5. CASE ListenFails \/ ShutdownReturns \/ ShutdownTimesOut
  BY <1>4, <1>5 DEF ListenFails, ShutdownReturns, ShutdownTimesOut
<1>6. CASE Signal
  <2>1. proc'.phase = "draining"
    BY <1>0, <1>6 DEF Signal, Proc
  <2> QED
    BY <1>0, <2>1
<1>7. CASE PoolCloses
  <2>1. proc' = Down(proc.code) /\ cut' = InFlight /\ proc.phase = "closing"
    BY <1>7 DEF PoolCloses, End
  <2> QED
    BY <1>0, <2>1
<1>8. CASE Kill
  BY <1>0, <1>8 DEF Kill, End, Killed
<1>9. ASSUME NEW s \in Sessions, Accept(s) PROVE ExitsDrained' /\ CleanExit'
  <2>1. UNCHANGED proc /\ proc.phase = "serving"
    BY <1>9 DEF Accept
  <2> QED
    BY <1>0, <2>1
<1>10. ASSUME NEW s \in Sessions, Proceed(s) \/ Abort(s) \/ RequestFails(s)
       PROVE  ExitsDrained' /\ CleanExit'
  <2>1. UNCHANGED <<proc, cut>> /\ (Step(s) \/ Fail(s) \/ DeadlockAbort(s))
    BY <1>10 DEF Proceed, Abort, RequestFails, serverVars
  <2>2. InFlight = {} => InFlight' = {}
    BY <1>0, <2>1, IdleStays
  <2> QED
    BY <1>0, <2>1, <2>2
<1>11. ASSUME NEW t \in Tokens, TokenExpires(t) PROVE ExitsDrained' /\ CleanExit'
  BY <1>0, <1>11 DEF TokenExpires, Expire, serverVars, InFlight
<1> QED
  BY <1>1, <1>2, <1>3, <1>5, <1>6, <1>7, <1>8, <1>9, <1>10, <1>11 DEF ServerNext

-----------------------------------------------------------------------------
(* The theorems.                                                           *)

LEMMA ServerInit_IInv == ServerInit => ServerIInv
<1> SUFFICES ASSUME ServerInit PROVE ServerIInv
  OBVIOUS
<1>1. IInv
  BY IInvInit DEF ServerInit
<1>2. ServerTypeOK
  BY <1>1, ServerAssumption, DownType DEF ServerInit, ServerTypeOK, IInv
<1>3. proc.phase = "down"
  BY DEF ServerInit, Down
<1> QED
  BY <1>1, <1>2, <1>3 DEF ServerIInv, ServerInit, KeysConfigured, ExitsDrained, CleanExit

LEMMA ServerNext_IInv == ServerIInv /\ [ServerNext]_allVars => ServerIInv'
<1>1. ServerIInv => IInv
  BY DEF ServerIInv
<1> QED
  BY <1>1, RequestsUnderServer, ServerTypeNext, KeysNext, ExitNext DEF ServerIInv

(* The process and the requests it serves are consistent through every     *)
(* shutdown, crash and restart.                                            *)
THEOREM ServerInvariant == ServerSpec => []ServerIInv
  BY ServerInit_IInv, ServerNext_IInv, PTL DEF ServerSpec

(* Type correctness of the process and the tables under it.                *)
THEOREM ServerTypeCorrect == ServerSpec => []ServerTypeOK
<1>1. ServerIInv => ServerTypeOK
  BY DEF ServerIInv
<1> QED
  BY <1>1, ServerInvariant, PTL

(* serve and run's deferred pool.Close: an exit with code 0 has cut no     *)
(* request off.                                                            *)
THEOREM CleanExits == ServerSpec => []CleanExit
<1>1. ServerIInv => CleanExit
  BY DEF ServerIInv
<1> QED
  BY <1>1, ServerInvariant, PTL

(* LoadOrGenerateSigningKey: outside development whatever process serves   *)
(* verifies every access token a process before it signed.                 *)
THEOREM RestartsKeepAccess == ServerSpec => []AccessSurvivesRestart
<1>1. ServerIInv => AccessSurvivesRestart
  BY DEF ServerIInv, KeysConfigured, AccessSurvivesRestart
<1> QED
  BY <1>1, ServerInvariant, PTL

(* Crashes, shutdowns and restarts leave the guarantees of the tables as   *)
(* they are: one live token per family, and revocations that hold.         *)
THEOREM TokensSurviveRestarts ==
    ServerSpec => [](OneLivePerFamily /\ Lineage /\ RevocationCoversSnapshot
                     /\ RevokedDeviceStaysOut)
<1>1. ServerIInv => OneLivePerFamily /\ Lineage /\ RevocationCoversSnapshot
                    /\ RevokedDeviceStaysOut
  BY DEF ServerIInv, IInv, DeviceChecked, RevokedDeviceStaysOut
<1> QED
  BY <1>1, ServerInvariant, PTL

LEMMA FamiliesUnderServer ==
    ASSUME ServerIInv, [ServerNext]_allVars
    PROVE  [Families!Next]_Families!vars
<1>0. IInv
  BY DEF ServerIInv
<1>1. CASE [Next]_vars
  BY <1>0, <1>1, FamiliesNext
<1>2. CASE UNCHANGED vars
  BY <1>1, <1>2
<1>3. ASSUME NEW s \in Sessions, Accept(s) \/ Proceed(s) \/ Abort(s) \/ RequestFails(s)
      PROVE  [Next]_vars
  BY <1>3, RequestStep
<1>4. ASSUME NEW t \in Tokens, TokenExpires(t) PROVE [Next]_vars
  BY <1>4 DEF TokenExpires, Next
<1>5. CASE PoolCloses \/ Kill
  BY <1>5, SameFamilies DEF PoolCloses, Kill, End
<1> QED
  BY <1>1, <1>2, <1>3, <1>4, <1>5, ServerCases, Zenon

(* The tables that requests, shutdowns, crashes and restarts leave behind  *)
(* implement TokenFamilies: a request that is cut off has exchanged its    *)
(* token or has not, and what ended before a crash is not valid after it.  *)
THEOREM ServerImplementsFamilies == ServerSpec => ImplementsFamilies
<1>1. ServerInit => Families!Init
  BY FamiliesInit DEF ServerInit
<1>2. ServerIInv /\ [ServerNext]_allVars => [Families!Next]_Families!vars
  BY FamiliesUnderServer
<1> QED
  BY <1>1, <1>2, ServerInvariant, PTL DEF ServerSpec, ImplementsFamilies, Families!Spec

=============================================================================
