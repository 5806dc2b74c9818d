----------------------------- MODULE ApiServer -----------------------------
(***************************************************************************)
(* The API process (cmd/api/main.go) around the authentication requests of *)
(* RefreshTokens: configuration and start-up, the signing key of access    *)
(* tokens, graceful shutdown, exit codes, crashes and restarts.            *)
(*                                                                         *)
(* A request in flight is in one of RefreshTokens' states.  It holds a     *)
(* pool connection for as long as its transaction, or its single statement,*)
(* runs.  Requests that change nothing (health checks, requests refused by *)
(* the rate limiter, by Authenticate or by a handler's validation, panics  *)
(* that Recoverer answers before a statement) are left out; a panic between*)
(* statements is a Fail.                                                   *)
(***************************************************************************)
EXTENDS RefreshTokens

CONSTANTS
    Deployments,    \* the environments the process may be run in
    MaxStarts,      \* bound: starts of the process
    MaxRequests     \* bound: requests accepted

VARIABLES
    deployment,     \* the environment variables, the same at every start
    starts,         \* how often the process was started
    proc,           \* the process
    access,         \* keys each user's access tokens were signed with; one whose
                    \* exp has passed is a token nobody presents
    accepted,       \* how many requests were accepted
    cut             \* history variable: requests the last exit cut off

serverVars == <<deployment, starts, proc, access, accepted, cut>>
allVars == <<vars, serverVars>>

-----------------------------------------------------------------------------
(* Configuration.                                                          *)

Deployment ==
    [environment : {"development", "production", "other"},
     numbers : BOOLEAN,     \* every number and duration parses, is positive,
                            \* and the lockout's maximum is not below its base
     origins : {"*", "listed"},
     database : {"unset", "malformed", "set"},
     signingKey : {"unset", "malformed", "set"}]

ASSUME ServerAssumption ==
    Deployments \subseteq Deployment /\ MaxStarts \in Nat /\ MaxRequests \in Nat

\* config.Load
Load ==
    /\ deployment.numbers
    /\ deployment.environment # "other"
    /\ deployment.environment = "development" \/ deployment.origins # "*"

\* store.NewPool parses the URL and connects later
NewPool == deployment.database # "malformed"

ConfiguredKey == 0
NoKey == MaxStarts + 1
Keys == 0..MaxStarts

\* Faulty variant: a missing key is generated in every environment
AlwaysGenerate ==
    IF deployment.signingKey = "unset" THEN {starts + 1} ELSE {ConfiguredKey}

\* Faulty variant: a malformed key is ignored
StartsWithoutKey ==
    CASE deployment.signingKey = "set" -> {ConfiguredKey}
      [] deployment.signingKey = "malformed" -> {NoKey}
      [] deployment.signingKey = "unset" ->
            IF deployment.environment = "development" THEN {starts + 1} ELSE {}

\* The key of the next start, if there is one.  A generated key lives as long
\* as its process.
LoadOrGenerateSigningKey ==
    CASE deployment.signingKey = "set" -> {ConfiguredKey}
      [] deployment.signingKey = "malformed" -> {}
      [] deployment.signingKey = "unset" ->
            IF deployment.environment = "development" THEN {starts + 1} ELSE {}

-----------------------------------------------------------------------------
(* The process.                                                            *)

Proc == [phase : {"down", "serving", "draining", "closing"},
         key : Keys \cup {NoKey},
         code : Nat]    \* the exit code it will have, or had
Down(code) == [phase |-> "down", key |-> NoKey, code |-> code]

Killed == 137

ServerInit ==
    /\ Init
    /\ deployment \in Deployments
    /\ starts = 0
    /\ proc = Down(0)
    /\ access = [u \in Users |-> {}]
    /\ accepted = 0
    /\ cut = {}

InFlight == {s \in Sessions : req[s].op # "idle"}

\* main, run, serve, newRouter
Launch ==
    /\ proc.phase = "down" /\ starts < MaxStarts
    /\ Load /\ NewPool
    /\ \E k \in LoadOrGenerateSigningKey :
          proc' = [phase |-> "serving", key |-> k, code |-> 0]
    /\ starts' = starts + 1
    /\ cut' = {}
    /\ UNCHANGED <<vars, deployment, access, accepted>>

\* os.Exit(1) for an error of Load or NewPool; newRouter panics without a key
LaunchFails ==
    /\ proc.phase = "down" /\ starts < MaxStarts
    /\ ~Load \/ ~NewPool \/ LoadOrGenerateSigningKey = {}
    /\ proc' = Down(IF Load /\ NewPool THEN 2 ELSE 1)
    /\ starts' = starts + 1
    /\ cut' = {}
    /\ UNCHANGED <<vars, deployment, access, accepted>>

\* serve returns; run's deferred pool.Close refuses new connections and waits
\* for the ones in use
Return(code) ==
    /\ proc' = [proc EXCEPT !.phase = "closing", !.code = code]
    /\ UNCHANGED <<vars, deployment, starts, access, accepted, cut>>

\* ListenAndServe fails, at once or later
ListenFails == proc.phase = "serving" /\ Return(1)

\* SIGINT or SIGTERM: Shutdown closes the listener and the idle connections
Signal ==
    /\ proc.phase = "serving"
    /\ proc' = [proc EXCEPT !.phase = "draining"]
    /\ UNCHANGED <<vars, deployment, starts, access, accepted, cut>>

\* Faulty variant: Close in place of Shutdown
ShutdownAtOnce == proc.phase = "draining" /\ Return(0)

\* "server shut down cleanly"
ShutdownReturns == proc.phase = "draining" /\ InFlight = {} /\ Return(0)

\* cfg.ShutdownTimeout passes first
ShutdownTimesOut == proc.phase = "draining" /\ InFlight # {} /\ Return(1)

\* The process ends, and with it every request: open transactions roll back
End(code) ==
    /\ proc' = Down(code)
    /\ cut' = InFlight
    /\ req' = [s \in Sessions |-> Idle]
    /\ UNCHANGED <<device, token, expired, ended, deployment, starts, access,
                   accepted>>

\* In a transaction, or in a statement of its own
HoldsConnection(s) ==
    req[s].op \in {"refresh", "revokeDevice"} \/ req[s].pc = "locking"

PoolCloses ==
    /\ proc.phase = "closing"
    /\ \A s \in Sessions : ~HoldsConnection(s)
    /\ End(proc.code)

\* SIGKILL, or the machine goes down
Kill == proc.phase # "down" /\ End(Killed)

-----------------------------------------------------------------------------
(* Requests.                                                               *)

\* VerifyAccessToken: a token signed with the process's key
Verifies(u) == proc.key \in access[u]

\* Without a database every handler fails at its first statement.  Logout and
\* RevokeDevice are behind Authenticate.
Accept(s) ==
    /\ proc.phase = "serving" /\ deployment.database = "set"
    /\ accepted < MaxRequests
    /\ \/ \E d \in Devices : \/ LoginKnownDevice(s, d) \/ LoginNewDevice(s, d)
                             \/ Verifies(Owner[d]) /\ RevokeDeviceLookup(s, d)
       \/ \E t \in Tokens : \/ RefreshLookup(s, t)
                            \/ \E u \in Users : Verifies(u) /\ LogoutLookup(s, u, t)
    /\ accepted' = accepted + 1
    /\ UNCHANGED <<deployment, starts, proc, access, cut>>

\* While Shutdown waits requests go on; once the pool closes only those with
\* a connection do
MayRun(s) ==
    \/ proc.phase \in {"serving", "draining"}
    \/ proc.phase = "closing" /\ HoldsConnection(s)

\* The next statement stores the refresh token of a pair
IssuesPair(s) ==
    req[s].pc = "commit" \/ (req[s].pc = "create" /\ Unused # {})

\* IssueAccessToken signs with the process's key
Proceed(s) ==
    /\ MayRun(s)
    /\ Step(s)
    /\ access' = IF IssuesPair(s)
                 THEN [access EXCEPT ![Owner[req[s].dev]] = @ \cup {proc.key}]
                 ELSE access
    /\ UNCHANGED <<deployment, starts, proc, accepted, cut>>

Abort(s) == DeadlockAbort(s) /\ UNCHANGED serverVars

\* A statement fails, also because the pool is closed
RequestFails(s) == Fail(s) /\ UNCHANGED serverVars

PoolRefuses(s) == proc.phase = "closing" /\ ~HoldsConnection(s) /\ RequestFails(s)

TokenExpires(t) == Expire(t) /\ UNCHANGED serverVars

ServerNext ==
    \/ Launch \/ LaunchFails \/ ListenFails \/ Signal
    \/ ShutdownReturns \/ ShutdownTimesOut \/ PoolCloses \/ Kill
    \/ \E s \in Sessions : Accept(s) \/ Proceed(s) \/ Abort(s) \/ RequestFails(s)
    \/ \E t \in Tokens : TokenExpires(t)

\* A request in flight goes on, is ended by the deadlock detector or is refused
\* by the closed pool (strongly fair: row locks are granted in queue order);
\* Shutdown returns or its timer fires, and Close returns when it can.  Nothing
\* obliges anyone to start or to stop the process.
ServerSpec ==
    /\ ServerInit /\ [][ServerNext]_allVars
    /\ \A s \in Sessions : SF_allVars(Proceed(s) \/ Abort(s) \/ PoolRefuses(s))
    /\ WF_allVars(ShutdownReturns \/ ShutdownTimesOut \/ PoolCloses)

-----------------------------------------------------------------------------
(* Properties.                                                             *)

ServerTypeOK ==
    /\ TypeOK
    /\ deployment \in Deployment
    /\ starts \in 0..MaxStarts
    /\ proc \in Proc
    /\ access \in [Users -> SUBSET Keys]
    /\ accepted \in 0..MaxRequests
    /\ cut \in SUBSET Sessions

\* "server shut down cleanly": the process never exits with code 0 while a
\* request it had accepted was unanswered, however the signal, the timeout
\* and the pool's closing fall between the statements of a request.
CleanExit == proc = Down(0) => cut = {}

\* Outside development no restart, clean or not, invalidates an access token
\* before it expires: whatever process serves, every unexpired token verifies
\* ("every restart invalidates all previously issued access tokens" is said of
\* generated keys only).
AccessSurvivesRestart ==
    proc.phase = "serving" /\ deployment.environment # "development" =>
        \A u \in Users : access[u] \subseteq {proc.key}

\* A signal or a failed listener always ends the process: no request keeps
\* pool.Close waiting for ever, although requests wait for each other's rows.
ShutdownEnds == proc.phase \in {"draining", "closing"} ~> proc.phase = "down"
=============================================================================
