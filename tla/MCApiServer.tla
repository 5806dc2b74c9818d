---------------------------- MODULE MCApiServer ----------------------------
(* Instance of ApiServer for TLC.                                          *)
EXTENDS ApiServer, TLC

CONSTANTS u1, d1, s1, s2

SoleOwner == d1 :> u1

Sound == [environment |-> "production", numbers |-> TRUE, origins |-> "listed",
          database |-> "set", signingKey |-> "set"]

\* A deployment as it should be, a fresh checkout without a database, and one
\* mistake of each kind
MCDeployments ==
    {Sound,
     [Sound EXCEPT !.environment = "development", !.origins = "*",
                   !.signingKey = "unset", !.database = "unset"],
     [Sound EXCEPT !.environment = "other"],
     [Sound EXCEPT !.numbers = FALSE],
     [Sound EXCEPT !.origins = "*"],
     [Sound EXCEPT !.database = "malformed"],
     [Sound EXCEPT !.signingKey = "malformed"],
     [Sound EXCEPT !.signingKey = "unset"]}
=============================================================================
