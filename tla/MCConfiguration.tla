---------------------------- MODULE MCConfiguration ----------------------------
(***************************************************************************)
(* Values of the constants of Configuration for TLC: every way to give, or  *)
(* not to give, a threshold, a lockout and the Kratos URL, with and without *)
(* a .env file that gives them too.                                         *)
(***************************************************************************)
EXTENDS Configuration, TLC

MCText       == {"", "ten", "-1", "0", "5", "true", "http://k", "::"}
MCAtoi       == ("-1" :> -1) @@ ("0" :> 0) @@ ("5" :> 5)
MCParseBool  == ("true" :> TRUE) @@ ("0" :> FALSE)
MCRequestURI == {"http://k"}

Nothing == [v \in Variable |-> Absent]

MCEnvironment ==
    {[Nothing EXCEPT !["LOGIN_BACKOFF_MAX_IP_ATTEMPTS"] = attempts,
                     !["LOGIN_BACKOFF_IP_LOCKOUT_SECONDS"] = lockout,
                     !["KRATOS_API_PUBLIC_ENDPOINT"] = shared,
                     !["KRATOS_INTERNAL_URL"] = local,
                     !["MAINTENANCE_MODE"] = maintenance,
                     !["REDIS_URL"] = maintenance] :
        attempts \in {Absent, "", "ten", "-1", "0", "5"}, lockout \in {Absent, "0", "5"},
        shared \in {Absent, "", "http://k", "::"}, local \in {Absent, "http://k", "::"},
        maintenance \in {"ten", "true"}}

MCDotEnv ==
    {Nothing,
     [Nothing EXCEPT !["LOGIN_BACKOFF_MAX_IP_ATTEMPTS"] = "0"],
     [Nothing EXCEPT !["LOGIN_BACKOFF_MAX_IP_ATTEMPTS"] = "5", !["KRATOS_INTERNAL_URL"] = "::"]}
=============================================================================
