----------------------------- MODULE Configuration -----------------------------
(***************************************************************************)
(* Reading the configuration (internal/config/config.go): the environment,  *)
(* completed from a .env file, becomes settings, or the process refuses to  *)
(* start.  A text that is no number or no truth value counts as not given.  *)
(***************************************************************************)
EXTENDS Integers

CONSTANTS
    Text,           \* the texts a variable may hold
    Empty,          \* the empty text
    Absent,         \* not a text: the variable is not set
    Atoi,           \* strconv.Atoi: the integers of the texts that denote one
    ParseBool,      \* strconv.ParseBool, likewise
    RequestURI,     \* the texts url.ParseRequestURI accepts
    DefaultKratos,  \* "http://kratos:4433"
    Environment,    \* the environments a process may start in
    DotEnv          \* the .env files it may find

LimitName == {"LOGIN_BACKOFF_MAX_IDENTIFIER_ATTEMPTS", "LOGIN_BACKOFF_MAX_IP_ATTEMPTS",
              "LOGIN_BACKOFF_IDENTIFIER_LOCKOUT_SECONDS", "LOGIN_BACKOFF_IP_LOCKOUT_SECONDS"}

Variable == LimitName \union {"PORT", "MAINTENANCE_MODE", "KRATOS_API_PUBLIC_ENDPOINT",
                              "KRATOS_INTERNAL_URL", "REDIS_URL", "REDIS_HOST", "REDIS_PORT"}

Setting == [Variable -> Text \union {Absent}]

ASSUME ConfigAssumption ==
    /\ Empty \in Text /\ Absent \notin Text
    /\ DOMAIN Atoi \subseteq Text \ {Empty} /\ \A t \in DOMAIN Atoi : Atoi[t] \in Int
    /\ DOMAIN ParseBool \subseteq Text \ {Empty} /\ \A t \in DOMAIN ParseBool : ParseBool[t] \in BOOLEAN
    /\ RequestURI \subseteq Text
    /\ DefaultKratos \in RequestURI /\ DefaultKratos # Empty
    /\ Environment \subseteq Setting /\ DotEnv \subseteq Setting

VARIABLES
    env,        \* the environment of the process
    file,       \* the .env file beside it
    status,     \* how far the start has come
    cfg         \* the settings in force

vars == <<env, file, status, cfg>>

NoConfig == [loaded |-> FALSE]

Init ==
    /\ env \in Environment
    /\ file \in DotEnv
    /\ status = "starting"
    /\ cfg = NoConfig

------------------------------------------------------------------------------

\* os.Getenv does not tell a variable that is not set from an empty one.
Getenv(e, v) == IF e[v] = Absent THEN Empty ELSE e[v]

getEnv(e, v, default) == IF Getenv(e, v) # Empty THEN Getenv(e, v) ELSE default

getEnvInt(e, v, default) ==
    IF Getenv(e, v) \in DOMAIN Atoi THEN Atoi[Getenv(e, v)] ELSE default

getEnvBool(e, v, default) ==
    IF Getenv(e, v) \in DOMAIN ParseBool THEN ParseBool[Getenv(e, v)] ELSE default

\* The key shared by the platform's deployments is preferred to the local one.
resolveKratosURL(e) ==
    getEnv(e, "KRATOS_API_PUBLIC_ENDPOINT", getEnv(e, "KRATOS_INTERNAL_URL", DefaultKratos))

\* A whole URL, or one built from the host and the port.
resolveRedisURL(e) ==
    IF Getenv(e, "REDIS_URL") # Empty THEN [url |-> Getenv(e, "REDIS_URL")]
    ELSE [host |-> getEnv(e, "REDIS_HOST", "localhost"), port |-> getEnv(e, "REDIS_PORT", "6379")]

DefaultLimit ==
    [n \in LimitName |->
        CASE n = "LOGIN_BACKOFF_MAX_IDENTIFIER_ATTEMPTS" -> 10
          [] n = "LOGIN_BACKOFF_MAX_IP_ATTEMPTS" -> 20
          [] OTHER -> 120]

Settings(e) ==
    [loaded      |-> TRUE,
     limit       |-> [n \in LimitName |-> getEnvInt(e, n, DefaultLimit[n])],
     port        |-> getEnvInt(e, "PORT", 8080),
     maintenance |-> getEnvBool(e, "MAINTENANCE_MODE", FALSE),
     kratos      |-> resolveKratosURL(e),
     redis       |-> resolveRedisURL(e)]

\* A mutant of validateLoginBackoffConfig: a limit of zero passes.
validateNotNegative(c) ==
    (\A n \in LimitName : c.limit[n] >= 0) /\ c.kratos \in RequestURI

validateLoginBackoffConfig(c) ==
    /\ \A n \in LimitName : c.limit[n] > 0
    /\ c.kratos \in RequestURI

\* A mutant of godotenvLoad: the file wins over the environment.
godotenvOverload(e, f) == [v \in Variable |-> IF f[v] # Absent THEN f[v] ELSE e[v]]

\* The .env file sets the variables that are not set; one that is set to the
\* empty text counts as set, here.
godotenvLoad(e, f) == [v \in Variable |-> IF e[v] = Absent THEN f[v] ELSE e[v]]

\* A mutant of Load: the settings are in force though they are refused.
LoadAndKeep ==
    /\ status = "starting"
    /\ env' = godotenvLoad(env, file)
    /\ cfg' = Settings(env')
    /\ status' = IF validateLoginBackoffConfig(cfg') THEN "loaded" ELSE "refused"
    /\ UNCHANGED file

\* Load: the settings are in force, or the process exits with status 1.
Load ==
    /\ status = "starting"
    /\ env' = godotenvLoad(env, file)
    /\ IF validateLoginBackoffConfig(Settings(env'))
         THEN status' = "loaded" /\ cfg' = Settings(env')
         ELSE status' = "refused" /\ UNCHANGED cfg
    /\ UNCHANGED file

Spec == Init /\ [][Load]_vars

------------------------------------------------------------------------------
(* Properties *)

\* Type invariant; settings are in force exactly if they were not refused.
TypeOK ==
    /\ env \in Setting /\ file \in Setting
    /\ status \in {"starting", "loaded", "refused"}
    /\ cfg.loaded <=> status = "loaded"
    /\ cfg.loaded => cfg.limit \in [LimitName -> Int] /\ cfg.kratos \in Text

\* A service that runs has limits the counters can work with: a threshold or a
\* lockout that is not positive never gets past the start, however it came to
\* be given.  The models of the counters assume this.
LimitsUsable ==
    status = "loaded" =>
        (\A n \in LimitName : cfg.limit[n] > 0) /\ cfg.kratos \in RequestURI

\* What was given for a variable: the environment's own text, unless it holds
\* nothing at all there, and then the file's.
Given(e, f, v) == IF e[v] = Absent THEN Getenv(f, v) ELSE e[v]

\* The start is refused for a cause the operator can find and for no other: a
\* limit that was given as a number and is not positive, or a Kratos URL that
\* was given and is none.  A typing error in a limit is no cause: it leaves the
\* default in force.
RefusedForCause ==
    [][LET url == IF Given(env, file, "KRATOS_API_PUBLIC_ENDPOINT") # Empty
                    THEN Given(env, file, "KRATOS_API_PUBLIC_ENDPOINT")
                    ELSE Given(env, file, "KRATOS_INTERNAL_URL")
       IN  status' = "refused" <=>
              \/ url # Empty /\ url \notin RequestURI
              \/ \E n \in LimitName :
                    /\ Given(env, file, n) \in DOMAIN Atoi
                    /\ Atoi[Given(env, file, n)] <= 0]_vars

==============================================================================
