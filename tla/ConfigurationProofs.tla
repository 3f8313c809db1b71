-------------------------- MODULE ConfigurationProofs --------------------------
(***************************************************************************)
(* What the start establishes, for every environment, .env file and set of  *)
(* texts.                                                                   *)
(***************************************************************************)
EXTENDS Configuration, TLAPS

\* getEnvInt yields an integer whatever text it finds, given an integer default.
LEMMA IntSetting ==
    ASSUME NEW e, NEW v, NEW d \in Int
    PROVE  getEnvInt(e, v, d) \in Int
  BY ConfigAssumption DEF getEnvInt

\* The limits of any environment are integers.
LEMMA LimitsAreInts ==
    ASSUME NEW e
    PROVE  Settings(e).limit \in [LimitName -> Int]
  <1>1. \A n \in LimitName : DefaultLimit[n] \in Int
    BY DEF DefaultLimit, LimitName
  <1>2. \A n \in LimitName : getEnvInt(e, n, DefaultLimit[n]) \in Int
    BY <1>1, IntSetting
  <1> QED BY <1>2 DEF Settings

\* Completing an environment from a .env file yields an environment.
LEMMA Completed ==
    ASSUME NEW e \in Setting, NEW f \in Setting
    PROVE  godotenvLoad(e, f) \in Setting
  BY DEF godotenvLoad, Setting

\* The conjunction the two invariants are proved by.
LoadInv == TypeOK /\ LimitsUsable

\* The start keeps its state in shape and puts usable limits in force only.
LEMMA LoadInvariant == Spec => []LoadInv
  <1>1. Init => LoadInv
    BY ConfigAssumption DEF Init, LoadInv, TypeOK, LimitsUsable, NoConfig
  <1>2. LoadInv /\ [Load]_vars => LoadInv'
    <2> SUFFICES ASSUME LoadInv, [Load]_vars PROVE LoadInv'
      OBVIOUS
    <2>1. CASE Load
      <3>1. env' \in Setting /\ file' \in Setting
        BY <2>1, Completed DEF LoadInv, TypeOK, Load
      <3>2. Settings(env').loaded = TRUE /\ Settings(env').limit \in [LimitName -> Int]
        BY LimitsAreInts DEF Settings
      <3>3. CASE validateLoginBackoffConfig(Settings(env'))
        BY <2>1, <3>1, <3>2, <3>3, ConfigAssumption
           DEF Load, LoadInv, TypeOK, LimitsUsable, validateLoginBackoffConfig
      <3>4. CASE ~validateLoginBackoffConfig(Settings(env'))
        BY <2>1, <3>1, <3>4 DEF Load, LoadInv, TypeOK, LimitsUsable
      <3> QED BY <3>3, <3>4
    <2>2. CASE UNCHANGED vars
      BY <2>2 DEF LoadInv, TypeOK, LimitsUsable, vars
    <2> QED BY <2>1, <2>2
  <1> QED BY <1>1, <1>2, PTL DEF Spec

\* No settings are in force unless they were accepted, and their shape is right.
THEOREM TypeCorrect == Spec => []TypeOK
  BY LoadInvariant, PTL DEF LoadInv

\* Whatever the environment, a service that runs has positive thresholds and
\* lockouts: what the models of the counters assume of their constants.
THEOREM LimitsAreUsable == Spec => []LimitsUsable
  BY LoadInvariant, PTL DEF LoadInv

\* A limit that was read from a completed environment is positive unless it was
\* given, somewhere, as a number that is not.
LEMMA LimitCause ==
    ASSUME NEW e \in Setting, NEW f \in Setting, NEW n \in LimitName
    PROVE  ~(getEnvInt(godotenvLoad(e, f), n, DefaultLimit[n]) > 0)
              <=> (Given(e, f, n) \in DOMAIN Atoi /\ Atoi[Given(e, f, n)] <= 0)
  <1>1. n \in Variable
    BY DEF Variable
  <1>2. Getenv(godotenvLoad(e, f), n) = Given(e, f, n)
    BY <1>1, ConfigAssumption DEF Getenv, godotenvLoad, Given
  <1>3. DefaultLimit[n] \in Int /\ DefaultLimit[n] > 0
    BY DEF DefaultLimit, LimitName
  <1>4. CASE Given(e, f, n) \in DOMAIN Atoi
    BY <1>2, <1>4, ConfigAssumption DEF getEnvInt
  <1>5. CASE Given(e, f, n) \notin DOMAIN Atoi
    BY <1>2, <1>3, <1>5 DEF getEnvInt
  <1> QED BY <1>4, <1>5

\* The start is refused exactly for a limit given as a number that is not
\* positive or for a Kratos URL that is none.
THEOREM RefusalHasCause == Spec => RefusedForCause
  <1> DEFINE shared == Given(env, file, "KRATOS_API_PUBLIC_ENDPOINT")
             local  == Given(env, file, "KRATOS_INTERNAL_URL")
             url    == IF shared # Empty THEN shared ELSE local
             e      == godotenvLoad(env, file)
  <1>1. ASSUME TypeOK, Load
        PROVE  status' = "refused" <=>
                  \/ url # Empty /\ url \notin RequestURI
                  \/ \E n \in LimitName : /\ Given(env, file, n) \in DOMAIN Atoi
                                          /\ Atoi[Given(env, file, n)] <= 0
    <2>1. status' = "refused" <=> ~validateLoginBackoffConfig(Settings(e))
      BY <1>1 DEF Load
    <2>2. resolveKratosURL(e) = IF url # Empty THEN url ELSE DefaultKratos
      <3>1. Getenv(e, "KRATOS_API_PUBLIC_ENDPOINT") = shared /\ Getenv(e, "KRATOS_INTERNAL_URL") = local
        BY ConfigAssumption DEF Getenv, godotenvLoad, Given, Variable
      <3> QED BY <3>1 DEF resolveKratosURL, getEnv
    <2>3. resolveKratosURL(e) \in RequestURI <=> (url = Empty \/ url \in RequestURI)
      BY <2>2, ConfigAssumption
    <2>4. validateLoginBackoffConfig(Settings(e)) <=>
             /\ \A n \in LimitName : getEnvInt(e, n, DefaultLimit[n]) > 0
             /\ resolveKratosURL(e) \in RequestURI
      BY DEF validateLoginBackoffConfig, Settings
    <2>5. \A n \in LimitName :
             ~(getEnvInt(e, n, DefaultLimit[n]) > 0)
                <=> (Given(env, file, n) \in DOMAIN Atoi /\ Atoi[Given(env, file, n)] <= 0)
      BY <1>1, LimitCause DEF TypeOK
    <2> HIDE DEF e, url
    <2> QED BY <2>1, <2>3, <2>4, <2>5
  <1>2. TypeOK /\ [Load]_vars =>
           [status' = "refused" <=>
                  \/ url # Empty /\ url \notin RequestURI
                  \/ \E n \in LimitName : /\ Given(env, file, n) \in DOMAIN Atoi
                                          /\ Atoi[Given(env, file, n)] <= 0]_vars
    BY <1>1
  <1> QED BY <1>2, TypeCorrect, PTL DEF Spec, RefusedForCause
================================================================================
