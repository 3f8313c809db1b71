---------------------------- MODULE LoginCounters ----------------------------
(***************************************************************************)
(* The login attempt counters kept in Redis (internal/clients/redis.go) and *)
(* the decisions the service takes from them                                *)
(* (internal/webhooks/kratos-login-backoff/service.go).  This module has no *)
(* variables: it defines what the Redis commands and the two Lua scripts do *)
(* to a database, and how a reply becomes a verdict.                        *)
(*                                                                          *)
(* Time is counted in ticks of a third of a second, the coarsest unit at    *)
(* which a remaining lifetime can be rounded both up and down to a second.  *)
(***************************************************************************)
EXTENDS Integers

CONSTANTS
    Text,                       \* the strings a request may carry
    Empty,                      \* the empty string
    ToLower, TrimSpace,         \* Go's string functions, on Text
    MaxIdentifierAttempts,      \* LOGIN_BACKOFF_MAX_IDENTIFIER_ATTEMPTS
    MaxIPAttempts,              \* LOGIN_BACKOFF_MAX_IP_ATTEMPTS
    IdentifierLockoutSeconds,   \* LOGIN_BACKOFF_IDENTIFIER_LOCKOUT_SECONDS
    IPLockoutSeconds,           \* LOGIN_BACKOFF_IP_LOCKOUT_SECONDS
    CountCap                    \* bound: counts from here on are not told apart

ASSUME TextAssumption ==
    /\ Empty \in Text
    /\ ToLower \in [Text -> Text]
    /\ TrimSpace \in [Text -> Text]

\* validateLoginBackoffConfig refuses to start with a limit that is not positive.
ASSUME LimitsAssumption ==
    /\ MaxIdentifierAttempts \in Nat \ {0}
    /\ MaxIPAttempts \in Nat \ {0}
    /\ IdentifierLockoutSeconds \in Nat \ {0}
    /\ IPLockoutSeconds \in Nat \ {0}
    /\ CountCap \in Nat
    /\ CountCap > MaxIdentifierAttempts
    /\ CountCap > MaxIPAttempts

------------------------------------------------------------------------------
(* Redis: one counter per key.  An absent key has count 0. *)

TicksPerSecond == 3

\* Redis's TTL of a key that exists and never expires.
NoExpiry == -1

\* LoginBackoffIdentifierPrefix and LoginBackoffIPPrefix, followed by a text.
Key == {"id", "ip"} \X Text

Counter == [count : 0 .. CountCap, ttl : Nat \union {NoExpiry}]

Absent == [count |-> 0, ttl |-> NoExpiry]

INCR(c) == [c EXCEPT !.count = IF @ < CountCap THEN @ + 1 ELSE @]

EXPIRE(c, seconds) == [c EXCEPT !.ttl = TicksPerSecond * seconds]

\* Redis answers TTL with the remaining milliseconds rounded to the nearest second.
TTL(c) == IF c.ttl = NoExpiry
            THEN NoExpiry
            ELSE (2 * c.ttl + TicksPerSecond) \div (2 * TicksPerSecond)

\* One tick of Redis's clock: a counter whose lifetime runs out is gone.
Elapse(c) == IF c.ttl = NoExpiry THEN c
             ELSE IF c.ttl <= 1  THEN Absent
             ELSE [c EXCEPT !.ttl = @ - 1]

------------------------------------------------------------------------------
(* What the service asks of Redis. *)

MaxAttempts(k)    == IF k[1] = "id" THEN MaxIdentifierAttempts ELSE MaxIPAttempts
LockoutSeconds(k) == IF k[1] = "id" THEN IdentifierLockoutSeconds ELSE IPLockoutSeconds

\* Mutants of CountAttempt: the EXPIRE left out; the EXPIRE made every time.
CountAttemptForEver(c, seconds) == INCR(c)
CountAttemptSliding(c, seconds) == EXPIRE(INCR(c), seconds)

\* What either script does to one of its keys: the window opens with the
\* first attempt and is not extended by the later ones.
CountAttempt(c, seconds) ==
    LET counted == INCR(c)
    IN  IF counted.count = 1 THEN EXPIRE(counted, seconds) ELSE counted

\* A mutant of IncrementLoginAttempts: the script names KEYS[1] twice.
IncrementFirstKeyTwice(d, keys) ==
    LET twice(k) == CountAttempt(CountAttempt(d[k], LockoutSeconds(k)), LockoutSeconds(k))
    IN  [k \in Key |-> IF k \in keys /\ k[1] = "id" THEN twice(k) ELSE d[k]]

\* loginBackoffTwoKeyScript and loginBackoffSingleKeyScript: every key named is
\* counted, in one atomic step of Redis.
IncrementLoginAttempts(d, keys) ==
    [k \in Key |-> IF k \in keys THEN CountAttempt(d[k], LockoutSeconds(k)) ELSE d[k]]

\* DEL of the keys named.
ResetLoginAttempts(d, keys) ==
    [k \in Key |-> IF k \in keys THEN Absent ELSE d[k]]

\* The reply the scripts make for one dimension; a script that was not given
\* a key of that dimension says nothing of it, which reads as zero.
Reading(d, keys, dimension) ==
    IF \E k \in keys : k[1] = dimension
      THEN LET k == CHOOSE k \in keys : k[1] = dimension
           IN  [count |-> d[k].count, remaining |-> TTL(d[k])]
      ELSE [count |-> 0, remaining |-> 0]

------------------------------------------------------------------------------
(* What the service makes of a request and of a reply. *)

\* The one canonical form of a login identifier.
normaliseIdentifier(t) == ToLower[TrimSpace[t]]

\* Go's functions on a text in canonical form, and on the empty one.
ASSUME NormalFormAssumption ==
    /\ \A t \in Text : normaliseIdentifier(normaliseIdentifier(t)) = normaliseIdentifier(t)
    /\ \A t \in Text : TrimSpace[TrimSpace[t]] = TrimSpace[t]
    /\ normaliseIdentifier(Empty) = Empty

\* A mutant of KeysOf: the identifier is trimmed but keeps its case.
KeysOfCased(identifier, clientIP) ==
    {k \in {<<"id", TrimSpace[identifier]>>, <<"ip", TrimSpace[clientIP]>>} : k[2] # Empty}

\* The counter keys of a request: an identifier or an address that is blank
\* names no key.
KeysOf(identifier, clientIP) ==
    LET id == normaliseIdentifier(identifier)
        ip == TrimSpace[clientIP]
    IN  {k \in {<<"id", id>>, <<"ip", ip>>} : k[2] # Empty}

Allowed == [outcome |-> "allowed", retryAfter |-> 0]
Blocked(reason, remaining) == [outcome |-> reason, retryAfter |-> remaining]

\* Mutants of Verdict: blocked only if both dimensions are locked; blocked at
\* the threshold instead of over it; a locked identifier reported first.
VerdictBothLocked(idReading, ipReading) ==
    IF idReading.count > MaxIdentifierAttempts /\ ipReading.count > MaxIPAttempts
      THEN Blocked("identifier", idReading.remaining) ELSE Allowed

VerdictAtThreshold(idReading, ipReading) ==
    IF idReading.count >= MaxIdentifierAttempts THEN Blocked("identifier", idReading.remaining)
    ELSE IF ipReading.count >= MaxIPAttempts    THEN Blocked("ip", ipReading.remaining)
    ELSE Allowed

VerdictIdentifierFirst(idReading, ipReading) ==
    IF idReading.count > MaxIdentifierAttempts THEN Blocked("identifier", idReading.remaining)
    ELSE IF ipReading.count > MaxIPAttempts    THEN Blocked("ip", ipReading.remaining)
    ELSE Allowed

\* D-005: when both dimensions are locked the longer lockout is reported.
Verdict(idReading, ipReading) ==
    LET idLocked == idReading.count > MaxIdentifierAttempts
        ipLocked == ipReading.count > MaxIPAttempts
        ipWins   == ~idLocked \/ ipReading.remaining > idReading.remaining
    IN  IF ~idLocked /\ ~ipLocked  THEN Allowed
        ELSE IF ipLocked /\ ipWins THEN Blocked("ip", ipReading.remaining)
        ELSE Blocked("identifier", idReading.remaining)

==============================================================================
