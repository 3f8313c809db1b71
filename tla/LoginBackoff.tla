----------------------------- MODULE LoginBackoff -----------------------------
(***************************************************************************)
(* The login-backoff service: the before-login and after-login handlers     *)
(* (internal/webhooks/kratos-login-backoff/{handler,service}.go), the Redis *)
(* calls they make through go-redis, and the clock of Redis.                *)
(*                                                                          *)
(* A request slot runs one HTTP request at a time; several slots run        *)
(* concurrently.  A Redis call is one atomic step of the server and a       *)
(* separate step in which the handler uses the reply, so that the clock and *)
(* the other requests move in between.  go-redis retries a call that timed  *)
(* out or lost its connection, whether or not the server had executed it.   *)
(***************************************************************************)
EXTENDS LoginCounters, FiniteSets

CONSTANTS
    Request,                \* request slots
    Identifier, Address,    \* the texts requests carry as identifier and IP
    MaxRetries,             \* go-redis Options.MaxRetries
    Faults                  \* what may go wrong outside the service

FaultKind == {"unreachable", "replyLost", "cancelled", "dataLoss"}

ASSUME RequestAssumption ==
    /\ Identifier \subseteq Text
    /\ Address \subseteq Text
    /\ MaxRetries \in Nat
    /\ Faults \subseteq FaultKind

VARIABLES
    db,         \* the counters in Redis
    step,       \* where each request is
    keys,       \* the counter keys a request in flight names
    tries,      \* how often its Redis call has failed
    reply,      \* the reply its handler has received and not yet used
    answer,     \* the outcome of the slot's last request
    \* What follows is not in the program; the properties need it.
    wait,       \* ticks left of the retry_after last told to a slot
    blockers,   \* the counters that blocked it and whose window is still open
    attempts,   \* distinct requests counted in a key's open window
    counted,    \* the open windows a lost try of a request was counted in
    grants      \* requests allowed in a key's open window

ghosts == <<wait, blockers, attempts, counted, grants>>
vars == <<db, step, keys, tries, reply, answer, ghosts>>

Outcome == {"none", "allowed", "identifier", "ip", "skipped", "success"}

NoReading == [count |-> 0, remaining |-> 0]
NoReply   == [id |-> NoReading, ip |-> NoReading]

IsLive(d, k) == d[k].count > 0
LiveKeys(d)  == {k \in Key : IsLive(d, k)}
LockedKeys(d) == {k \in Key : d[k].count > MaxAttempts(k)}

Init ==
    /\ db = [k \in Key |-> Absent]
    /\ step = [r \in Request |-> "idle"]
    /\ keys = [r \in Request |-> {}]
    /\ tries = [r \in Request |-> 0]
    /\ reply = [r \in Request |-> NoReply]
    /\ answer = [r \in Request |-> "none"]
    /\ wait = [r \in Request |-> 0]
    /\ blockers = [r \in Request |-> {}]
    /\ attempts = [k \in Key |-> 0]
    /\ counted = [r \in Request |-> {}]
    /\ grants = [k \in Key |-> 0]

------------------------------------------------------------------------------
(* A handler starts. *)

\* Slot r takes up a new request, whose Redis call (if s is not "idle") is
\* about the keys ks; out is its outcome so far.
Start(r, s, ks, out) ==
    /\ step[r] = "idle"
    /\ step' = [step EXCEPT ![r] = s]
    /\ keys' = [keys EXCEPT ![r] = ks]
    /\ answer' = [answer EXCEPT ![r] = out]
    /\ wait' = [wait EXCEPT ![r] = 0]
    /\ blockers' = [blockers EXCEPT ![r] = {}]
    /\ counted' = [counted EXCEPT ![r] = {}]
    /\ UNCHANGED <<db, tries, reply, attempts, grants>>

\* HandleBeforeLogin up to the Redis call of CheckAndIncrement.
BeforeLogin(r, identifier, clientIP) ==
    LET ks == KeysOf(identifier, clientIP)
    IN  IF ks = {} THEN Start(r, "idle", {}, "allowed")
                   ELSE Start(r, "check", ks, "none")

\* HandleAfterLogin up to the Redis call of ResetCounters.
AfterLogin(r, email, clientIP) ==
    LET ks == KeysOf(email, clientIP)
    IN  IF ks = {} THEN Start(r, "idle", {}, "skipped")
                   ELSE Start(r, "reset", ks, "none")

\* A body that does not decode is answered without asking Redis.
Undecodable(r) == \E out \in {"allowed", "skipped"} : Start(r, "idle", {}, out)

------------------------------------------------------------------------------
(* Redis executes the command of request r. *)

\* The open windows after the database has become d: a counter that is gone
\* takes what was known of its window along.
CloseWindows(d) ==
    /\ attempts' = [k \in Key |-> IF IsLive(d, k) THEN attempts[k] ELSE 0]
    /\ grants' = [k \in Key |-> IF IsLive(d, k) THEN grants[k] ELSE 0]
    /\ counted' = [r \in Request |-> counted[r] \intersect LiveKeys(d)]
    /\ blockers' = [r \in Request |-> blockers[r] \intersect LiveKeys(d)]

\* The script counts the attempt under every key of the request.
CountOnServer(r) ==
    /\ step[r] = "check"
    /\ db' = IncrementLoginAttempts(db, keys[r])
    /\ attempts' = [k \in Key |-> IF k \in keys[r] \ counted[r] /\ attempts[k] < CountCap
                                    THEN attempts[k] + 1 ELSE attempts[k]]

DeleteOnServer(r) ==
    /\ step[r] = "reset"
    /\ db' = ResetLoginAttempts(db, keys[r])
    /\ CloseWindows(ResetLoginAttempts(db, keys[r]))

\* The script runs and its reply arrives.
ExecScript(r) ==
    LET d   == IncrementLoginAttempts(db, keys[r])
        rep == [id |-> Reading(d, keys[r], "id"), ip |-> Reading(d, keys[r], "ip")]
        granted == Verdict(rep.id, rep.ip).outcome = "allowed"
    IN  /\ CountOnServer(r)
        /\ reply' = [reply EXCEPT ![r] = rep]
        /\ step' = [step EXCEPT ![r] = "verdict"]
        /\ blockers' = [blockers EXCEPT ![r] = keys[r] \intersect LockedKeys(d)]
        /\ grants' = [k \in Key |-> IF granted /\ k \in keys[r] THEN grants[k] + 1
                                                                ELSE grants[k]]
        /\ counted' = [counted EXCEPT ![r] = {}]
        /\ UNCHANGED <<keys, tries, answer, wait>>

\* The request is over: the slot is free for the next one.
Finish(r, out) ==
    /\ step' = [step EXCEPT ![r] = "idle"]
    /\ keys' = [keys EXCEPT ![r] = {}]
    /\ tries' = [tries EXCEPT ![r] = 0]
    /\ reply' = [reply EXCEPT ![r] = NoReply]
    /\ answer' = [answer EXCEPT ![r] = out]

\* DEL runs and its reply arrives: "counters reset".
ExecDel(r) ==
    /\ DeleteOnServer(r)
    /\ Finish(r, "success")
    /\ UNCHANGED wait

\* The handler decides on the reply and answers.
Answer(r) ==
    LET v == Verdict(reply[r].id, reply[r].ip)
    IN  /\ step[r] = "verdict"
        /\ Finish(r, v.outcome)
        /\ wait' = [wait EXCEPT ![r] = TicksPerSecond * v.retryAfter]
        /\ UNCHANGED <<db, blockers, attempts, counted, grants>>

------------------------------------------------------------------------------
(* The Redis call of request r fails. *)

\* A Redis error lets the login through and hides a failed reset.
FailOpen(r) == Finish(r, IF step[r] = "check" THEN "allowed" ELSE "success")

\* Mutants of RetryOrFailOpen: one try too many; tries that are not counted.
RetryOnceMore(r) ==
    \/ /\ tries[r] <= MaxRetries
       /\ tries' = [tries EXCEPT ![r] = @ + 1]
       /\ UNCHANGED <<step, keys, reply, answer>>
    \/ /\ tries[r] > MaxRetries
       /\ FailOpen(r)

RetryForEver(r) == UNCHANGED <<step, keys, tries, reply, answer>>

RetryOrFailOpen(r) ==
    \/ /\ tries[r] < MaxRetries
       /\ tries' = [tries EXCEPT ![r] = @ + 1]
       /\ UNCHANGED <<step, keys, reply, answer>>
    \/ /\ tries[r] = MaxRetries
       /\ FailOpen(r)

\* The command does not reach the server.
Unreachable(r) ==
    /\ "unreachable" \in Faults
    /\ step[r] \in {"check", "reset"}
    /\ RetryOrFailOpen(r)
    /\ UNCHANGED <<db, ghosts>>

\* The server executes the command and the reply is lost or late.
LoseReply(r) ==
    /\ "replyLost" \in Faults
    /\ \/ /\ CountOnServer(r)
          /\ counted' = [counted EXCEPT ![r] = keys[r]]
          /\ UNCHANGED <<blockers, grants>>
       \/ DeleteOnServer(r)
    /\ RetryOrFailOpen(r)
    /\ UNCHANGED wait

\* The client hangs up and its context ends.  go-redis looks at the context
\* before a try and not during one, so this try is not made and no other.
Cancel(r) ==
    /\ "cancelled" \in Faults
    /\ step[r] \in {"check", "reset"}
    /\ FailOpen(r)
    /\ UNCHANGED <<db, ghosts>>

------------------------------------------------------------------------------
(* Time, and the loss of Redis's memory. *)

Tick ==
    LET d == [k \in Key |-> Elapse(db[k])]
    IN  /\ db' = d
        /\ CloseWindows(d)
        /\ wait' = [r \in Request |-> IF wait[r] > 0 THEN wait[r] - 1 ELSE 0]
        /\ UNCHANGED <<step, keys, tries, reply, answer>>

LoseData ==
    LET d == [k \in Key |-> Absent]
    IN  /\ "dataLoss" \in Faults
        /\ db' = d
        /\ CloseWindows(d)
        /\ UNCHANGED <<step, keys, tries, reply, answer, wait>>

Progress(r) == \/ ExecScript(r) \/ ExecDel(r) \/ Answer(r)
               \/ Unreachable(r) \/ LoseReply(r) \/ Cancel(r)

Next ==
    \/ \E r \in Request :
          \/ \E t \in Identifier, ip \in Address : BeforeLogin(r, t, ip) \/ AfterLogin(r, t, ip)
          \/ Undecodable(r)
          \/ Progress(r)
    \/ Tick
    \/ LoseData

\* go-redis bounds a call by its dial, read and write timeouts and its number
\* of retries, so a request in flight goes on; time passes.
Fairness == WF_vars(Tick) /\ \A r \in Request : WF_vars(Progress(r))

Spec == Init /\ [][Next]_vars /\ Fairness

------------------------------------------------------------------------------
(* Properties *)

Reply == [id : [count : Nat, remaining : Int], ip : [count : Nat, remaining : Int]]

\* Type invariant: the shape of the counters and of the requests in flight.
TypeOK ==
    /\ db \in [Key -> Counter]
    /\ step \in [Request -> {"idle", "check", "verdict", "reset"}]
    /\ keys \in [Request -> SUBSET Key]
    /\ tries \in [Request -> 0 .. MaxRetries]
    /\ reply \in [Request -> Reply]
    /\ answer \in [Request -> Outcome]
    /\ wait \in [Request -> Int]
    /\ blockers \in [Request -> SUBSET Key]
    /\ attempts \in [Key -> 0 .. CountCap]
    /\ counted \in [Request -> SUBSET Key]
    /\ grants \in [Key -> Nat]

\* No counter outlives its window: whatever requests, retries, resets and
\* expiries interleave, a counter that exists has an expiry, and no more than
\* its lockout left.  (INCR and EXPIRE are two commands; a counter that kept
\* none would lock its subject out for good.)
NoImmortalCounter ==
    \A k \in LiveKeys(db) : db[k].ttl \in 1 .. TicksPerSecond * LockoutSeconds(k)

\* A counter belongs to one subject: the spellings of an identifier share one
\* counter, and the bare prefix keys are never touched.
OneCounterPerSubject ==
    \A k \in LiveKeys(db) :
        /\ k[2] # Empty
        /\ k[2] = IF k[1] = "id" THEN normaliseIdentifier(k[2]) ELSE TrimSpace[k[2]]

\* However many requests run at once, the service answers "allowed" on the
\* strength of a counter at most MaxAttempts times between two openings of
\* its window (the attempts it allows because Redis failed are not among them).
GrantsBounded == \A k \in Key : grants[k] <= MaxAttempts(k)

\* How often one request may be counted: once, or, where replies are lost, on
\* every try go-redis makes.
CountsPerRequest == IF "replyLost" \in Faults THEN MaxRetries + 1 ELSE 1

\* A counter is over its threshold only if enough distinct requests were
\* counted in its window: more than the threshold, or that part of it to which
\* lost replies and retries can multiply them.
NoEarlyLockout == \A k \in LockedKeys(db) : CountsPerRequest * attempts[k] > MaxAttempts(k)

\* retry_after is honest: half a second after it has elapsed, none of the
\* windows that blocked the request is still open, whichever of the two
\* lockouts the answer reported and however late the handler gave it.
RetryAfterHonest ==
    \A r \in Request : step[r] = "idle" =>
        \A k \in blockers[r] : 2 * db[k].ttl <= 2 * wait[r] + TicksPerSecond

\* The window is fixed: no step lengthens the life of an open window, so
\* attempts made during a lockout do not prolong it.
FixedWindow ==
    [][\A k \in LiveKeys(db) : IsLive(db', k) => db'[k].ttl <= db[k].ttl]_vars

\* The steps a request in flight has before it at most: its verdict, or the tries
\* of its Redis call and then the verdict.
StepsLeft(r) == IF step[r] = "idle" THEN 0
                ELSE IF step[r] = "verdict" THEN 1
                ELSE MaxRetries - tries[r] + 2

\* Every try counts: whatever Redis does and whatever the other requests do, each
\* step of a request brings it closer to its answer, and no step of another,
\* of the clock or of Redis sets it back.
EveryTryCounts ==
    [][\A r \in Request : step[r] # "idle" =>
          /\ StepsLeft(r)' <= StepsLeft(r)
          /\ Progress(r) => StepsLeft(r)' < StepsLeft(r)]_vars

\* Every lockout ends, even if its subject never stops trying.
LockoutEnds == \A k \in Key : (k \in LockedKeys(db)) ~> (k \notin LockedKeys(db))

\* Every request is answered, whatever Redis does.
EveryRequestAnswered == \A r \in Request : (step[r] # "idle") ~> (step[r] = "idle")

==============================================================================
