-------------------------- MODULE LoginBackoffProofs --------------------------
(***************************************************************************)
(* Theorems about LoginBackoff, for every number of request slots, every    *)
(* set of texts, every threshold and lockout, and every choice of faults.   *)
(***************************************************************************)
EXTENDS LoginBackoff, FiniteSetTheorems, TLAPS

------------------------------------------------------------------------------
(* The service, whoever calls it.  LoginFlow runs it for whatever texts the  *)
(* proxy and Kratos find in a submission, so its steps are taken here for    *)
(* requests about any texts: what is proved of them holds in LoginFlow, too. *)

AnyNext ==
    \/ \E r \in Request :
          \/ \E t \in Text, ip \in Text : BeforeLogin(r, t, ip) \/ AfterLogin(r, t, ip)
          \/ Undecodable(r)
          \/ Progress(r)
    \/ Tick
    \/ LoseData

\* The texts of the specification are among them.
LEMMA NextIsAny == [Next]_vars => [AnyNext]_vars
  BY RequestAssumption DEF Next, AnyNext

------------------------------------------------------------------------------
(* What the operators of LoginCounters return. *)

\* The limits of a key are positive and its threshold is below the bound on counts.
LEMMA LimitsOfKey ==
    ASSUME NEW k \in Key
    PROVE  /\ MaxAttempts(k) \in Nat /\ MaxAttempts(k) >= 1 /\ MaxAttempts(k) < CountCap
           /\ LockoutSeconds(k) \in Nat /\ LockoutSeconds(k) >= 1
  BY LimitsAssumption DEF MaxAttempts, LockoutSeconds

\* No counter is a counter.
LEMMA AbsentIsCounter == Absent \in Counter /\ Absent.count = 0
  BY LimitsAssumption DEF Absent, Counter, NoExpiry

\* Counting an attempt opens a window of full length if none was open, and
\* otherwise leaves the life of the window alone.
LEMMA CountAttemptEffect ==
    ASSUME NEW c \in Counter, NEW s \in Nat
    PROVE  /\ CountAttempt(c, s) \in Counter
           /\ CountAttempt(c, s).count = IF c.count < CountCap THEN c.count + 1 ELSE c.count
           /\ CountAttempt(c, s).count > 0
           /\ CountAttempt(c, s).ttl = IF c.count = 0 THEN TicksPerSecond * s ELSE c.ttl
  <1>1. CountCap \in Nat /\ CountCap >= 2
    BY LimitsAssumption
  <1>2. /\ INCR(c) \in Counter
        /\ INCR(c).count = IF c.count < CountCap THEN c.count + 1 ELSE c.count
        /\ INCR(c).ttl = c.ttl
    BY <1>1 DEF INCR, Counter
  <1>3. INCR(c).count > 0 /\ (INCR(c).count = 1 <=> c.count = 0)
    BY <1>1, <1>2 DEF Counter
  <1>4. TicksPerSecond * s \in Nat
    BY DEF TicksPerSecond
  <1>5. /\ EXPIRE(INCR(c), s) \in Counter
        /\ EXPIRE(INCR(c), s).count = INCR(c).count
        /\ EXPIRE(INCR(c), s).ttl = TicksPerSecond * s
    BY <1>2, <1>4 DEF EXPIRE, Counter
  <1> QED
    BY <1>2, <1>3, <1>5 DEF CountAttempt

\* A tick takes one from the life of a counter, and the counter with its last.
LEMMA ElapseEffect ==
    ASSUME NEW c \in Counter
    PROVE  /\ Elapse(c) \in Counter
           /\ Elapse(c).count \in {0, c.count}
           /\ Elapse(c).count > 0 /\ c.ttl >= 1
                => Elapse(c).ttl >= 1 /\ Elapse(c).ttl = c.ttl - 1
  BY LimitsAssumption DEF Elapse, Counter, Absent, NoExpiry

\* The TTL command rounds to the nearest second.
LEMMA TTLRounds ==
    ASSUME NEW c \in Counter, c.ttl # NoExpiry
    PROVE  /\ TTL(c) \in Int
           /\ 2 * c.ttl <= 2 * (TicksPerSecond * TTL(c)) + TicksPerSecond
           /\ 2 * (TicksPerSecond * TTL(c)) <= 2 * c.ttl + TicksPerSecond
  <1>1. c.ttl \in Nat
    BY DEF Counter
  <1>2. TTL(c) = (2 * c.ttl + 3) \div 6
    BY DEF TTL, TicksPerSecond
  <1> QED
    BY <1>1, <1>2 DEF TicksPerSecond

\* The scripts count the attempt under the keys they name and touch no other.
LEMMA IncrementEffect ==
    ASSUME NEW d \in [Key -> Counter], NEW K \in SUBSET Key
    PROVE  /\ IncrementLoginAttempts(d, K) \in [Key -> Counter]
           /\ \A k \in Key : IncrementLoginAttempts(d, K)[k] =
                   IF k \in K THEN CountAttempt(d[k], LockoutSeconds(k)) ELSE d[k]
  BY CountAttemptEffect, LimitsOfKey DEF IncrementLoginAttempts

\* DEL removes the counters it names and touches no other.
LEMMA ResetEffect ==
    ASSUME NEW d \in [Key -> Counter], NEW K \in SUBSET Key
    PROVE  /\ ResetLoginAttempts(d, K) \in [Key -> Counter]
           /\ \A k \in Key : ResetLoginAttempts(d, K)[k] = IF k \in K THEN Absent ELSE d[k]
  BY AbsentIsCounter DEF ResetLoginAttempts

\* No two keys of one dimension.
OnePerDimension(K) == \A k, l \in K : k[1] = l[1] => k = l

\* A request names at most one identifier key and one address key.
LEMMA KeysOfRequest ==
    ASSUME NEW t \in Text, NEW ip \in Text
    PROVE  KeysOf(t, ip) \in SUBSET Key /\ OnePerDimension(KeysOf(t, ip))
  <1>1. normaliseIdentifier(t) \in Text /\ TrimSpace[ip] \in Text
    BY TextAssumption DEF normaliseIdentifier
  <1> QED
    BY <1>1 DEF KeysOf, Key, OnePerDimension

\* What a reply says of the dimension of a key it was asked about is what Redis
\* holds for that key.
LEMMA ReadingEffect ==
    ASSUME NEW d \in [Key -> Counter], NEW K \in SUBSET Key, OnePerDimension(K),
           NEW dim
    PROVE  /\ Reading(d, K, dim) \in [count : Nat, remaining : Int]
           /\ \A k \in K : k[1] = dim =>
                 Reading(d, K, dim) = [count |-> d[k].count, remaining |-> TTL(d[k])]
           /\ (\A k \in K : k[1] # dim) => Reading(d, K, dim).count = 0
  <1>1. \A k \in K : d[k].count \in Nat /\ TTL(d[k]) \in Int
    BY TTLRounds, LimitsAssumption DEF Counter, TTL, NoExpiry
  <1>2. CASE \E k \in K : k[1] = dim
    <2>1. PICK k \in K : k[1] = dim
      BY <1>2
    <2>2. (CHOOSE l \in K : l[1] = dim) = k
      BY <2>1 DEF OnePerDimension
    <2>3. Reading(d, K, dim) = [count |-> d[k].count, remaining |-> TTL(d[k])]
      BY <1>2, <2>2 DEF Reading
    <2> QED
      BY <1>1, <2>1, <2>3 DEF OnePerDimension
  <1>3. CASE ~ \E k \in K : k[1] = dim
    BY <1>3 DEF Reading
  <1> QED
    BY <1>2, <1>3

\* The verdict on two readings: allowed exactly if neither is over its
\* threshold, and a retry_after that covers every one that is.
LEMMA VerdictEffect ==
    ASSUME NEW a \in [count : Nat, remaining : Int],
           NEW b \in [count : Nat, remaining : Int]
    PROVE  /\ Verdict(a, b).outcome \in Outcome
           /\ Verdict(a, b).retryAfter \in Int
           /\ Verdict(a, b).outcome = "allowed" <=>
                 a.count <= MaxIdentifierAttempts /\ b.count <= MaxIPAttempts
           /\ a.count > MaxIdentifierAttempts => Verdict(a, b).retryAfter >= a.remaining
           /\ b.count > MaxIPAttempts => Verdict(a, b).retryAfter >= b.remaining
  BY LimitsAssumption DEF Verdict, Allowed, Blocked, Outcome

------------------------------------------------------------------------------
(* Type correctness.  The inductive invariant adds that the keys of a       *)
(* request come from KeysOf: at most one of each dimension, and at least    *)
(* one as long as its Redis call is not over.                               *)

KeysInv ==
    \A r \in Request :
        /\ OnePerDimension(keys[r])
        /\ step[r] \in {"check", "reset"} => keys[r] # {}

TypeInv == TypeOK /\ KeysInv

\* The service starts well typed: no counters, no requests.
LEMMA InitType == Init => TypeInv
  BY LimitsAssumption, RequestAssumption, AbsentIsCounter
  DEF Init, TypeInv, TypeOK, KeysInv, OnePerDimension, Reply, NoReply, NoReading, Outcome

\* Closing windows keeps the types of what is remembered of them.
LEMMA CloseWindowsType ==
    ASSUME TypeOK, NEW d \in [Key -> Counter], CloseWindows(d)
    PROVE  /\ attempts' \in [Key -> 0 .. CountCap]
           /\ grants' \in [Key -> Nat]
           /\ counted' \in [Request -> SUBSET Key]
           /\ blockers' \in [Request -> SUBSET Key]
  BY LimitsAssumption DEF TypeOK, CloseWindows, LiveKeys

\* A request that ends leaves its slot idle and well typed.
LEMMA FinishType ==
    ASSUME TypeInv, NEW r \in Request, NEW out \in Outcome, Finish(r, out)
    PROVE  /\ step' \in [Request -> {"idle", "check", "verdict", "reset"}]
           /\ keys' \in [Request -> SUBSET Key]
           /\ KeysInv'
           /\ tries' \in [Request -> 0 .. MaxRetries]
           /\ reply' \in [Request -> Reply]
           /\ answer' \in [Request -> Outcome]
  <1>1. 0 \in 0 .. MaxRetries /\ NoReply \in Reply
    BY RequestAssumption DEF NoReply, NoReading, Reply
  <1> QED
    BY <1>1 DEF TypeInv, TypeOK, KeysInv, Finish, OnePerDimension

\* So does one whose call failed.
LEMMA RetryType ==
    ASSUME TypeInv, NEW r \in Request, RetryOrFailOpen(r)
    PROVE  /\ step' \in [Request -> {"idle", "check", "verdict", "reset"}]
           /\ keys' \in [Request -> SUBSET Key]
           /\ KeysInv'
           /\ tries' \in [Request -> 0 .. MaxRetries]
           /\ reply' \in [Request -> Reply]
           /\ answer' \in [Request -> Outcome]
  <1>1. CASE tries[r] < MaxRetries /\ tries' = [tries EXCEPT ![r] = @ + 1]
              /\ UNCHANGED <<step, keys, reply, answer>>
    BY <1>1, RequestAssumption DEF TypeInv, TypeOK, KeysInv
  <1>2. CASE FailOpen(r)
    BY <1>2, FinishType DEF FailOpen, Outcome
  <1> QED
    BY <1>1, <1>2 DEF RetryOrFailOpen

\* A handler that starts keeps the types, whichever request it takes up.
LEMMA StartType ==
    ASSUME TypeInv, NEW r \in Request, NEW s \in {"idle", "check", "reset"},
           NEW K \in SUBSET Key, OnePerDimension(K), s # "idle" => K # {},
           NEW out \in Outcome, Start(r, s, K, out)
    PROVE  TypeInv'
  BY DEF TypeInv, TypeOK, KeysInv, Start

\* A request about any texts keeps the types.
LEMMA HandlerType ==
    ASSUME TypeInv, NEW r \in Request, NEW t \in Text, NEW ip \in Text,
           BeforeLogin(r, t, ip) \/ AfterLogin(r, t, ip)
    PROVE  TypeInv'
  <1>1. KeysOf(t, ip) \in SUBSET Key /\ OnePerDimension(KeysOf(t, ip)) /\ OnePerDimension({})
    BY KeysOfRequest DEF OnePerDimension
  <1>2. \E s \in {"idle", "check", "reset"}, K \in SUBSET Key, out \in Outcome :
           OnePerDimension(K) /\ (s # "idle" => K # {}) /\ Start(r, s, K, out)
    BY <1>1 DEF BeforeLogin, AfterLogin, Outcome
  <1> QED
    BY <1>2, StartType

\* Every step of a handler, of Redis and of the clock keeps the types.
LEMMA NextType == TypeInv /\ [AnyNext]_vars => TypeInv'
  <1> SUFFICES ASSUME TypeInv, [AnyNext]_vars
               PROVE  TypeInv'
    OBVIOUS
  <1> USE DEF TypeInv
  <1>t. TypeOK /\ db \in [Key -> Counter] /\ keys \in [Request -> SUBSET Key]
    BY DEF TypeOK
  <1>e. OnePerDimension({})
    BY DEF OnePerDimension
  <1>1. ASSUME NEW r \in Request, NEW t \in Text, NEW ip \in Text,
               BeforeLogin(r, t, ip) \/ AfterLogin(r, t, ip)
        PROVE  TypeInv'
    BY <1>1, HandlerType
  <1>2. ASSUME NEW r \in Request, Undecodable(r)
        PROVE  TypeInv'
    <2>1. \E out \in Outcome : Start(r, "idle", {}, out)
      BY <1>2 DEF Undecodable, Outcome
    <2> QED
      BY <1>e, <2>1, StartType
  <1>3. ASSUME NEW r \in Request, ExecScript(r)
        PROVE  TypeInv'
    <2> DEFINE d == IncrementLoginAttempts(db, keys[r])
               rep == [id |-> Reading(d, keys[r], "id"), ip |-> Reading(d, keys[r], "ip")]
    <2>1. d \in [Key -> Counter] /\ db' = d
      BY <1>3, <1>t, IncrementEffect DEF ExecScript, CountOnServer
    <2>2. rep \in Reply
      BY <1>t, <2>1, ReadingEffect DEF KeysInv, Reply
    <2>3. /\ step' = [step EXCEPT ![r] = "verdict"]
          /\ reply' = [reply EXCEPT ![r] = rep]
          /\ UNCHANGED <<keys, tries, answer, wait>>
      BY <1>3 DEF ExecScript
    <2>4. /\ blockers' \in [Request -> SUBSET Key]
          /\ counted' \in [Request -> SUBSET Key]
      BY <1>3, <1>t DEF ExecScript, TypeOK, LockedKeys
    <2>5. attempts' \in [Key -> 0 .. CountCap]
      BY <1>3, <1>t, LimitsAssumption DEF ExecScript, CountOnServer, TypeOK
    <2>6. grants' \in [Key -> Nat]
      BY <1>3, <1>t DEF ExecScript, TypeOK
    <2>7. KeysInv'
      BY <2>3 DEF KeysInv
    <2> HIDE DEF d, rep
    <2> QED
      BY <1>t, <2>1, <2>2, <2>3, <2>4, <2>5, <2>6, <2>7 DEF TypeOK
  <1>4. ASSUME NEW r \in Request, ExecDel(r)
        PROVE  TypeInv'
    <2>1. Finish(r, "success") /\ "success" \in Outcome /\ wait' = wait
      BY <1>4 DEF ExecDel, Outcome
    <2>2. db' \in [Key -> Counter] /\ CloseWindows(ResetLoginAttempts(db, keys[r]))
          /\ ResetLoginAttempts(db, keys[r]) \in [Key -> Counter]
      BY <1>4, <1>t, ResetEffect DEF ExecDel, DeleteOnServer
    <2> QED
      BY <1>t, <2>1, <2>2, FinishType, CloseWindowsType DEF TypeOK
  <1>5. ASSUME NEW r \in Request, Answer(r)
        PROVE  TypeInv'
    <2> DEFINE v == Verdict(reply[r].id, reply[r].ip)
    <2>1. v.outcome \in Outcome /\ v.retryAfter \in Int
      BY <1>t, VerdictEffect DEF TypeOK, Reply
    <2>2. Finish(r, v.outcome) /\ wait' = [wait EXCEPT ![r] = TicksPerSecond * v.retryAfter]
          /\ UNCHANGED <<db, blockers, attempts, counted, grants>>
      BY <1>5 DEF Answer
    <2> HIDE DEF v
    <2>3. wait' \in [Request -> Int]
      BY <1>t, <2>1, <2>2 DEF TypeOK, TicksPerSecond
    <2> QED
      BY <1>t, <2>1, <2>2, <2>3, FinishType DEF TypeOK
  <1>6. ASSUME NEW r \in Request, Unreachable(r) \/ Cancel(r)
        PROVE  TypeInv'
    <2>1. UNCHANGED <<db, ghosts>>
      BY <1>6 DEF Unreachable, Cancel
    <2>2. RetryOrFailOpen(r) \/ FailOpen(r)
      BY <1>6 DEF Unreachable, Cancel
    <2>3. CASE RetryOrFailOpen(r)
      BY <1>t, <2>1, <2>3, RetryType DEF TypeOK, ghosts
    <2>4. CASE FailOpen(r)
      BY <1>t, <2>1, <2>4, FinishType DEF TypeOK, ghosts, FailOpen, Outcome
    <2> QED
      BY <2>2, <2>3, <2>4
  <1>7. ASSUME NEW r \in Request, LoseReply(r)
        PROVE  TypeInv'
    <2>1. RetryOrFailOpen(r) /\ wait' = wait
      BY <1>7 DEF LoseReply
    <2>2. CASE CountOnServer(r) /\ counted' = [counted EXCEPT ![r] = keys[r]]
               /\ UNCHANGED <<blockers, grants>>
      <3>1. db' \in [Key -> Counter] /\ attempts' \in [Key -> 0 .. CountCap]
        BY <1>t, <2>2, IncrementEffect, LimitsAssumption DEF CountOnServer, TypeOK
      <3>2. counted' \in [Request -> SUBSET Key]
        BY <1>t, <2>2 DEF TypeOK
      <3> QED
        BY <1>t, <2>1, <2>2, <3>1, <3>2, RetryType DEF TypeOK
    <2>3. CASE DeleteOnServer(r)
      <3>1. db' \in [Key -> Counter] /\ CloseWindows(ResetLoginAttempts(db, keys[r]))
            /\ ResetLoginAttempts(db, keys[r]) \in [Key -> Counter]
        BY <1>t, <2>3, ResetEffect DEF DeleteOnServer
      <3> QED
        BY <1>t, <2>1, <3>1, RetryType, CloseWindowsType DEF TypeOK
    <2> QED
      BY <1>7, <2>2, <2>3 DEF LoseReply
  <1>8. CASE Tick
    <2> DEFINE d == [k \in Key |-> Elapse(db[k])]
    <2>1. d \in [Key -> Counter]
      BY <1>t, ElapseEffect
    <2>2. db' = d /\ CloseWindows(d) /\ UNCHANGED <<step, keys, tries, reply, answer>>
          /\ wait' = [r \in Request |-> IF wait[r] > 0 THEN wait[r] - 1 ELSE 0]
      BY <1>8 DEF Tick
    <2> HIDE DEF d
    <2>3. wait' \in [Request -> Int]
      BY <1>t, <2>2 DEF TypeOK
    <2> QED
      BY <1>t, <2>1, <2>2, <2>3, CloseWindowsType DEF TypeOK, KeysInv
  <1>9. CASE LoseData
    <2> DEFINE d == [k \in Key |-> Absent]
    <2>1. d \in [Key -> Counter]
      BY AbsentIsCounter
    <2>2. db' = d /\ CloseWindows(d)
          /\ UNCHANGED <<step, keys, tries, reply, answer, wait>>
      BY <1>9 DEF LoseData
    <2> HIDE DEF d
    <2> QED
      BY <1>t, <2>1, <2>2, CloseWindowsType DEF TypeOK, KeysInv
  <1>10. CASE UNCHANGED vars
    BY <1>t, <1>10 DEF TypeOK, KeysInv, vars, ghosts
  <1> QED
    BY <1>1, <1>2, <1>3, <1>4, <1>5, <1>6, <1>7, <1>8, <1>9, <1>10 DEF AnyNext, Progress

\* The counters, the requests in flight and the answers keep their shape
\* (TypeOK of LoginBackoff), and a request names at most one key per dimension.
THEOREM TypeCorrect == Spec => []TypeOK
  <1>1. TypeInv => TypeOK
    BY DEF TypeInv
  <1> QED
    BY InitType, NextType, <1>1, NextIsAny, PTL DEF Spec

------------------------------------------------------------------------------
(* Requests get on.  That each is answered is liveness; that no behaviour    *)
(* gives it more than so many steps to take is safety.                      *)

\* A step is one of some request, or of the clock, or of Redis.
LEMMA StepsLeftStep ==
    ASSUME TypeInv, [AnyNext]_vars, NEW r \in Request, step[r] # "idle"
    PROVE  /\ StepsLeft(r)' <= StepsLeft(r)
           /\ Progress(r) => StepsLeft(r)' < StepsLeft(r)
  <1>t. /\ step \in [Request -> {"idle", "check", "verdict", "reset"}]
        /\ tries \in [Request -> 0 .. MaxRetries] /\ MaxRetries \in Nat
        /\ StepsLeft(r) \in Nat /\ StepsLeft(r) >= 1
        /\ step[r] \in {"check", "reset"} => StepsLeft(r) >= 2
    BY RequestAssumption DEF TypeInv, TypeOK, StepsLeft
  <1>1. ASSUME NEW q \in Request, Progress(q)
        PROVE  \/ /\ step[q] = "check"
                  /\ step' = [step EXCEPT ![q] = "verdict"] /\ tries' = tries
               \/ /\ step[q] # "idle"
                  /\ step' = [step EXCEPT ![q] = "idle"] /\ tries' = [tries EXCEPT ![q] = 0]
               \/ /\ step[q] \in {"check", "reset"}
                  /\ step' = step /\ tries' = [tries EXCEPT ![q] = @ + 1]
    <2>1. CASE ExecScript(q)
      BY <2>1 DEF ExecScript, CountOnServer
    <2>2. CASE ExecDel(q)
      BY <2>2 DEF ExecDel, DeleteOnServer, Finish
    <2>3. CASE Answer(q)
      <3>1. \E out : Finish(q, out)
        BY <2>3 DEF Answer
      <3>2. step[q] = "verdict"
        BY <2>3 DEF Answer
      <3> QED
        BY <3>1, <3>2 DEF Finish
    <2>4. CASE Unreachable(q) \/ LoseReply(q) \/ Cancel(q)
      <3>1. step[q] \in {"check", "reset"}
        BY <2>4 DEF Unreachable, LoseReply, Cancel, CountOnServer, DeleteOnServer
      <3>2. RetryOrFailOpen(q) \/ FailOpen(q)
        BY <2>4 DEF Unreachable, LoseReply, Cancel
      <3> QED
        BY <3>1, <3>2 DEF RetryOrFailOpen, FailOpen, Finish
    <2> QED
      BY <1>1, <2>1, <2>2, <2>3, <2>4 DEF Progress
  <1>2. ASSUME Progress(r)
        PROVE  StepsLeft(r)' < StepsLeft(r)
    <2>1. CASE step'[r] = "idle" \/ (step[r] = "check" /\ step'[r] = "verdict")
      BY <1>t, <2>1 DEF StepsLeft
    <2>2. CASE /\ step[r] \in {"check", "reset"} /\ step'[r] = step[r]
               /\ tries'[r] = tries[r] + 1
      BY <1>t, <2>2 DEF StepsLeft
    <2>3. \/ step[r] = "check" /\ step' = [step EXCEPT ![r] = "verdict"]
          \/ step' = [step EXCEPT ![r] = "idle"]
          \/ /\ step[r] \in {"check", "reset"}
             /\ step' = step /\ tries' = [tries EXCEPT ![r] = @ + 1]
      BY <1>1, <1>2
    <2> QED
      BY <1>t, <2>1, <2>2, <2>3
  <1>3. ASSUME NEW q \in Request \ {r}, Progress(q)
        PROVE  StepsLeft(r)' = StepsLeft(r)
    <2>1. step'[r] = step[r] /\ tries'[r] = tries[r]
      BY <1>1, <1>3, <1>t
    <2> QED
      BY <2>1 DEF StepsLeft
  <1>4. ASSUME NEW q \in Request, NEW t \in Text, NEW ip \in Text,
               BeforeLogin(q, t, ip) \/ AfterLogin(q, t, ip) \/ Undecodable(q)
        PROVE  StepsLeft(r)' = StepsLeft(r)
    <2>1. \E s, K, out : Start(q, s, K, out)
      BY <1>4 DEF BeforeLogin, AfterLogin, Undecodable
    <2>2. step'[r] = step[r] /\ tries'[r] = tries[r]
      BY <1>t, <2>1 DEF Start
    <2> QED
      BY <2>2 DEF StepsLeft
  <1>5. ASSUME Tick \/ LoseData \/ UNCHANGED vars
        PROVE  StepsLeft(r)' = StepsLeft(r)
    BY <1>5 DEF Tick, LoseData, vars, StepsLeft
  <1>6. StepsLeft(r)' <= StepsLeft(r)
    <2>0. StepsLeft(r)' = StepsLeft(r) => StepsLeft(r)' <= StepsLeft(r)
      BY <1>t
    <2>1. ASSUME NEW q \in Request, Progress(q)
          PROVE  StepsLeft(r)' <= StepsLeft(r)
      <3>1. CASE q = r
        <4>1. step'[r] \in {"idle", "check", "verdict", "reset"} /\ tries'[r] \in Int
          BY <1>1, <1>t, <2>1, <3>1
        <4>2. StepsLeft(r)' \in Int
          BY <1>t, <4>1 DEF StepsLeft
        <4>3. StepsLeft(r)' < StepsLeft(r)
          BY <1>2, <2>1, <3>1
        <4> QED
          BY <1>t, <4>2, <4>3
      <3>2. CASE q # r
        BY <1>3, <2>0, <2>1, <3>2
      <3> QED
        BY <3>1, <3>2
    <2>2. CASE \E q \in Request, t \in Text, ip \in Text :
                  BeforeLogin(q, t, ip) \/ AfterLogin(q, t, ip) \/ Undecodable(q)
      BY <1>4, <2>0, <2>2
    <2>3. CASE Tick \/ LoseData \/ UNCHANGED vars
      BY <1>5, <2>0, <2>3
    <2>4. Empty \in Text
      BY TextAssumption
    <2> QED
      BY <2>1, <2>2, <2>3, <2>4 DEF AnyNext
  <1> QED
    BY <1>2, <1>6

\* EveryTryCounts of LoginBackoff: whatever is lost, late or cancelled, a request
\* makes at most MaxRetries + 1 tries before its verdict, or is answered without one.
THEOREM RequestsGetOn == Spec => EveryTryCounts
  <1>1. TypeInv /\ [AnyNext]_vars =>
          [\A r \in Request : step[r] # "idle" =>
              /\ StepsLeft(r)' <= StepsLeft(r)
              /\ Progress(r) => StepsLeft(r)' < StepsLeft(r)]_vars
    BY StepsLeftStep
  <1> QED
    BY InitType, NextType, <1>1, NextIsAny, PTL DEF Spec, EveryTryCounts

------------------------------------------------------------------------------
(* Windows.  Every step of the specification changes the database by one of *)
(* Redis's commands, by the clock, or by its loss; none of them leaves a    *)
(* counter without an expiry or moves an expiry back.                       *)

Expiring(d) == \A k \in LiveKeys(d) : d[k].ttl \in 1 .. TicksPerSecond * LockoutSeconds(k)

\* From database d to database e no open window is lengthened.
Ages(d, e) == \A k \in LiveKeys(d) : IsLive(e, k) => e[k].ttl <= d[k].ttl

\* The scripts keep every counter they touch within its window, and lengthen
\* the window of none that was open.
LEMMA IncrementWindows ==
    ASSUME NEW d \in [Key -> Counter], NEW K \in SUBSET Key, Expiring(d)
    PROVE  /\ Expiring(IncrementLoginAttempts(d, K))
           /\ Ages(d, IncrementLoginAttempts(d, K))
           /\ LiveKeys(d) \subseteq LiveKeys(IncrementLoginAttempts(d, K))
           /\ \A k \in LiveKeys(d) : IncrementLoginAttempts(d, K)[k].ttl = d[k].ttl
           /\ \A k \in K : IncrementLoginAttempts(d, K)[k].count > 0
  <1> DEFINE e == IncrementLoginAttempts(d, K)
  <1>1. e \in [Key -> Counter]
    BY IncrementEffect
  <1>2. ASSUME NEW k \in Key, k \in K
        PROVE  /\ e[k].count > 0
               /\ e[k].ttl = IF d[k].count = 0 THEN TicksPerSecond * LockoutSeconds(k) ELSE d[k].ttl
    <2>1. e[k] = CountAttempt(d[k], LockoutSeconds(k))
      BY <1>2, IncrementEffect
    <2>2. d[k] \in Counter /\ LockoutSeconds(k) \in Nat
      BY LimitsOfKey
    <2> HIDE DEF e
    <2> QED
      BY <2>1, <2>2, CountAttemptEffect
  <1>3. ASSUME NEW k \in Key, k \notin K
        PROVE  e[k] = d[k]
    BY <1>3, IncrementEffect
  <1>4. \A k \in Key : d[k].count \in Nat /\ LockoutSeconds(k) \in Nat /\ LockoutSeconds(k) >= 1
    BY LimitsOfKey, LimitsAssumption DEF Counter
  <1>5. \A k \in Key : TicksPerSecond * LockoutSeconds(k) \in 1 .. TicksPerSecond * LockoutSeconds(k)
    BY <1>4 DEF TicksPerSecond
  <1>6. \A k \in LiveKeys(d) : d[k].ttl \in Int /\ d[k].count # 0
    BY <1>4 DEF Expiring, LiveKeys, IsLive
  <1> HIDE DEF e
  <1>7. Expiring(e)
    BY <1>1, <1>2, <1>3, <1>4, <1>5 DEF Expiring, LiveKeys, IsLive
  <1>8. \A k \in LiveKeys(d) : e[k].ttl = d[k].ttl
    BY <1>2, <1>3, <1>6 DEF LiveKeys
  <1>9. LiveKeys(d) \subseteq LiveKeys(e)
    BY <1>2, <1>3 DEF LiveKeys, IsLive
  <1>10. Ages(d, e)
    BY <1>6, <1>8 DEF Ages
  <1> QED
    BY <1>2, <1>7, <1>8, <1>9, <1>10 DEF e

\* So does DEL, which leaves a counter alone or removes it whole.
LEMMA ResetWindows ==
    ASSUME NEW d \in [Key -> Counter], NEW K \in SUBSET Key, Expiring(d)
    PROVE  /\ Expiring(ResetLoginAttempts(d, K))
           /\ \A k \in Key : IsLive(ResetLoginAttempts(d, K), k)
                 => ResetLoginAttempts(d, K)[k] = d[k]
  BY ResetEffect, AbsentIsCounter DEF Expiring, LiveKeys, IsLive

\* So does the clock, which only shortens what is left of a window.
LEMMA ElapseWindows ==
    ASSUME NEW d \in [Key -> Counter], Expiring(d)
    PROVE  LET e == [k \in Key |-> Elapse(d[k])]
           IN  /\ Expiring(e)
               /\ \A k \in Key : IsLive(e, k) => /\ k \in LiveKeys(d)
                                                 /\ e[k].ttl = d[k].ttl - 1
                                                 /\ e[k].ttl >= 1
                                                 /\ e[k].count = d[k].count
  <1> DEFINE e == [k \in Key |-> Elapse(d[k])]
  <1>1. ASSUME NEW k \in Key, e[k].count > 0
        PROVE  /\ d[k].count > 0 /\ e[k].count = d[k].count
               /\ e[k].ttl = d[k].ttl - 1
               /\ e[k].ttl >= 1
               /\ d[k].ttl \in 1 .. TicksPerSecond * LockoutSeconds(k)
    <2>1. d[k].count > 0 /\ e[k].count = d[k].count
      BY <1>1, ElapseEffect
    <2>2. d[k].ttl \in 1 .. TicksPerSecond * LockoutSeconds(k)
      BY <2>1 DEF Expiring, LiveKeys, IsLive
    <2> QED
      BY <1>1, <2>1, <2>2, ElapseEffect
  <1>2. \A k \in Key : TicksPerSecond * LockoutSeconds(k) \in Int
    BY LimitsOfKey DEF TicksPerSecond
  <1> HIDE DEF e
  <1>3. Expiring(e)
    BY <1>1, <1>2 DEF Expiring, LiveKeys, IsLive
  <1>4. \A k \in Key : IsLive(e, k) => /\ k \in LiveKeys(d)
                                       /\ e[k].ttl = d[k].ttl - 1
                                       /\ e[k].ttl >= 1
                                       /\ e[k].count = d[k].count
    BY <1>1 DEF LiveKeys, IsLive
  <1> QED
    BY <1>3, <1>4 DEF e

\* What a step can do to the database.
LEMMA DatabaseStep ==
    ASSUME TypeInv, [AnyNext]_vars
    PROVE  \/ \E r \in Request : db' = IncrementLoginAttempts(db, keys[r])
           \/ \E r \in Request : db' = ResetLoginAttempts(db, keys[r])
           \/ db' = [k \in Key |-> Elapse(db[k])]
           \/ db' = [k \in Key |-> Absent]
           \/ db' = db
  <1>2. ASSUME NEW r \in Request, Progress(r)
        PROVE  \/ db' = IncrementLoginAttempts(db, keys[r])
               \/ db' = ResetLoginAttempts(db, keys[r])
               \/ db' = db
    BY <1>2 DEF Progress, ExecScript, ExecDel, Answer, Unreachable, LoseReply, Cancel,
                CountOnServer, DeleteOnServer
  <1>3. ASSUME NEW r \in Request, NEW t \in Text, NEW ip \in Text,
               BeforeLogin(r, t, ip) \/ AfterLogin(r, t, ip) \/ Undecodable(r)
        PROVE  db' = db
    BY <1>3 DEF BeforeLogin, AfterLogin, Undecodable, Start
  <1>4. ASSUME NEW r \in Request, Undecodable(r)
        PROVE  db' = db
    BY <1>4 DEF Undecodable, Start
  <1>5. Tick => db' = [k \in Key |-> Elapse(db[k])]
    BY DEF Tick
  <1>6. LoseData => db' = [k \in Key |-> Absent]
    BY DEF LoseData
  <1>7. UNCHANGED vars => db' = db
    BY DEF vars
  <1> QED
    BY <1>2, <1>3, <1>4, <1>5, <1>6, <1>7 DEF AnyNext

\* Every step leaves every counter inside a window and lengthens no open one.
LEMMA WindowStep ==
    ASSUME TypeInv, Expiring(db), [AnyNext]_vars
    PROVE  Expiring(db') /\ Ages(db, db')
  <1>1. db \in [Key -> Counter] /\ \A r \in Request : keys[r] \in SUBSET Key
    BY DEF TypeInv, TypeOK
  <1>2. \A k \in LiveKeys(db) : db[k].ttl \in Int
    BY DEF Expiring
  <1>3. ASSUME NEW K \in SUBSET Key, db' = IncrementLoginAttempts(db, K)
        PROVE  Expiring(db') /\ Ages(db, db')
    BY <1>1, <1>3, IncrementWindows
  <1>4. ASSUME NEW K \in SUBSET Key, db' = ResetLoginAttempts(db, K)
        PROVE  Expiring(db') /\ Ages(db, db')
    BY <1>1, <1>2, <1>4, ResetWindows DEF Ages, LiveKeys
  <1>5. CASE db' = [k \in Key |-> Elapse(db[k])]
    BY <1>1, <1>2, <1>5, ElapseWindows DEF Ages, LiveKeys
  <1>6. CASE db' = [k \in Key |-> Absent]
    BY <1>6, AbsentIsCounter DEF Expiring, Ages, LiveKeys, IsLive
  <1>7. CASE db' = db
    BY <1>2, <1>7 DEF Ages
  <1> QED
    BY <1>1, <1>3, <1>4, <1>5, <1>6, <1>7, DatabaseStep

WindowInv == TypeInv /\ Expiring(db)

\* No window is open at the start.
LEMMA InitWindow == Init => WindowInv
  BY InitType, AbsentIsCounter DEF WindowInv, Init, Expiring, LiveKeys, IsLive

\* Every step of the service keeps every counter inside a window that only
\* gets shorter.
LEMMA NextWindow == WindowInv /\ [AnyNext]_vars => WindowInv'
  BY NextType, WindowStep DEF WindowInv, Expiring, LiveKeys, IsLive

\* NoImmortalCounter of LoginBackoff: a counter never exists without an
\* expiry, nor with more than its lockout left.
THEOREM CountersExpire == Spec => []NoImmortalCounter
  <1>1. WindowInv => NoImmortalCounter
    BY DEF WindowInv, Expiring, NoImmortalCounter
  <1> QED
    BY InitWindow, NextWindow, <1>1, NextIsAny, PTL DEF Spec

\* FixedWindow of LoginBackoff: no step lengthens an open window.
THEOREM WindowsAreFixed == Spec => FixedWindow
  <1>1. WindowInv /\ [AnyNext]_vars
          => [\A k \in LiveKeys(db) : IsLive(db', k) => db'[k].ttl <= db[k].ttl]_vars
    BY WindowStep DEF WindowInv, Ages
  <1> QED
    BY InitWindow, NextWindow, <1>1, NextIsAny, PTL DEF Spec, FixedWindow

------------------------------------------------------------------------------
(* One counter per subject: the keys a request names are in canonical form, *)
(* and no counter exists under any other key.                               *)

Canonical(k) ==
    /\ k[2] # Empty
    /\ k[2] = IF k[1] = "id" THEN normaliseIdentifier(k[2]) ELSE TrimSpace[k[2]]

SubjectInv ==
    /\ \A r \in Request : \A k \in keys[r] : Canonical(k)
    /\ \A k \in LiveKeys(db) : Canonical(k)

\* Normalising twice is normalising once, so a request only names keys in
\* canonical form.
LEMMA KeysAreCanonical ==
    ASSUME NEW t \in Text, NEW ip \in Text, NEW k \in KeysOf(t, ip)
    PROVE  Canonical(k)
  <1>1. CASE k = <<"id", normaliseIdentifier(t)>>
    BY <1>1, NormalFormAssumption DEF KeysOf, Canonical
  <1>2. CASE k = <<"ip", TrimSpace[ip]>>
    BY <1>2, NormalFormAssumption DEF KeysOf, Canonical
  <1> QED
    BY <1>1, <1>2 DEF KeysOf

\* A step gives a request the keys of a new one, none, or those it had.
LEMMA KeysStep ==
    ASSUME TypeInv, [AnyNext]_vars, NEW r \in Request
    PROVE  \/ keys'[r] \subseteq keys[r]
           \/ \E t \in Text, ip \in Text : keys'[r] = KeysOf(t, ip)
  <1> USE DEF TypeInv, TypeOK
  <1>1. ASSUME NEW q \in Request, NEW t \in Text, NEW ip \in Text,
               BeforeLogin(q, t, ip) \/ AfterLogin(q, t, ip)
        PROVE  keys'[r] \in {keys[r], {}, KeysOf(t, ip)}
    BY <1>1 DEF BeforeLogin, AfterLogin, Start
  <1>2. ASSUME NEW q \in Request, Undecodable(q)
        PROVE  keys'[r] \subseteq keys[r]
    BY <1>2 DEF Undecodable, Start
  <1>3. ASSUME NEW q \in Request, Progress(q)
        PROVE  keys' = keys \/ keys' = [keys EXCEPT ![q] = {}]
    BY <1>3 DEF Progress, ExecScript, ExecDel, Answer, Unreachable, LoseReply, Cancel,
                RetryOrFailOpen, FailOpen, Finish
  <1>4. CASE Tick \/ LoseData \/ UNCHANGED vars
    BY <1>4 DEF Tick, LoseData, vars
  <1> QED
    BY <1>1, <1>2, <1>3, <1>4 DEF AnyNext

\* A step opens windows only for the keys of a request in flight.
LEMMA NextSubject == TypeInv /\ SubjectInv /\ [AnyNext]_vars => SubjectInv'
  <1> SUFFICES ASSUME TypeInv, SubjectInv, [AnyNext]_vars
               PROVE  SubjectInv'
    OBVIOUS
  <1>1. \A r \in Request : \A k \in keys'[r] : Canonical(k)
    BY KeysStep, KeysAreCanonical DEF SubjectInv
  <1>2. db \in [Key -> Counter] /\ \A r \in Request : keys[r] \in SUBSET Key
    BY DEF TypeInv, TypeOK
  <1> SUFFICES ASSUME NEW k \in Key, db'[k].count > 0
               PROVE  db[k].count > 0 \/ \E r \in Request : k \in keys[r]
    BY <1>1 DEF SubjectInv, LiveKeys, IsLive
  <1>3. ASSUME NEW r \in Request, db' = IncrementLoginAttempts(db, keys[r])
        PROVE  db[k].count > 0 \/ k \in keys[r]
    BY <1>2, <1>3, IncrementEffect
  <1>4. ASSUME NEW r \in Request, db' = ResetLoginAttempts(db, keys[r])
        PROVE  db[k].count > 0
    BY <1>2, <1>4, ResetEffect, AbsentIsCounter
  <1>5. CASE db' = [l \in Key |-> Elapse(db[l])]
    <2>1. db'[k] = Elapse(db[k]) /\ db[k] \in Counter
      BY <1>2, <1>5
    <2>2. db'[k].count = 0 \/ db'[k].count = db[k].count
      BY <2>1, ElapseEffect
    <2> QED
      BY <2>2
  <1>6. CASE db' = [l \in Key |-> Absent]
    BY <1>6, AbsentIsCounter
  <1> QED
    BY <1>3, <1>4, <1>5, <1>6, DatabaseStep

\* OneCounterPerSubject of LoginBackoff: the spellings of an identifier share
\* one counter, and a blank one has none.
THEOREM SubjectsAreCanonical == Spec => []OneCounterPerSubject
  <1>1. Init => TypeInv /\ SubjectInv
    BY InitType, AbsentIsCounter DEF Init, SubjectInv, LiveKeys, IsLive
  <1>2. TypeInv /\ SubjectInv /\ [AnyNext]_vars => TypeInv' /\ SubjectInv'
    BY NextType, NextSubject
  <1>3. SubjectInv => OneCounterPerSubject
    BY DEF SubjectInv, Canonical, OneCounterPerSubject
  <1> QED
    BY <1>1, <1>2, <1>3, NextIsAny, PTL DEF Spec

------------------------------------------------------------------------------
(* Grants.  A request is granted only on a count it took part in, so the    *)
(* requests granted in a window are at most the attempts counted in it.     *)

GrantsInv ==
    \A k \in Key : grants[k] <= db[k].count /\ grants[k] <= MaxAttempts(k)

\* What remembers a closed window is forgotten with it.
LEMMA CloseWindowsGrants ==
    ASSUME WindowInv, GrantsInv, NEW d \in [Key -> Counter], db' = d, CloseWindows(d),
           \A k \in Key : IsLive(d, k) => d[k].count = db[k].count
    PROVE  GrantsInv'
  <1>1. \A k \in Key : grants'[k] = IF IsLive(d, k) THEN grants[k] ELSE 0
    BY DEF CloseWindows
  <1>2. \A k \in Key : d[k].count >= 0 /\ MaxAttempts(k) >= 0
    BY LimitsOfKey, LimitsAssumption DEF Counter
  <1> QED
    BY <1>1, <1>2 DEF GrantsInv, IsLive, MaxAttempts

\* Every step keeps the grants of an open window at or below its counter and
\* its threshold: counting and ruling are one script.
LEMMA NextGrants == WindowInv /\ GrantsInv /\ [AnyNext]_vars => GrantsInv'
  <1> SUFFICES ASSUME WindowInv, GrantsInv, [AnyNext]_vars
               PROVE  GrantsInv'
    OBVIOUS
  <1>t. TypeOK /\ KeysInv /\ db \in [Key -> Counter] /\ keys \in [Request -> SUBSET Key]
    BY DEF WindowInv, TypeInv, TypeOK
  <1>c. \A k \in Key : /\ db[k].count \in Nat /\ grants[k] \in Nat /\ db[k].count <= CountCap
                       /\ MaxAttempts(k) \in Nat /\ MaxAttempts(k) < CountCap
                       /\ CountCap \in Nat
    BY <1>t, LimitsOfKey, LimitsAssumption DEF TypeOK, Counter
  <1>i. ASSUME NEW r \in Request, db' = IncrementLoginAttempts(db, keys[r])
        PROVE  \A k \in Key :
                 db'[k].count = IF k \in keys[r] /\ db[k].count < CountCap
                                  THEN db[k].count + 1 ELSE db[k].count
    <2>1. \A k \in Key : db'[k] = IF k \in keys[r] THEN CountAttempt(db[k], LockoutSeconds(k))
                                                   ELSE db[k]
      BY <1>t, <1>i, IncrementEffect
    <2>2. \A k \in Key : db[k] \in Counter /\ LockoutSeconds(k) \in Nat
      BY <1>t, LimitsOfKey
    <2> QED
      BY <2>1, <2>2, CountAttemptEffect
  <1>1. ASSUME NEW r \in Request, ExecScript(r)
        PROVE  GrantsInv'
    <2> DEFINE d == IncrementLoginAttempts(db, keys[r])
               a == Reading(d, keys[r], "id")
               b == Reading(d, keys[r], "ip")
               granted == Verdict(a, b).outcome = "allowed"
    <2>1. db' = d /\ d \in [Key -> Counter]
      BY <1>1, <1>t, IncrementEffect DEF ExecScript, CountOnServer
    <2>2. \A k \in Key : grants'[k] = IF granted /\ k \in keys[r] THEN grants[k] + 1 ELSE grants[k]
      BY <1>1 DEF ExecScript
    <2>3. /\ a \in [count : Nat, remaining : Int]
          /\ b \in [count : Nat, remaining : Int]
          /\ \A k \in keys[r] : /\ k[1] = "id" => a.count = d[k].count
                                /\ k[1] = "ip" => b.count = d[k].count
      BY <1>t, <2>1, ReadingEffect DEF KeysInv
    <2>4. granted => a.count <= MaxIdentifierAttempts /\ b.count <= MaxIPAttempts
      BY <2>3, VerdictEffect
    <2> HIDE DEF d, a, b, granted
    <2>5. ASSUME granted, NEW k \in keys[r]
          PROVE  db'[k].count <= MaxAttempts(k)
      <3>1. k[1] = "id" \/ k[1] = "ip"
        BY <1>t DEF Key
      <3>2. a.count <= MaxIdentifierAttempts /\ b.count <= MaxIPAttempts
        BY <2>4, <2>5
      <3> QED
        BY <2>1, <2>3, <3>1, <3>2 DEF MaxAttempts
    <2>6. \A k \in Key : db'[k].count = IF k \in keys[r] /\ db[k].count < CountCap
                                         THEN db[k].count + 1 ELSE db[k].count
      BY <1>i, <2>1 DEF d
    <2>7. ASSUME NEW k \in Key
          PROVE  grants'[k] <= db'[k].count /\ grants'[k] <= MaxAttempts(k)
      <3>1. CASE granted /\ k \in keys[r]
        <4>1. db[k].count < CountCap
          BY <1>c, <2>5, <2>6, <3>1
        <4> QED
          BY <1>c, <2>2, <2>5, <2>6, <3>1, <4>1 DEF GrantsInv
      <3>2. CASE ~ (granted /\ k \in keys[r])
        BY <1>c, <2>2, <2>6, <3>2 DEF GrantsInv
      <3> QED
        BY <3>1, <3>2
    <2> QED
      BY <2>7 DEF GrantsInv, MaxAttempts
  <1>2. ASSUME NEW r \in Request, CountOnServer(r), UNCHANGED grants
        PROVE  GrantsInv'
    <2>1. \A k \in Key : db'[k].count = IF k \in keys[r] /\ db[k].count < CountCap
                                         THEN db[k].count + 1 ELSE db[k].count
      BY <1>2, <1>i DEF CountOnServer
    <2> QED
      BY <1>2, <1>c, <2>1 DEF GrantsInv, MaxAttempts
  <1>3. ASSUME NEW r \in Request, DeleteOnServer(r)
        PROVE  GrantsInv'
    <2>1. ResetLoginAttempts(db, keys[r]) \in [Key -> Counter]
      BY <1>t, ResetEffect
    <2>2. \A k \in Key : IsLive(ResetLoginAttempts(db, keys[r]), k)
             => ResetLoginAttempts(db, keys[r])[k].count = db[k].count
      BY <1>t, ResetWindows DEF WindowInv
    <2> QED
      BY <1>3, <2>1, <2>2, CloseWindowsGrants DEF DeleteOnServer
  <1>4. CASE Tick
    <2> DEFINE d == [k \in Key |-> Elapse(db[k])]
    <2>1. d \in [Key -> Counter] /\ \A k \in Key : IsLive(d, k) => d[k].count = db[k].count
      BY <1>t, ElapseEffect, ElapseWindows DEF WindowInv
    <2>2. db' = d /\ CloseWindows(d)
      BY <1>4 DEF Tick
    <2> HIDE DEF d
    <2> QED
      BY <2>1, <2>2, CloseWindowsGrants
  <1>5. CASE LoseData
    <2> DEFINE d == [k \in Key |-> Absent]
    <2>1. d \in [Key -> Counter] /\ \A k \in Key : IsLive(d, k) => d[k].count = db[k].count
      BY AbsentIsCounter DEF IsLive
    <2>2. db' = d /\ CloseWindows(d)
      BY <1>5 DEF LoseData
    <2> HIDE DEF d
    <2> QED
      BY <2>1, <2>2, CloseWindowsGrants
  <1>6. CASE UNCHANGED <<db, grants>>
    BY <1>6 DEF GrantsInv, MaxAttempts
  <1>7. ASSUME NEW r \in Request, Progress(r)
        PROVE  GrantsInv'
    BY <1>1, <1>2, <1>3, <1>6, <1>7
    DEF Progress, ExecDel, Answer, Unreachable, LoseReply, Cancel, ghosts
  <1>8. ASSUME NEW r \in Request, NEW t \in Text, NEW ip \in Text,
               BeforeLogin(r, t, ip) \/ AfterLogin(r, t, ip)
        PROVE  UNCHANGED <<db, grants>>
    BY <1>8 DEF BeforeLogin, AfterLogin, Start
  <1>9. ASSUME NEW r \in Request, Undecodable(r)
        PROVE  UNCHANGED <<db, grants>>
    BY <1>9 DEF Undecodable, Start
  <1>10. UNCHANGED vars => UNCHANGED <<db, grants>>
    BY DEF vars, ghosts
  <1> QED
    BY <1>4, <1>5, <1>6, <1>7, <1>8, <1>9, <1>10 DEF AnyNext

\* GrantsBounded of LoginBackoff: a window never grants more requests than the
\* threshold, however many run at once and however often a reply is lost.
THEOREM NoExcessGrants == Spec => []GrantsBounded
  <1>1. Init => WindowInv /\ GrantsInv
    BY InitWindow, AbsentIsCounter, LimitsOfKey DEF Init, GrantsInv
  <1>2. WindowInv /\ GrantsInv /\ [AnyNext]_vars => WindowInv' /\ GrantsInv'
    BY NextWindow, NextGrants
  <1>3. GrantsInv => GrantsBounded
    BY DEF GrantsInv, GrantsBounded
  <1> QED
    BY <1>1, <1>2, <1>3, NextIsAny, PTL DEF Spec

------------------------------------------------------------------------------
(* Retry-after.  The promise made to a blocked request is kept from the     *)
(* moment Redis executed the script: first by the reply the handler holds,  *)
(* then by the answer, then by the countdown.                               *)

\* The life left in a window against a promise of w ticks.
Covers(w, k) == 2 * db[k].ttl <= 2 * w + TicksPerSecond

PromisedBy(rep) == TicksPerSecond * Verdict(rep.id, rep.ip).retryAfter

Promise(r) ==
    /\ blockers[r] \subseteq LiveKeys(db)
    /\ step[r] \in {"check", "reset"} => blockers[r] = {}
    /\ step[r] = "verdict" => \A k \in blockers[r] : Covers(PromisedBy(reply[r]), k)
    /\ step[r] = "idle" => \A k \in blockers[r] : Covers(wait[r], k)

PromiseInv == \A r \in Request : Promise(r)

\* A step that leaves a request alone, and of the windows that block it only
\* some of those open before, keeps the promise made to it.
LEMMA PromiseKept ==
    ASSUME NEW r \in Request, Promise(r),
           step'[r] = step[r], reply'[r] = reply[r], wait'[r] = wait[r],
           blockers'[r] \subseteq blockers[r],
           \A k \in blockers'[r] : k \in LiveKeys(db') /\ db'[k].ttl = db[k].ttl
    PROVE  Promise(r)'
  <1>1. step[r] = "verdict" => \A k \in blockers'[r] : Covers(PromisedBy(reply[r]), k)'
    BY DEF Promise, Covers, PromisedBy
  <1>2. step[r] = "idle" => \A k \in blockers'[r] : Covers(wait[r], k)'
    BY DEF Promise, Covers
  <1> QED
    BY <1>1, <1>2 DEF Promise, LiveKeys, IsLive

\* A request nothing blocks was promised nothing.
LEMMA NothingPromised ==
    ASSUME NEW r \in Request, blockers'[r] = {}
    PROVE  Promise(r)'
  BY DEF Promise

\* A request whose call goes on or fails is blocked by nothing, before and after.
LEMMA CallPromise ==
    ASSUME TypeInv, NEW q \in Request, PromiseInv, step[q] \in {"check", "reset"},
           RetryOrFailOpen(q) \/ \E out \in Outcome : Finish(q, out), wait' = wait,
           \A r \in Request : blockers'[r] \subseteq blockers[r],
           \A r \in Request : \A k \in blockers'[r] : k \in LiveKeys(db') /\ db'[k].ttl = db[k].ttl,
           NEW r \in Request
    PROVE  Promise(r)'
  <1>1. CASE r = q
    <2>1. blockers[r] = {}
      BY <1>1 DEF PromiseInv, Promise
    <2> QED
      BY <2>1, NothingPromised
  <1>2. CASE r # q
    <2>1. step'[r] = step[r] /\ reply'[r] = reply[r]
      BY <1>2 DEF TypeInv, TypeOK, RetryOrFailOpen, FailOpen, Finish
    <2> QED
      BY <2>1, PromiseKept DEF PromiseInv
  <1> QED
    BY <1>1, <1>2

\* Every step keeps what a reply, and later an answer, says of the windows
\* that blocked its request.
LEMMA NextPromise == WindowInv /\ PromiseInv /\ [AnyNext]_vars => PromiseInv'
  <1> SUFFICES ASSUME WindowInv, PromiseInv, [AnyNext]_vars, NEW r \in Request
               PROVE  Promise(r)'
    BY DEF PromiseInv
  <1>t. TypeInv /\ TypeOK /\ KeysInv /\ Expiring(db)
        /\ db \in [Key -> Counter] /\ keys \in [Request -> SUBSET Key]
        /\ blockers \in [Request -> SUBSET Key] /\ wait \in [Request -> Int]
        /\ step \in [Request -> {"idle", "check", "verdict", "reset"}]
    BY DEF WindowInv, TypeInv, TypeOK
  <1>p. Promise(r) /\ blockers[r] \subseteq LiveKeys(db)
    BY DEF PromiseInv, Promise
  <1>l. \A k \in LiveKeys(db) : k \in Key /\ db[k].ttl \in Int /\ db[k].ttl >= 1
    BY <1>t, LimitsOfKey DEF Expiring, LiveKeys, TicksPerSecond
  <1>1. ASSUME NEW q \in Request, NEW s, NEW K, NEW out, Start(q, s, K, out)
        PROVE  Promise(r)'
    <2>1. CASE r = q
      BY <1>t, <1>1, <2>1, NothingPromised DEF Start
    <2>2. CASE r # q
      <3>1. /\ step'[r] = step[r] /\ reply'[r] = reply[r] /\ wait'[r] = wait[r]
            /\ blockers'[r] = blockers[r] /\ db' = db
        BY <1>t, <1>1, <2>2 DEF Start
      <3> QED
        BY <1>p, <3>1, PromiseKept
    <2> QED
      BY <2>1, <2>2
  <1>2. ASSUME NEW q \in Request, ExecScript(q)
        PROVE  Promise(r)'
    <2> DEFINE d == IncrementLoginAttempts(db, keys[q])
               a == Reading(d, keys[q], "id")
               b == Reading(d, keys[q], "ip")
    <2>1. /\ db' = d /\ d \in [Key -> Counter] /\ Expiring(d)
          /\ LiveKeys(db) \subseteq LiveKeys(d)
          /\ \A k \in keys[q] : d[k].count > 0
      BY <1>2, <1>t, IncrementEffect, IncrementWindows DEF ExecScript, CountOnServer
    <2>2. \A k \in LiveKeys(db) : d[k].ttl = db[k].ttl
      BY <1>t, IncrementWindows
    <2>3. /\ step' = [step EXCEPT ![q] = "verdict"]
          /\ reply' = [reply EXCEPT ![q] = [id |-> a, ip |-> b]]
          /\ blockers' = [blockers EXCEPT ![q] = keys[q] \intersect LockedKeys(d)]
          /\ wait' = wait
      BY <1>2 DEF ExecScript
    <2>4. /\ a \in [count : Nat, remaining : Int]
          /\ b \in [count : Nat, remaining : Int]
          /\ \A k \in keys[q] : k[1] = "id" => a = [count |-> d[k].count, remaining |-> TTL(d[k])]
          /\ \A k \in keys[q] : k[1] = "ip" => b = [count |-> d[k].count, remaining |-> TTL(d[k])]
      BY <1>t, <2>1, ReadingEffect DEF KeysInv
    <2> HIDE DEF d, a, b
    <2>5. CASE r # q
      BY <1>p, <1>t, <2>1, <2>2, <2>3, <2>5, PromiseKept DEF TypeOK
    <2>6. CASE r = q
      <3>1. /\ step'[r] = "verdict" /\ reply'[r] = [id |-> a, ip |-> b]
            /\ blockers'[r] = keys[r] \intersect LockedKeys(d)
        BY <1>t, <2>3, <2>6 DEF TypeOK
      <3>2. ASSUME NEW k \in blockers'[r]
            PROVE  k \in LiveKeys(d)
                   /\ 2 * d[k].ttl <= 2 * (TicksPerSecond * Verdict(a, b).retryAfter) + TicksPerSecond
        <4>1. k \in keys[q] /\ k \in Key /\ d[k].count > MaxAttempts(k) /\ d[k] \in Counter
          BY <1>t, <2>1, <2>6, <3>1 DEF LockedKeys
        <4>2. k \in LiveKeys(d)
          BY <2>1, <4>1 DEF LiveKeys, IsLive
        <4>3. d[k].ttl \in Int /\ d[k].ttl # NoExpiry
          BY <2>1, <4>1, <4>2, LimitsOfKey DEF Expiring, NoExpiry, TicksPerSecond
        <4>4. TTL(d[k]) \in Int /\ 2 * d[k].ttl <= 2 * (TicksPerSecond * TTL(d[k])) + TicksPerSecond
          BY <4>1, <4>3, TTLRounds
        <4>5. Verdict(a, b).retryAfter \in Int /\ Verdict(a, b).retryAfter >= TTL(d[k])
          <5>1. CASE k[1] = "id"
            <6>1. a.count > MaxIdentifierAttempts /\ a.remaining = TTL(d[k])
              BY <2>4, <4>1, <5>1 DEF MaxAttempts
            <6> QED
              BY <2>4, <6>1, VerdictEffect
          <5>2. CASE k[1] = "ip"
            <6>1. b.count > MaxIPAttempts /\ b.remaining = TTL(d[k])
              BY <2>4, <4>1, <5>2 DEF MaxAttempts
            <6> QED
              BY <2>4, <6>1, VerdictEffect
          <5> QED
            BY <4>1, <5>1, <5>2 DEF Key
        <4> QED
          BY <4>2, <4>3, <4>4, <4>5 DEF TicksPerSecond
      <3> QED
        BY <2>1, <3>1, <3>2 DEF Promise, Covers, PromisedBy
    <2> QED
      BY <2>5, <2>6
  <1>3. ASSUME NEW q \in Request, Answer(q)
        PROVE  Promise(r)'
    <2>1. /\ step' = [step EXCEPT ![q] = "idle"] /\ db' = db /\ blockers' = blockers
          /\ reply' = [reply EXCEPT ![q] = NoReply]
          /\ wait' = [wait EXCEPT ![q] = PromisedBy(reply[q])] /\ step[q] = "verdict"
      BY <1>3 DEF Answer, Finish, PromisedBy
    <2>2. CASE r = q
      <3>1. step'[r] = "idle" /\ wait'[r] = PromisedBy(reply[r])
        BY <1>t, <2>1, <2>2
      <3>2. \A k \in blockers[r] : Covers(PromisedBy(reply[r]), k)
        BY <1>p, <2>1, <2>2 DEF Promise
      <3> QED
        BY <1>p, <2>1, <3>1, <3>2 DEF Promise, Covers, LiveKeys, IsLive
    <2>3. CASE r # q
      BY <1>p, <1>t, <2>1, <2>3, PromiseKept DEF TypeOK
    <2> QED
      BY <2>2, <2>3
  <1>4. ASSUME NEW q \in Request, ExecDel(q) \/ (LoseReply(q) /\ DeleteOnServer(q))
        PROVE  Promise(r)'
    <2> DEFINE d == ResetLoginAttempts(db, keys[q])
    <2>1. /\ step[q] = "reset" /\ db' = d /\ wait' = wait
          /\ RetryOrFailOpen(q) \/ \E out \in Outcome : Finish(q, out)
          /\ blockers' = [x \in Request |-> blockers[x] \intersect LiveKeys(d)]
      BY <1>4 DEF ExecDel, LoseReply, DeleteOnServer, CloseWindows, Outcome
    <2>2. \A k \in Key : IsLive(d, k) => d[k] = db[k]
      BY <1>t, ResetWindows
    <2> HIDE DEF d
    <2> QED
      BY <1>t, <2>1, <2>2, CallPromise DEF LiveKeys
  <1>5. ASSUME NEW q \in Request, LoseReply(q), CountOnServer(q)
        PROVE  Promise(r)'
    <2> DEFINE d == IncrementLoginAttempts(db, keys[q])
    <2>1. /\ step[q] = "check" /\ db' = d /\ wait' = wait /\ blockers' = blockers
          /\ RetryOrFailOpen(q)
      BY <1>5 DEF LoseReply, CountOnServer, DeleteOnServer
    <2>2. LiveKeys(db) \subseteq LiveKeys(d)
      BY <1>t, IncrementWindows
    <2>3. \A k \in LiveKeys(db) : d[k].ttl = db[k].ttl
      BY <1>t, IncrementWindows
    <2>4. \A x \in Request : \A k \in blockers[x] : k \in LiveKeys(db)
      BY DEF PromiseInv, Promise
    <2> HIDE DEF d
    <2> QED
      BY <1>t, <2>1, <2>2, <2>3, <2>4, CallPromise
  <1>6. ASSUME NEW q \in Request, Unreachable(q) \/ Cancel(q)
        PROVE  Promise(r)'
    <2>1. /\ step[q] \in {"check", "reset"} /\ db' = db /\ wait' = wait /\ blockers' = blockers
          /\ RetryOrFailOpen(q) \/ \E out \in Outcome : Finish(q, out)
      BY <1>6 DEF Unreachable, Cancel, ghosts, FailOpen, Outcome
    <2>2. \A x \in Request : \A k \in blockers[x] : k \in LiveKeys(db)
      BY DEF PromiseInv, Promise
    <2> QED
      BY <1>t, <2>1, <2>2, CallPromise DEF LiveKeys, IsLive
  <1>7. CASE Tick
    <2> DEFINE d == [k \in Key |-> Elapse(db[k])]
    <2>1. /\ \A k \in Key : IsLive(d, k) => /\ k \in LiveKeys(db)
                                            /\ d[k].ttl = db[k].ttl - 1
                                            /\ d[k].ttl >= 1
      BY <1>t, ElapseWindows
    <2>2. /\ db' = d /\ step' = step /\ reply' = reply
          /\ wait'[r] = IF wait[r] > 0 THEN wait[r] - 1 ELSE 0
          /\ blockers'[r] = blockers[r] \intersect LiveKeys(d)
      BY <1>7 DEF Tick, CloseWindows
    <2> HIDE DEF d
    <2>3. ASSUME NEW k \in blockers'[r]
          PROVE  /\ k \in blockers[r] /\ k \in LiveKeys(d)
                 /\ d[k].ttl = db[k].ttl - 1 /\ d[k].ttl >= 1
                 /\ db[k].ttl \in Int /\ wait[r] \in Int
      BY <1>p, <1>l, <1>t, <2>1, <2>2 DEF LiveKeys
    <2>4. step[r] = "idle" => \A k \in blockers'[r] : 2 * d[k].ttl <= 2 * wait'[r] + TicksPerSecond
      BY <1>p, <2>2, <2>3 DEF Promise, Covers, TicksPerSecond
    <2>5. ASSUME step[r] = "verdict", NEW k \in blockers'[r]
          PROVE  2 * d[k].ttl <= 2 * PromisedBy(reply[r]) + TicksPerSecond
      <3>1. 2 * db[k].ttl <= 2 * PromisedBy(reply[r]) + TicksPerSecond
        BY <1>p, <2>3, <2>5 DEF Promise, Covers
      <3>2. PromisedBy(reply[r]) \in Int
        <4>1. reply[r].id \in [count : Nat, remaining : Int] /\ reply[r].ip \in [count : Nat, remaining : Int]
          BY <1>t DEF TypeOK, Reply
        <4> QED
          BY <4>1, VerdictEffect DEF PromisedBy, TicksPerSecond
      <3> QED
        BY <2>3, <3>1, <3>2 DEF TicksPerSecond
    <2>6. blockers'[r] \subseteq LiveKeys(db') /\ (step'[r] \in {"check", "reset"} => blockers'[r] = {})
      BY <1>p, <2>2, <2>3 DEF Promise, LiveKeys, IsLive
    <2>7. step'[r] = "verdict" => \A k \in blockers'[r] : Covers(PromisedBy(reply[r]), k)'
      BY <2>2, <2>5 DEF Covers, PromisedBy
    <2>8. step'[r] = "idle" => \A k \in blockers'[r] : Covers(wait[r], k)'
      BY <2>2, <2>4 DEF Covers
    <2> QED
      BY <2>6, <2>7, <2>8 DEF Promise, LiveKeys, IsLive
  <1>8. CASE LoseData
    <2>1. blockers'[r] = {}
      BY <1>8, <1>t, AbsentIsCounter DEF LoseData, CloseWindows, LiveKeys, IsLive
    <2> QED
      BY <2>1, NothingPromised
  <1>9. CASE UNCHANGED vars
    BY <1>9, <1>p, PromiseKept DEF vars, ghosts
  <1>10. ASSUME NEW q \in Request, NEW t \in Text, NEW ip \in Text,
                BeforeLogin(q, t, ip) \/ AfterLogin(q, t, ip)
         PROVE  \E s, K, out : Start(q, s, K, out)
    BY <1>10 DEF BeforeLogin, AfterLogin
  <1>11. ASSUME NEW q \in Request, Progress(q)
         PROVE  Promise(r)'
    BY <1>11, <1>2, <1>3, <1>4, <1>5, <1>6 DEF Progress, LoseReply
  <1> QED
    BY <1>1, <1>7, <1>8, <1>9, <1>10, <1>11 DEF AnyNext, Undecodable

\* RetryAfterHonest of LoginBackoff: half a second after retry_after has
\* elapsed no window that blocked the request is open.
THEOREM RetryAfterIsHonest == Spec => []RetryAfterHonest
  <1>1. Init => WindowInv /\ PromiseInv
    BY InitWindow DEF Init, PromiseInv, Promise
  <1>2. WindowInv /\ PromiseInv /\ [AnyNext]_vars => WindowInv' /\ PromiseInv'
    BY NextWindow, NextPromise
  <1>3. PromiseInv => RetryAfterHonest
    BY DEF PromiseInv, Promise, Covers, RetryAfterHonest
  <1> QED
    BY <1>1, <1>2, <1>3, NextIsAny, PTL DEF Spec

------------------------------------------------------------------------------
(* Lockouts are earned.  A try whose reply was lost may be counted again, so *)
(* a counter may run ahead of the distinct requests; but each request in     *)
(* flight has only its remaining tries to do so with, and they are set aside *)
(* when it is first counted.                                                 *)

\* The tries in which a request that was counted under k may be counted again.
Due(k) ==
    {t \in Request \X Nat :
        step[t[1]] = "check" /\ k \in counted[t[1]] /\ t[2] \in tries[t[1]] .. MaxRetries}

\* The counter and what may still be added to it by requests it has counted.
Earned(k) ==
    /\ IsFiniteSet(Due(k))
    /\ attempts[k] < CountCap => db[k].count + Cardinality(Due(k)) <= CountsPerRequest * attempts[k]

EarnedInv ==
    /\ \A k \in Key : Earned(k)
    /\ "replyLost" \notin Faults => \A r \in Request : step[r] = "check" => counted[r] = {}

\* One more request is worth that many counts more.
LEMMA CountsOfOneMore ==
    /\ CountsPerRequest \in Nat /\ CountsPerRequest >= 1
    /\ \A n \in Nat : CountsPerRequest * n \in Nat /\ CountsPerRequest * n >= n
    /\ \A n \in Nat : CountsPerRequest * (n + 1) = CountsPerRequest * n + CountsPerRequest
  <1>1. CountsPerRequest \in Nat /\ CountsPerRequest >= 1
    BY RequestAssumption DEF CountsPerRequest
  <1>2. ASSUME NEW c \in Nat, c >= 1, NEW n \in Nat
        PROVE  c * n \in Nat /\ c * n >= n /\ c * (n + 1) = c * n + c
    <2>1. c * (n + 1) = c * n + c /\ c * n \in Nat
      OBVIOUS
    <2>2. PICK b \in Nat : c = b + 1
      <3>1. c - 1 \in Nat /\ c = (c - 1) + 1
        BY <1>2
      <3> QED
        BY <3>1
    <2>3. c * n = b * n + n /\ b * n \in Nat
      BY <2>2
    <2> QED
      BY <2>1, <2>3
  <1> QED
    BY <1>1, <1>2

\* Fewer tries to come are fewer counts to come.
LEMMA FewerDue ==
    ASSUME NEW S, IsFiniteSet(S), NEW T, T \subseteq S
    PROVE  /\ IsFiniteSet(T) /\ Cardinality(T) <= Cardinality(S)
           /\ Cardinality(S) \in Nat /\ Cardinality(T) \in Nat
           /\ \A x \in S : x \notin T => Cardinality(T) + 1 <= Cardinality(S)
  <1>1. IsFiniteSet(T) /\ Cardinality(T) <= Cardinality(S)
    BY FS_Subset
  <1>2. Cardinality(S) \in Nat /\ Cardinality(T) \in Nat
    BY <1>1, FS_CardinalityType
  <1>3. ASSUME NEW x \in S, x \notin T
        PROVE  Cardinality(T) + 1 <= Cardinality(S)
    <2>1. IsFiniteSet(S \ {x}) /\ Cardinality(S \ {x}) = Cardinality(S) - 1
      BY FS_RemoveElement
    <2>2. T \subseteq S \ {x}
      BY <1>3
    <2>3. Cardinality(T) <= Cardinality(S \ {x})
      BY <2>1, <2>2, FS_Subset
    <2> QED
      BY <1>2, <2>1, <2>3
  <1> QED
    BY <1>1, <1>2, <1>3

\* A request counted for the first time, with m tries left, sets aside m counts.
LEMMA SetAside ==
    ASSUME NEW S, IsFiniteSet(S), NEW r, NEW n \in Nat, NEW m \in Nat, n <= m + 1
    PROVE  /\ IsFiniteSet(S \union ({r} \X (n .. m)))
           /\ Cardinality(S \union ({r} \X (n .. m))) <= Cardinality(S) + m + 1 - n
  <1> DEFINE T == {r} \X (n .. m)
             f == [i \in n .. m |-> <<r, i>>]
  <1>1. IsFiniteSet(n .. m) /\ Cardinality(n .. m) = m + 1 - n
    BY FS_Interval
  <1>2. f \in Surjection(n .. m, T)
    <2>1. \A i \in n .. m : f[i] = <<r, i>> /\ f[i] \in T
      OBVIOUS
    <2>2. \A t \in T : \E i \in n .. m : t = <<r, i>>
      OBVIOUS
    <2> QED
      BY <2>1, <2>2 DEF Surjection
  <1>3. IsFiniteSet(T) /\ Cardinality(T) <= Cardinality(n .. m)
    BY <1>1, <1>2, FS_Surjection
  <1>4. IsFiniteSet(S \intersect T)
    BY FS_Intersection
  <1>5. /\ Cardinality(S) \in Nat /\ Cardinality(T) \in Nat /\ Cardinality(S \intersect T) \in Nat
    BY <1>3, <1>4, FS_CardinalityType
  <1>6. /\ IsFiniteSet(S \union T)
        /\ Cardinality(S \union T) = Cardinality(S) + Cardinality(T) - Cardinality(S \intersect T)
    BY <1>3, FS_Union
  <1> HIDE DEF T
  <1> QED
    BY <1>1, <1>3, <1>5, <1>6 DEF T

\* Fewer tries to come, and no more counted than before: what was earned stays so.
LEMMA StillEarned ==
    ASSUME NEW k \in Key, Earned(k), Due(k)' \subseteq Due(k),
           db[k].count \in Nat, db'[k].count \in Nat, attempts[k] \in Nat,
           db'[k].count <= db[k].count, attempts'[k] = attempts[k]
    PROVE  Earned(k)'
  <1>1. /\ IsFiniteSet(Due(k)') /\ Cardinality(Due(k)') <= Cardinality(Due(k))
        /\ Cardinality(Due(k)) \in Nat /\ Cardinality(Due(k)') \in Nat
    BY FewerDue DEF Earned
  <1>2. CountsPerRequest * attempts[k] \in Nat
    BY CountsOfOneMore
  <1>3. (CountsPerRequest * attempts[k])' = CountsPerRequest * attempts[k]
    BY DEF CountsPerRequest
  <1> QED
    BY <1>1, <1>2, <1>3 DEF Earned

\* No try is still to come that was not before, if no request is counted under
\* the key and none goes back in its tries.
LEMMA DueShrinks ==
    ASSUME TypeInv, TypeInv', NEW k \in Key,
           \A r \in Request : step'[r] = "check" /\ k \in counted'[r]
               => step[r] = "check" /\ k \in counted[r] /\ tries'[r] >= tries[r]
    PROVE  Due(k)' \subseteq Due(k)
  <1> SUFFICES ASSUME NEW t \in Due(k)'
               PROVE  t \in Due(k)
    OBVIOUS
  <1>1. /\ t \in Request \X Nat /\ t[1] \in Request /\ t[2] \in Nat
        /\ step'[t[1]] = "check" /\ k \in counted'[t[1]] /\ t[2] \in tries'[t[1]] .. MaxRetries
    BY DEF Due
  <1>2. tries[t[1]] \in Nat /\ tries'[t[1]] \in Nat /\ MaxRetries \in Nat
    BY <1>1, RequestAssumption DEF TypeInv, TypeOK
  <1>3. t[2] \in tries[t[1]] .. MaxRetries
    BY <1>1, <1>2
  <1> QED
    BY <1>1, <1>3 DEF Due

\* A window that closes forgets its counts and who they came from.
LEMMA ClosedEarned ==
    ASSUME TypeInv, TypeInv', EarnedInv, NEW k \in Key, NEW d \in [Key -> Counter], db' = d,
           CloseWindows(d), IsLive(d, k) => d[k].count = db[k].count,
           \A r \in Request : step'[r] = "check" => step[r] = "check" /\ tries'[r] >= tries[r]
    PROVE  Earned(k)'
  <1>1. db[k].count \in Nat /\ d[k].count \in Nat /\ attempts[k] \in Nat /\ Earned(k)
    BY LimitsAssumption DEF TypeInv, TypeOK, Counter, EarnedInv
  <1>2. CASE IsLive(d, k)
    <2>1. Due(k)' \subseteq Due(k)
      BY DueShrinks DEF CloseWindows
    <2> QED
      BY <1>1, <1>2, <2>1, StillEarned DEF CloseWindows
  <1>3. CASE ~ IsLive(d, k)
    <2>1. Due(k)' = {}
      BY <1>3 DEF Due, CloseWindows, LiveKeys
    <2>2. d[k].count = 0 /\ attempts'[k] = 0
      BY <1>1, <1>3 DEF IsLive, CloseWindows
    <2>3. (CountsPerRequest * attempts[k])' \in Nat
      BY <2>2, CountsOfOneMore DEF CountsPerRequest
    <2> QED
      BY <2>1, <2>2, <2>3, FS_EmptySet DEF Earned
  <1> QED
    BY <1>2, <1>3

\* A request that is counted under k pays for it: with a try that was set aside,
\* if it was counted before, and otherwise by being one request more.
LEMMA CountedEarned ==
    ASSUME TypeInv, EarnedInv, NEW r \in Request, NEW k \in Key, NEW S,
           CountOnServer(r), k \in keys[r],
           Due(k)' \subseteq (Due(k) \ {<<r, tries[r]>>}) \union S,
           S = {} \/ ("replyLost" \in Faults /\ S = {r} \X (tries[r] + 1 .. MaxRetries))
    PROVE  Earned(k)'
  <1>1. /\ db[k].count \in Nat /\ attempts[k] \in 0 .. CountCap /\ CountCap \in Nat
        /\ tries[r] \in 0 .. MaxRetries /\ MaxRetries \in Nat
        /\ db[k] \in Counter /\ LockoutSeconds(k) \in Nat
        /\ db \in [Key -> Counter] /\ keys[r] \in SUBSET Key
    BY LimitsAssumption, RequestAssumption, LimitsOfKey DEF TypeInv, TypeOK, Counter
  <1>2. db'[k].count \in Nat /\ db'[k].count <= db[k].count + 1
    <2>1. db'[k] = CountAttempt(db[k], LockoutSeconds(k))
      BY <1>1, IncrementEffect DEF CountOnServer
    <2>2. db'[k].count = IF db[k].count < CountCap THEN db[k].count + 1 ELSE db[k].count
      BY <1>1, <2>1, CountAttemptEffect
    <2> QED
      BY <1>1, <2>2
  <1>3. attempts'[k] = IF k \notin counted[r] /\ attempts[k] < CountCap
                         THEN attempts[k] + 1 ELSE attempts[k]
    BY DEF CountOnServer
  <1>4. /\ IsFiniteSet(Due(k)) /\ Cardinality(Due(k)) \in Nat
        /\ attempts[k] < CountCap
             => db[k].count + Cardinality(Due(k)) <= CountsPerRequest * attempts[k]
    BY FewerDue DEF EarnedInv, Earned
  <1>5. CountsPerRequest' = CountsPerRequest /\ CountsPerRequest \in Nat /\ CountsPerRequest >= 1
    BY CountsOfOneMore DEF CountsPerRequest
  <1>6. CASE k \in counted[r]
    <2>1. <<r, tries[r]>> \in Due(k)
      BY <1>1, <1>6 DEF Due, CountOnServer
    <2>2. S \subseteq Due(k)
      BY <1>1, <1>6 DEF Due, CountOnServer
    <2>3. Due(k)' \subseteq Due(k) /\ <<r, tries[r]>> \notin Due(k)'
      BY <1>1, <2>2
    <2>4. /\ IsFiniteSet(Due(k)') /\ Cardinality(Due(k)') \in Nat
          /\ Cardinality(Due(k)') + 1 <= Cardinality(Due(k))
      BY <1>4, <2>1, <2>3, FewerDue
    <2>5. attempts'[k] = attempts[k] /\ CountsPerRequest * attempts[k] \in Nat
      BY <1>1, <1>3, <1>6, CountsOfOneMore
    <2> QED
      BY <1>1, <1>2, <1>4, <1>5, <2>4, <2>5 DEF Earned
  <1>7. CASE k \notin counted[r]
    <2>1. /\ IsFiniteSet(Due(k)') /\ Cardinality(Due(k)') \in Nat
          /\ Cardinality(Due(k)') + 1 <= Cardinality(Due(k)) + CountsPerRequest
      <3>1. CASE S = {}
        <4>1. Due(k)' \subseteq Due(k)
          BY <3>1
        <4> QED
          BY <1>4, <1>5, <4>1, FewerDue
      <3>2. CASE "replyLost" \in Faults /\ S = {r} \X (tries[r] + 1 .. MaxRetries)
        <4>1. /\ IsFiniteSet(Due(k) \union S)
              /\ Cardinality(Due(k) \union S) <= Cardinality(Due(k)) + MaxRetries + 1 - (tries[r] + 1)
          <5>1. tries[r] + 1 \in Nat /\ tries[r] + 1 <= MaxRetries + 1
            BY <1>1
          <5> QED
            BY <1>1, <1>4, <3>2, <5>1, SetAside
        <4>2. Due(k)' \subseteq Due(k) \union S
          OBVIOUS
        <4>3. /\ IsFiniteSet(Due(k)') /\ Cardinality(Due(k)') \in Nat
              /\ Cardinality(Due(k) \union S) \in Nat
              /\ Cardinality(Due(k)') <= Cardinality(Due(k) \union S)
          BY <4>1, <4>2, FewerDue
        <4>4. CountsPerRequest = MaxRetries + 1
          BY <3>2 DEF CountsPerRequest
        <4> QED
          BY <1>1, <1>4, <4>1, <4>3, <4>4
      <3> QED
        BY <3>1, <3>2
    <2>2. attempts'[k] < CountCap
            => attempts[k] < CountCap /\ attempts'[k] = attempts[k] + 1
      BY <1>1, <1>3, <1>7
    <2>3. /\ CountsPerRequest * attempts[k] \in Nat
          /\ CountsPerRequest * (attempts[k] + 1) = CountsPerRequest * attempts[k] + CountsPerRequest
      BY <1>1, CountsOfOneMore
    <2>4. attempts'[k] < CountCap
            => db'[k].count + Cardinality(Due(k)') <= CountsPerRequest * (attempts[k] + 1)
      BY <1>1, <1>2, <1>4, <1>5, <2>1, <2>2, <2>3
    <2> QED
      BY <1>5, <2>1, <2>2, <2>4 DEF Earned
  <1> QED
    BY <1>6, <1>7

\* Every step earns the counts it makes.
LEMMA NextEarned == WindowInv /\ EarnedInv /\ [AnyNext]_vars => EarnedInv'
  <1> SUFFICES ASSUME WindowInv, EarnedInv, [AnyNext]_vars
               PROVE  EarnedInv'
    OBVIOUS
  <1>t. /\ TypeInv /\ TypeInv' /\ Expiring(db)
        /\ db \in [Key -> Counter] /\ keys \in [Request -> SUBSET Key]
        /\ step \in [Request -> {"idle", "check", "verdict", "reset"}]
        /\ counted \in [Request -> SUBSET Key] /\ tries \in [Request -> 0 .. MaxRetries]
        /\ MaxRetries \in Nat
    BY NextType, RequestAssumption DEF WindowInv, TypeInv, TypeOK
  <1>c. \A k \in Key : /\ db[k].count \in Nat /\ db'[k].count \in Nat
                       /\ attempts[k] \in Nat /\ Earned(k)
    BY <1>t, LimitsAssumption DEF TypeInv, TypeOK, Counter, EarnedInv
  <1>d. ASSUME NEW d \in [Key -> Counter], db' = d, CloseWindows(d),
               \A k \in Key : IsLive(d, k) => d[k].count = db[k].count,
               \A q \in Request : step'[q] = "check" => step[q] = "check" /\ tries'[q] >= tries[q]
        PROVE  EarnedInv'
    <2>1. \A k \in Key : Earned(k)'
      BY <1>d, <1>t, ClosedEarned
    <2>2. "replyLost" \notin Faults => \A q \in Request : step'[q] = "check" => counted'[q] = {}
      BY <1>d DEF EarnedInv, CloseWindows
    <2> QED
      BY <2>1, <2>2 DEF EarnedInv
  <1>s. ASSUME db' = db, attempts' = attempts,
               \A q \in Request : \/ step'[q] = "check" => counted'[q] = {}
                                  \/ /\ step'[q] = "check" => step[q] = "check"
                                     /\ counted'[q] = counted[q] /\ tries'[q] >= tries[q]
        PROVE  EarnedInv'
    <2>1. ASSUME NEW k \in Key
          PROVE  Earned(k)'
      <3>1. Due(k)' \subseteq Due(k)
        BY <1>s, <1>t, DueShrinks
      <3> QED
        BY <1>s, <1>c, <3>1, StillEarned
    <2>2. "replyLost" \notin Faults => \A q \in Request : step'[q] = "check" => counted'[q] = {}
      BY <1>s DEF EarnedInv
    <2> QED
      BY <2>1, <2>2 DEF EarnedInv
  <1>1. ASSUME NEW r \in Request, CountOnServer(r),
               \/ step' = [step EXCEPT ![r] = "verdict"] /\ tries' = tries
               \/ step' = [step EXCEPT ![r] = "idle"] /\ tries' = [tries EXCEPT ![r] = 0]
               \/ /\ "replyLost" \in Faults /\ step' = step
                  /\ tries' = [tries EXCEPT ![r] = @ + 1],
               NEW K \in {{}, keys[r]}, counted' = [counted EXCEPT ![r] = K],
               step'[r] = "check" => K = keys[r]
        PROVE  EarnedInv'
    <2>r. step[r] = "check" /\ tries[r] \in 0 .. MaxRetries /\ r \in Request
      BY <1>1, <1>t DEF CountOnServer
    <2>q. \A q \in Request \ {r} : step'[q] = step[q] /\ tries'[q] = tries[q] /\ counted'[q] = counted[q]
      BY <1>1, <1>t
    <2>1. ASSUME NEW k \in Key, k \notin keys[r]
          PROVE  Earned(k)'
      <3>1. k \notin counted'[r]
        BY <1>1, <1>t, <2>1
      <3>2. Due(k)' \subseteq Due(k)
        BY <1>t, <2>q, <3>1, DueShrinks
      <3>3. db'[k] = db[k]
        BY <1>1, <1>t, <2>1, IncrementEffect DEF CountOnServer
      <3>4. attempts'[k] = attempts[k]
        BY <1>1, <2>1 DEF CountOnServer
      <3> QED
        BY <1>c, <3>2, <3>3, <3>4, StillEarned
    <2>2. ASSUME NEW k \in Key, k \in keys[r]
          PROVE  Earned(k)'
      <3> DEFINE S == IF step'[r] = "check" THEN {r} \X (tries[r] + 1 .. MaxRetries) ELSE {}
      <3>1. ASSUME NEW t \in Due(k)'
            PROVE  t \in (Due(k) \ {<<r, tries[r]>>}) \union S
        <4>1. /\ t \in Request \X Nat /\ t = <<t[1], t[2]>> /\ t[1] \in Request /\ t[2] \in Nat
              /\ step'[t[1]] = "check" /\ k \in counted'[t[1]]
              /\ t[2] \in tries'[t[1]] .. MaxRetries
          BY <3>1 DEF Due
        <4>2. CASE t[1] = r
          <5>1. step'[r] = "check" /\ tries'[r] = tries[r] + 1
            BY <1>1, <1>t, <4>1, <4>2
          <5>2. t[2] \in tries[r] + 1 .. MaxRetries
            BY <4>1, <4>2, <5>1
          <5> QED
            BY <4>1, <4>2, <5>1, <5>2
        <4>3. CASE t[1] # r
          <5>1. t \in Due(k)
            BY <2>q, <4>1, <4>3 DEF Due
          <5> QED
            BY <4>3, <5>1
        <4> QED
          BY <4>2, <4>3
      <3>2. S = {} \/ ("replyLost" \in Faults /\ S = {r} \X (tries[r] + 1 .. MaxRetries))
        BY <1>1, <1>t
      <3>3. Due(k)' \subseteq (Due(k) \ {<<r, tries[r]>>}) \union S
        BY <3>1
      <3> HIDE DEF S
      <3> QED
        BY <1>1, <1>t, <2>2, <3>2, <3>3, CountedEarned
    <2>3. "replyLost" \notin Faults => \A q \in Request : step'[q] = "check" => counted'[q] = {}
      BY <1>1, <1>t, <2>q DEF EarnedInv
    <2> QED
      BY <2>1, <2>2, <2>3 DEF EarnedInv
  <1>2. ASSUME NEW r \in Request, ExecScript(r)
        PROVE  EarnedInv'
    <2>1. /\ CountOnServer(r) /\ step' = [step EXCEPT ![r] = "verdict"] /\ tries' = tries
          /\ counted' = [counted EXCEPT ![r] = {}] /\ step'[r] = "verdict"
      BY <1>2, <1>t DEF ExecScript
    <2> QED
      BY <1>1, <2>1
  <1>3. ASSUME NEW r \in Request, ExecDel(r) \/ (LoseReply(r) /\ DeleteOnServer(r))
        PROVE  EarnedInv'
    <2> DEFINE d == ResetLoginAttempts(db, keys[r])
    <2>1. d \in [Key -> Counter] /\ \A k \in Key : IsLive(d, k) => d[k].count = db[k].count
      BY <1>t, ResetEffect, ResetWindows
    <2>2. /\ db' = d /\ CloseWindows(d) /\ step[r] = "reset"
          /\ RetryOrFailOpen(r) \/ Finish(r, "success")
      BY <1>3 DEF ExecDel, LoseReply, DeleteOnServer
    <2>3. ASSUME NEW q \in Request, step'[q] = "check"
          PROVE  step[q] = "check" /\ tries'[q] >= tries[q]
      BY <1>t, <2>2, <2>3 DEF RetryOrFailOpen, FailOpen, Finish
    <2> HIDE DEF d
    <2> QED
      BY <1>d, <2>1, <2>2, <2>3
  <1>4. ASSUME NEW r \in Request, LoseReply(r), CountOnServer(r)
        PROVE  EarnedInv'
    <2>1. /\ "replyLost" \in Faults /\ step[r] = "check" /\ RetryOrFailOpen(r)
          /\ counted' = [counted EXCEPT ![r] = keys[r]]
      BY <1>4 DEF LoseReply, CountOnServer, DeleteOnServer
    <2>2. \/ step' = [step EXCEPT ![r] = "idle"] /\ tries' = [tries EXCEPT ![r] = 0]
          \/ step' = step /\ tries' = [tries EXCEPT ![r] = @ + 1]
      BY <2>1 DEF RetryOrFailOpen, FailOpen, Finish
    <2> QED
      BY <1>1, <1>4, <2>1, <2>2
  <1>5. ASSUME NEW r \in Request, Answer(r) \/ Unreachable(r) \/ Cancel(r)
        PROVE  EarnedInv'
    <2>1. db' = db /\ attempts' = attempts /\ counted' = counted
      BY <1>5 DEF Answer, Unreachable, Cancel, ghosts
    <2>2. \/ step' = [step EXCEPT ![r] = "idle"] /\ tries' = [tries EXCEPT ![r] = 0]
          \/ step' = step /\ tries' = [tries EXCEPT ![r] = @ + 1]
      BY <1>5 DEF Answer, Unreachable, Cancel, RetryOrFailOpen, FailOpen, Finish
    <2>3. \A q \in Request : step'[q] = "check" => step[q] = "check" /\ tries'[q] >= tries[q]
      BY <1>t, <2>2
    <2> QED
      BY <1>s, <2>1, <2>3
  <1>6. ASSUME NEW r \in Request, NEW s, NEW K, NEW out, Start(r, s, K, out)
        PROVE  EarnedInv'
    <2>1. db' = db /\ attempts' = attempts /\ counted'[r] = {}
          /\ \A q \in Request \ {r} : step'[q] = step[q] /\ counted'[q] = counted[q] /\ tries'[q] = tries[q]
      BY <1>6, <1>t DEF Start
    <2>2. \A q \in Request : tries[q] \in Nat
      BY <1>t
    <2> QED
      BY <1>s, <2>1, <2>2
  <1>7. CASE Tick
    <2> DEFINE d == [k \in Key |-> Elapse(db[k])]
    <2>1. d \in [Key -> Counter] /\ \A k \in Key : IsLive(d, k) => d[k].count = db[k].count
      BY <1>t, ElapseEffect, ElapseWindows
    <2>2. db' = d /\ CloseWindows(d) /\ step' = step /\ tries' = tries
      BY <1>7 DEF Tick
    <2> HIDE DEF d
    <2> QED
      BY <1>d, <1>t, <2>1, <2>2
  <1>8. CASE LoseData
    <2> DEFINE d == [k \in Key |-> Absent]
    <2>1. d \in [Key -> Counter] /\ \A k \in Key : IsLive(d, k) => d[k].count = db[k].count
      BY AbsentIsCounter DEF IsLive
    <2>2. db' = d /\ CloseWindows(d) /\ step' = step /\ tries' = tries
      BY <1>8 DEF LoseData
    <2> HIDE DEF d
    <2> QED
      BY <1>d, <1>t, <2>1, <2>2
  <1>9. CASE UNCHANGED vars
    <2>1. db' = db /\ attempts' = attempts /\ step' = step /\ counted' = counted /\ tries' = tries
      BY <1>9 DEF vars, ghosts
    <2>2. \A q \in Request : tries[q] \in Nat
      BY <1>t
    <2> QED
      BY <1>s, <2>1, <2>2
  <1>10. ASSUME NEW r \in Request, NEW t \in Text, NEW ip \in Text,
                BeforeLogin(r, t, ip) \/ AfterLogin(r, t, ip)
         PROVE  \E s, K, out : Start(r, s, K, out)
    BY <1>10 DEF BeforeLogin, AfterLogin
  <1>11. ASSUME NEW r \in Request, Progress(r)
         PROVE  EarnedInv'
    BY <1>11, <1>2, <1>3, <1>4, <1>5 DEF Progress, LoseReply
  <1> QED
    BY <1>6, <1>7, <1>8, <1>9, <1>10, <1>11 DEF AnyNext, Undecodable

\* At the start nothing is counted.
LEMMA InitEarned == Init => EarnedInv
  <1> SUFFICES ASSUME Init
               PROVE  EarnedInv
    OBVIOUS
  <1>1. ASSUME NEW k \in Key
        PROVE  Due(k) = {} /\ db[k].count = 0 /\ attempts[k] = 0
    BY AbsentIsCounter DEF Init, Due
  <1>2. CountsPerRequest * 0 \in Nat
    BY CountsOfOneMore
  <1>3. \A k \in Key : Earned(k)
    BY <1>1, <1>2, FS_EmptySet DEF Earned
  <1> QED
    BY <1>3 DEF EarnedInv, Init

\* What is earned is no early lockout.
LEMMA EarnedLockouts == TypeInv /\ EarnedInv => NoEarlyLockout
  <1> SUFFICES ASSUME TypeInv, EarnedInv, NEW k \in LockedKeys(db)
               PROVE  CountsPerRequest * attempts[k] > MaxAttempts(k)
    BY DEF NoEarlyLockout
  <1>1. /\ k \in Key /\ db[k].count > MaxAttempts(k) /\ db[k].count \in Nat
        /\ attempts[k] \in 0 .. CountCap /\ CountCap \in Nat /\ Earned(k)
        /\ MaxAttempts(k) \in Nat /\ MaxAttempts(k) < CountCap
    BY LimitsOfKey, LimitsAssumption DEF LockedKeys, TypeInv, TypeOK, Counter, EarnedInv
  <1>2. CountsPerRequest * attempts[k] \in Nat /\ CountsPerRequest * attempts[k] >= attempts[k]
    BY <1>1, CountsOfOneMore
  <1>3. Cardinality(Due(k)) \in Nat
    BY <1>1, FS_CardinalityType DEF Earned
  <1> QED
    BY <1>1, <1>2, <1>3 DEF Earned

\* NoEarlyLockout of LoginBackoff: more distinct requests than the threshold
\* were counted before a subject is locked, or that part of it to which the
\* tries of go-redis can multiply them.
THEOREM LockoutsAreEarned == Spec => []NoEarlyLockout
  <1>1. Init => WindowInv /\ EarnedInv
    BY InitWindow, InitEarned
  <1>2. WindowInv /\ EarnedInv /\ [AnyNext]_vars => WindowInv' /\ EarnedInv'
    BY NextWindow, NextEarned
  <1>3. WindowInv /\ EarnedInv => NoEarlyLockout
    BY EarnedLockouts DEF WindowInv
  <1> QED
    BY <1>1, <1>2, <1>3, NextIsAny, PTL DEF Spec

==============================================================================
