--------------------- MODULE LoginBackoffRefinementProofs ---------------------
(***************************************************************************)
(* The login-backoff service implements the safety part of the fixed-window *)
(* limiter.  That every window closes (the limiter's fairness) is a matter  *)
(* of ENABLED and is left to model checking.                                *)
(***************************************************************************)
EXTENDS LoginBackoffRefinement, LoginBackoffProofs

\* The service starts where the limiter does: nothing spent, nothing ruled.
LEMMA InitRefines == Init => Limiter!Init
  BY AbsentIsCounter DEF Init, Limiter!Init, Spent, Ruling

\* A step that closes the windows of some keys, and no more, is a Close.
LEMMA CloseRefines ==
    ASSUME WindowInv, NEW d \in [Key -> Counter], db' = d,
           \A k \in Key : IsLive(d, k) => d[k].count = db[k].count,
           Ruling' = Ruling
    PROVE  \E K \in SUBSET Key : Limiter!Close(K)
  <1> DEFINE K == {k \in Key : ~ IsLive(d, k)}
  <1>1. \A k \in Key : d[k].count \in Nat
    BY LimitsAssumption DEF Counter
  <1>2. Spent' = [k \in Key |-> IF k \in K THEN 0 ELSE Spent[k]]
    BY <1>1 DEF Spent, IsLive
  <1>3. Limiter!Close(K)
    BY <1>2 DEF Limiter!Close
  <1> QED
    BY <1>3

\* The scripts spend as the limiter charges.
LEMMA IncrementCharges ==
    ASSUME WindowInv, NEW K \in SUBSET Key, db' = IncrementLoginAttempts(db, K)
    PROVE  Spent' = Limiter!Charged(K)
  <1>1. db \in [Key -> Counter] /\ db' \in [Key -> Counter]
    BY IncrementEffect DEF WindowInv, TypeInv, TypeOK
  <1>2. \A k \in Key : db'[k] = IF k \in K THEN CountAttempt(db[k], LockoutSeconds(k)) ELSE db[k]
    BY <1>1, IncrementEffect
  <1>3. \A k \in Key : db[k] \in Counter /\ LockoutSeconds(k) \in Nat
    BY <1>1, LimitsOfKey
  <1>4. \A k \in Key : db'[k].count = IF k \in K /\ db[k].count < CountCap
                                       THEN db[k].count + 1 ELSE db[k].count
    BY <1>2, <1>3, CountAttemptEffect
  <1> QED
    BY <1>4 DEF Spent, Limiter!Charged

\* What a handler will make of the reply it just received is the limiter's
\* ruling on what the script counted.
LEMMA VerdictRules ==
    ASSUME NEW d \in [Key -> Counter], NEW K \in SUBSET Key, OnePerDimension(K)
    PROVE  Verdict(Reading(d, K, "id"), Reading(d, K, "ip")).outcome = "allowed"
             <=> \A k \in K : d[k].count <= MaxAttempts(k)
  <1> DEFINE a == Reading(d, K, "id")
             b == Reading(d, K, "ip")
  <1>1. /\ a \in [count : Nat, remaining : Int]
        /\ \A k \in K : k[1] = "id" => a.count = d[k].count
        /\ (\A k \in K : k[1] # "id") => a.count = 0
    BY ReadingEffect
  <1>2. /\ b \in [count : Nat, remaining : Int]
        /\ \A k \in K : k[1] = "ip" => b.count = d[k].count
        /\ (\A k \in K : k[1] # "ip") => b.count = 0
    BY ReadingEffect
  <1>3. Verdict(a, b).outcome = "allowed"
          <=> a.count <= MaxIdentifierAttempts /\ b.count <= MaxIPAttempts
    BY <1>1, <1>2, VerdictEffect
  <1> HIDE DEF a, b
  <1>4. \A k \in K : \/ k[1] = "id" /\ MaxAttempts(k) = MaxIdentifierAttempts /\ a.count = d[k].count
                     \/ k[1] = "ip" /\ MaxAttempts(k) = MaxIPAttempts /\ b.count = d[k].count
    BY <1>1, <1>2 DEF MaxAttempts, Key
  <1>5. a.count <= MaxIdentifierAttempts \/ \E k \in K : k[1] = "id"
    BY <1>1, LimitsAssumption
  <1>6. b.count <= MaxIPAttempts \/ \E k \in K : k[1] = "ip"
    BY <1>2, LimitsAssumption
  <1>7. (a.count <= MaxIdentifierAttempts /\ b.count <= MaxIPAttempts)
          <=> \A k \in K : d[k].count <= MaxAttempts(k)
    BY <1>4, <1>5, <1>6
  <1> QED
    BY <1>3, <1>7 DEF a, b

\* Every step of the service is a step of the limiter or leaves it alone.
LEMMA NextRefines == WindowInv /\ [AnyNext]_vars => [Limiter!Next]_(Limiter!vars)
  <1> SUFFICES ASSUME WindowInv, [AnyNext]_vars
               PROVE  Limiter!Next \/ UNCHANGED <<Spent, Ruling>>
    BY DEF Limiter!vars
  <1>t. /\ TypeOK /\ KeysInv /\ Expiring(db) /\ db \in [Key -> Counter]
        /\ keys \in [Request -> SUBSET Key]
        /\ step \in [Request -> {"idle", "check", "verdict", "reset"}]
        /\ reply \in [Request -> Reply]
    BY DEF WindowInv, TypeInv, TypeOK
  \* A request that is not between its reply and its answer, before and after
  \* a step, has no ruling.
  <1>r. ASSUME NEW r \in Request, step[r] # "verdict",
               step' = step \/ \E s : s # "verdict" /\ step' = [step EXCEPT ![r] = s],
               \A q \in Request : q # r => reply'[q] = reply[q]
        PROVE  Ruling' = Ruling
    BY <1>r, <1>t DEF Ruling
  <1>1. ASSUME NEW r \in Request, ExecScript(r)
        PROVE  Limiter!Next
    <2> DEFINE d == IncrementLoginAttempts(db, keys[r])
               rep == [id |-> Reading(d, keys[r], "id"), ip |-> Reading(d, keys[r], "ip")]
    <2>1. /\ step[r] = "check" /\ db' = d /\ d \in [Key -> Counter]
          /\ step' = [step EXCEPT ![r] = "verdict"] /\ reply' = [reply EXCEPT ![r] = rep]
      BY <1>1, <1>t, IncrementEffect DEF ExecScript, CountOnServer
    <2>2. Spent' = Limiter!Charged(keys[r])
      BY <1>t, <2>1, IncrementCharges
    <2>3. \A k \in Key : Limiter!Charged(keys[r])[k] = d[k].count
      BY <2>1, <2>2 DEF Spent
    <2>4. Verdict(rep.id, rep.ip).outcome = "allowed"
            <=> \A k \in keys[r] : d[k].count <= MaxAttempts(k)
      BY <1>t, <2>1, VerdictRules DEF KeysInv
    <2> HIDE DEF d, rep
    <2>5. Ruling' = [Ruling EXCEPT ![r] =
                       IF Verdict(rep.id, rep.ip).outcome = "allowed" THEN "granted" ELSE "refused"]
      BY <1>t, <2>1 DEF Ruling
    <2>6. (Verdict(rep.id, rep.ip).outcome = "allowed")
            <=> \A k \in keys[r] : Limiter!Charged(keys[r])[k] <= MaxAttempts(k)
      BY <1>t, <2>3, <2>4
    <2>7. Ruling[r] = "none" /\ keys[r] # {}
      BY <1>t, <2>1 DEF Ruling, KeysInv
    <2>8. Limiter!Rule(r, keys[r])
      BY <2>2, <2>5, <2>6, <2>7 DEF Limiter!Rule
    <2> QED
      BY <1>t, <2>8 DEF Limiter!Next
  <1>2. ASSUME NEW r \in Request, LoseReply(r), CountOnServer(r)
        PROVE  Limiter!Next
    <2>1. /\ step[r] = "check" /\ db' = IncrementLoginAttempts(db, keys[r])
          /\ step' = step \/ step' = [step EXCEPT ![r] = "idle"]
          /\ \A q \in Request : q # r => reply'[q] = reply[q]
      BY <1>2, <1>t DEF LoseReply, CountOnServer, RetryOrFailOpen, FailOpen, Finish
    <2>2. Ruling' = Ruling
      BY <1>r, <2>1
    <2>3. Spent' = Limiter!Charged(keys[r]) /\ keys[r] # {}
      BY <1>t, <2>1, IncrementCharges DEF KeysInv
    <2> QED
      BY <1>t, <2>2, <2>3 DEF Limiter!Next, Limiter!Waste
  <1>3. ASSUME NEW r \in Request, ExecDel(r) \/ (LoseReply(r) /\ DeleteOnServer(r))
        PROVE  Limiter!Next
    <2>1. /\ step[r] = "reset" /\ db' = ResetLoginAttempts(db, keys[r])
          /\ step' = step \/ step' = [step EXCEPT ![r] = "idle"]
          /\ \A q \in Request : q # r => reply'[q] = reply[q]
      BY <1>3, <1>t DEF ExecDel, LoseReply, DeleteOnServer, RetryOrFailOpen, FailOpen, Finish
    <2>2. Ruling' = Ruling
      BY <1>r, <2>1
    <2>3. /\ ResetLoginAttempts(db, keys[r]) \in [Key -> Counter]
          /\ \A k \in Key : IsLive(ResetLoginAttempts(db, keys[r]), k)
                => ResetLoginAttempts(db, keys[r])[k].count = db[k].count
      BY <1>t, ResetEffect, ResetWindows
    <2> QED
      BY <2>1, <2>2, <2>3, CloseRefines DEF Limiter!Next
  <1>4. ASSUME NEW r \in Request, Answer(r)
        PROVE  Limiter!Next
    <2>1. step[r] = "verdict" /\ db' = db /\ step' = [step EXCEPT ![r] = "idle"]
          /\ reply' = [reply EXCEPT ![r] = NoReply]
      BY <1>4 DEF Answer, Finish
    <2>2. Spent' = Spent /\ Ruling' = [Ruling EXCEPT ![r] = "none"] /\ Ruling[r] # "none"
      BY <1>t, <2>1 DEF Spent, Ruling
    <2> QED
      BY <2>2 DEF Limiter!Next, Limiter!Complete
  <1>5. ASSUME NEW r \in Request, Unreachable(r) \/ Cancel(r)
        PROVE  UNCHANGED <<Spent, Ruling>>
    <2>1. /\ step[r] \in {"check", "reset"} /\ db' = db
          /\ step' = step \/ step' = [step EXCEPT ![r] = "idle"]
          /\ \A q \in Request : q # r => reply'[q] = reply[q]
      BY <1>5, <1>t DEF Unreachable, Cancel, RetryOrFailOpen, FailOpen, Finish
    <2>2. Ruling' = Ruling
      BY <1>r, <2>1
    <2> QED
      BY <2>1, <2>2 DEF Spent
  <1>6. ASSUME NEW r \in Request, NEW s \in {"idle", "check", "reset"}, NEW K, NEW out,
               Start(r, s, K, out)
        PROVE  UNCHANGED <<Spent, Ruling>>
    <2>1. Ruling' = Ruling
      BY <1>6, <1>r DEF Start
    <2> QED
      BY <1>6, <2>1 DEF Start, Spent
  <1>7. CASE Tick
    <2>1. /\ [k \in Key |-> Elapse(db[k])] \in [Key -> Counter]
          /\ \A k \in Key : IsLive([x \in Key |-> Elapse(db[x])], k)
                => [x \in Key |-> Elapse(db[x])][k].count = db[k].count
      BY <1>t, ElapseEffect, ElapseWindows
    <2>2. db' = [k \in Key |-> Elapse(db[k])] /\ Ruling' = Ruling
      BY <1>7 DEF Tick, Ruling
    <2> QED
      BY <2>1, <2>2, CloseRefines DEF Limiter!Next
  <1>8. CASE LoseData
    <2>1. /\ [k \in Key |-> Absent] \in [Key -> Counter]
          /\ \A k \in Key : ~ IsLive([x \in Key |-> Absent], k)
      BY AbsentIsCounter DEF IsLive
    <2>2. db' = [k \in Key |-> Absent] /\ Ruling' = Ruling
      BY <1>8 DEF LoseData, Ruling
    <2> QED
      BY <2>1, <2>2, CloseRefines DEF Limiter!Next
  <1>9. CASE UNCHANGED vars
    BY <1>9 DEF vars, Spent, Ruling
  <1>10. ASSUME NEW r \in Request, NEW t \in Text, NEW ip \in Text,
                BeforeLogin(r, t, ip) \/ AfterLogin(r, t, ip)
         PROVE  \E s \in {"idle", "check", "reset"} : \E K, out : Start(r, s, K, out)
    BY <1>10 DEF BeforeLogin, AfterLogin
  <1>11. ASSUME NEW r \in Request, Undecodable(r)
         PROVE  \E out : Start(r, "idle", {}, out)
    BY <1>11 DEF Undecodable
  <1> QED
    BY <1>1, <1>2, <1>3, <1>4, <1>5, <1>6, <1>7, <1>8, <1>9, <1>10, <1>11
    DEF AnyNext, Progress, LoseReply

\* The service implements the limiter, its fairness apart: a request is let
\* through on a reply exactly if each key it was counted under is within its
\* budget, and windows close only whole.
THEOREM ServiceIsLimiter == Spec => Limiter!Init /\ [][Limiter!Next]_(Limiter!vars)
  BY InitRefines, NextRefines, InitWindow, NextWindow, NextIsAny, PTL DEF Spec

==============================================================================
