---------------------------- MODULE LoginFlowProofs ----------------------------
(***************************************************************************)
(* The login flow, for any submissions, any number of slots and every fault *)
(* of the service: its shape, that a successful login is forgiven where it  *)
(* was counted, and that everything proved of the service holds of the      *)
(* service inside the flow.                                                 *)
(***************************************************************************)
EXTENDS LoginFlow, LoginBackoffRefinementProofs, WellFoundedInduction

------------------------------------------------------------------------------
(* What the proxy reads from a submission. *)

\* A set of natural numbers that is not empty has a smallest element.
LEMMA Smallest ==
    ASSUME NEW S \in SUBSET Nat, S # {}
    PROVE  \E n \in S : \A m \in S : n <= m
<1>1. PICK n \in S : \A m \in S : <<m, n>> \notin OpToRel(<, Nat)
  BY NatLessThanWellFounded, WFMin
<1>2. \A m \in S : ~ (m < n)
  BY <1>1 DEF OpToRel
<1> QED BY <1>2

\* The first valid address is one of the candidates, or there is none.
LEMMA FirstValid ==
    ASSUME NEW c \in Seq(Text)
    PROVE  firstValidIP(c) \in Text
<1> DEFINE valid == {n \in DOMAIN c : c[n] \in ValidIP}
<1>1. CASE valid = {}
  BY <1>1, TextAssumption DEF firstValidIP
<1>2. CASE valid # {}
  <2>1. valid \in SUBSET Nat
    OBVIOUS
  <2>2. PICK n \in valid : \A m \in valid : n <= m
    BY <1>2, <2>1, Smallest
  <2> DEFINE first == CHOOSE k \in valid : \A m \in valid : k <= m
  <2>3. first \in valid
    BY <2>2
  <2>4. first \in DOMAIN c
    BY <2>3
  <2>5. firstValidIP(c) = c[first]
    BY <1>2 DEF firstValidIP
  <2> HIDE DEF first
  <2> QED BY <2>4, <2>5
<1> QED BY <1>1, <1>2

\* The proxy always has an address, of the client or of the peer, and it is the
\* one it forwards.
LEMMA ClientAddress ==
    ASSUME NEW p \in Post
    PROVE  /\ extractClientIP(p) \in Text \ {Empty}
           /\ forwardedTrueClientIp(p) = <<extractClientIP(p)>>
<1>1. /\ p.trueClientIp \in Seq(Text) /\ p.forwardedFor \in Seq(Text) /\ p.realIp \in Seq(Text)
      /\ p.remoteAddr \in Text \ {Empty}
  BY PostAssumption
<1>2. p.trueClientIp \o p.forwardedFor \o p.realIp \in Seq(Text)
  BY <1>1
<1>3. firstValidIP(p.trueClientIp \o p.forwardedFor \o p.realIp) \in Text
  BY <1>2, FirstValid
<1>4. extractClientIP(p) \in Text \ {Empty}
  BY <1>1, <1>3 DEF extractClientIP
<1> QED BY <1>4 DEF forwardedTrueClientIp

\* An identifier Kratos can look up is the one the proxy has read, spelled as
\* the client spelled it.
LEMMA SameIdentifier ==
    ASSUME NEW p \in Post
    PROVE  /\ extractIdentifier(p) \in Text
           /\ KratosIdentifier(p) \in Text
           /\ KratosIdentifier(p) # Empty
                => KratosIdentifier(p) = normaliseIdentifier(extractIdentifier(p))
<1>1. p.json \in Text /\ p.form \in Text
  BY PostAssumption
<1>2. \A t \in Text : normaliseIdentifier(t) \in Text
  BY TextAssumption DEF normaliseIdentifier
<1>3. extractIdentifier(p) \in Text
  BY <1>1 DEF extractIdentifier
<1> DEFINE raw == IF "json" \in p.contentType THEN p.json
                  ELSE IF "form" \in p.contentType THEN p.form ELSE Empty
<1>4. raw \in Text /\ KratosIdentifier(p) = normaliseIdentifier(raw)
  BY <1>1, TextAssumption DEF KratosIdentifier
<1>5. raw # Empty => extractIdentifier(p) = raw
  BY DEF extractIdentifier
<1> HIDE DEF raw
<1> QED BY <1>2, <1>3, <1>4, <1>5, NormalFormAssumption

\* The keys of a request depend on the canonical form of its identifier only.
LEMMA SameKeys ==
    ASSUME NEW t \in Text, NEW ip \in Text
    PROVE  KeysOf(normaliseIdentifier(t), ip) = KeysOf(t, ip)
BY NormalFormAssumption DEF KeysOf

\* What is true of a hook on its way.
HookOK(h) ==
    /\ h.email \in Text /\ h.ip \in Text /\ h.countedUnder \subseteq Key
    /\ h.countedUnder # {} => KeysOf(h.email, h.ip) = h.countedUnder

\* The hook of a submission Kratos can accept.
LEMMA HookOfSubmission ==
    ASSUME NEW p \in Post, KratosIdentifier(p) # Empty
    PROVE  HookOK(Hook(p))
<1> DEFINE id == extractIdentifier(p)
           address == extractClientIP(p)
<1>1. /\ id \in Text /\ KratosIdentifier(p) \in Text
      /\ KratosIdentifier(p) = normaliseIdentifier(id)
  BY SameIdentifier
<1>2. address \in Text /\ forwardedTrueClientIp(p) = <<address>>
  BY ClientAddress
<1>3. KeysOf(id, address) \subseteq Key
  BY <1>1, <1>2, KeysOfRequest
<1>4. KeysOf(KratosIdentifier(p), address) = KeysOf(id, address)
  BY <1>1, <1>2, SameKeys
<1>5. CASE p.body = "whole"
  <2>1. Hook(p) = [email |-> KratosIdentifier(p), ip |-> address,
                   countedUnder |-> KeysOf(id, address)]
    BY <1>2, <1>5 DEF Hook
  <2> HIDE DEF id, address
  <2> QED BY <1>1, <1>2, <1>3, <1>4, <2>1 DEF HookOK
<1>6. CASE p.body # "whole"
  <2>1. p.trueClientIp \in Seq(Text)
    BY PostAssumption
  <2>2. (IF p.trueClientIp = <<>> THEN Empty ELSE Head(p.trueClientIp)) \in Text
    BY <2>1, TextAssumption
  <2> QED BY <1>1, <1>6, <2>2 DEF Hook, HookOK
<1> QED BY <1>5, <1>6

------------------------------------------------------------------------------
(* The inductive invariant. *)

FlowInv ==
    /\ TypeInv
    /\ flow \in [Request -> {"none", "checking", "forwarded"}]
    /\ post \in [Request -> Post \union {NoPost}]
    /\ \A r \in Request : post[r] \in IF flow[r] = "none" THEN {NoPost} ELSE Post
    /\ \A h \in hooks : HookOK(h)

\* A slot that takes up a submission, or is done with it, keeps the shape.
LEMMA SlotType ==
    ASSUME FlowInv, NEW r \in Request,
           \/ \E p \in Post : /\ flow' = [flow EXCEPT ![r] = "checking"]
                              /\ post' = [post EXCEPT ![r] = p]
           \/ \E p \in Post : /\ flow' = [flow EXCEPT ![r] = "forwarded"]
                              /\ post' = [post EXCEPT ![r] = p]
           \/ Done(r)
    PROVE  /\ flow' \in [Request -> {"none", "checking", "forwarded"}]
           /\ post' \in [Request -> Post \union {NoPost}]
           /\ \A q \in Request : post'[q] \in IF flow'[q] = "none" THEN {NoPost} ELSE Post
BY DEF FlowInv, Done

\* Every step of the proxy, of Kratos, of a hook and of the service.
LEMMA NextFlow == FlowInv /\ [FlowNext]_allVars => FlowInv'
<1> SUFFICES ASSUME FlowInv, [FlowNext]_allVars PROVE FlowInv'
  OBVIOUS
<1>t. UNCHANGED vars => TypeInv'
  BY NextType DEF FlowInv
<1>1. ASSUME NEW r \in Request, NEW p \in Post, Submit(r, p) PROVE FlowInv'
  <2>1. TypeInv'
    BY <1>1, HandlerType, SameIdentifier, ClientAddress DEF Submit, FlowInv
  <2>2. /\ flow' = [flow EXCEPT ![r] = "checking"] /\ post' = [post EXCEPT ![r] = p]
        /\ hooks' = hooks
    BY <1>1 DEF Submit
  <2>3. /\ flow' \in [Request -> {"none", "checking", "forwarded"}]
        /\ post' \in [Request -> Post \union {NoPost}]
        /\ \A q \in Request : post'[q] \in IF flow'[q] = "none" THEN {NoPost} ELSE Post
    BY <2>2, SlotType
  <2> QED BY <2>1, <2>2, <2>3 DEF FlowInv
<1>2. ASSUME NEW r \in Request, NEW p \in Post, PassUnchecked(r, p) PROVE FlowInv'
  BY <1>2, <1>t, SlotType DEF PassUnchecked, FlowInv
<1>3. ASSUME NEW r \in Request, NEW h \in hooks, DeliverHook(r, h) PROVE FlowInv'
  <2>1. TypeInv'
    BY <1>3, HandlerType DEF DeliverHook, FlowInv, HookOK
  <2> QED BY <1>3, <2>1 DEF DeliverHook, FlowInv
<1>4. ASSUME NEW r \in Request, Forward(r) PROVE FlowInv'
  BY <1>4, <1>t DEF Forward, FlowInv
<1>5. ASSUME NEW r \in Request, Block(r) \/ Reject(r) PROVE FlowInv'
  BY <1>5, <1>t, SlotType DEF Block, Reject, FlowInv
<1>6. ASSUME NEW r \in Request, Accept(r) PROVE FlowInv'
  <2>1. post[r] \in Post
    BY <1>6 DEF Accept, FlowInv
  <2>2. ASSUME post[r].method = "password" PROVE \A h \in hooks' : HookOK(h)
    <3>1. hooks' = hooks \union {Hook(post[r])} /\ KratosIdentifier(post[r]) # Empty
      BY <1>6, <2>2 DEF Accept
    <3>2. HookOK(Hook(post[r]))
      BY <2>1, <3>1, HookOfSubmission
    <3> QED BY <3>1, <3>2 DEF FlowInv
  <2>3. ASSUME post[r].method # "password" PROVE \A h \in hooks' : HookOK(h)
    BY <1>6, <2>3 DEF Accept, FlowInv
  <2> QED BY <1>6, <1>t, <2>2, <2>3, SlotType DEF Accept, FlowInv
<1>7. ASSUME NEW h \in hooks, LoseHook(h) PROVE FlowInv'
  BY <1>7, <1>t DEF LoseHook, FlowInv
<1>8. CASE ServiceStep
  <2>1. [AnyNext]_vars
    BY <1>8 DEF ServiceStep, AnyNext
  <2> QED BY <1>8, <2>1, NextType DEF ServiceStep, FlowInv, flowVars
<1>9. CASE UNCHANGED allVars
  BY <1>9, <1>t DEF allVars, flowVars, FlowInv
<1> QED BY <1>1, <1>2, <1>3, <1>4, <1>5, <1>6, <1>7, <1>8, <1>9 DEF FlowNext, ProxyStep

\* The flow starts with nothing submitted.
LEMMA FlowInvariant == FlowSpec => []FlowInv
<1>1. FlowInit => FlowInv
  BY InitType DEF FlowInit, FlowInv
<1> QED BY <1>1, NextFlow, PTL DEF FlowSpec

\* FlowTypeOK of LoginFlow: a slot proxies a submission or is free for a hook.
THEOREM FlowTypeCorrect == FlowSpec => []FlowTypeOK
<1>1. FlowInv => FlowTypeOK
  BY DEF FlowInv, FlowTypeOK, TypeInv, HookOK
<1> QED BY <1>1, FlowInvariant, PTL

\* ForgivenWhereCounted of LoginFlow: the hook of a login that was counted names
\* the very keys it was counted under, whatever headers and spellings the
\* submission came with, since the proxy forwards the address it counted and
\* both sides use one canonical form.
THEOREM LoginsAreForgiven == FlowSpec => []ForgivenWhereCounted
<1>1. FlowInv => ForgivenWhereCounted
  BY DEF FlowInv, HookOK, ForgivenWhereCounted
<1> QED BY <1>1, FlowInvariant, PTL

------------------------------------------------------------------------------
(* The service inside the flow.  The proxy and the hooks call it with texts *)
(* they find in submissions, so the flow does not implement Spec, whose     *)
(* requests come from Identifier and Address; but each of its steps is one  *)
(* of AnyNext, of which the invariants of the service were proved.          *)

\* Every step of the flow is a step of the service, about whatever texts, or
\* leaves it alone.
LEMMA FlowStep == FlowInv /\ [FlowNext]_allVars => [AnyNext]_vars
<1> SUFFICES ASSUME FlowInv, [FlowNext]_allVars PROVE [AnyNext]_vars
  OBVIOUS
<1>1. ASSUME NEW r \in Request, NEW p \in Post, Submit(r, p) PROVE [AnyNext]_vars
  <2>1. extractIdentifier(p) \in Text /\ extractClientIP(p) \in Text
    BY SameIdentifier, ClientAddress
  <2> QED BY <1>1, <2>1 DEF Submit, AnyNext
<1>2. ASSUME NEW r \in Request, NEW h \in hooks, DeliverHook(r, h) PROVE [AnyNext]_vars
  BY <1>2 DEF DeliverHook, AnyNext, FlowInv, HookOK
<1>3. ASSUME NEW r \in Request, ProxyStep(r) \/ \E p \in Post : PassUnchecked(r, p)
      PROVE  [AnyNext]_vars
  BY <1>3 DEF ProxyStep, Forward, Block, Accept, Reject, PassUnchecked
<1>4. ASSUME NEW h \in hooks, LoseHook(h) PROVE [AnyNext]_vars
  BY <1>4 DEF LoseHook
<1>5. CASE ServiceStep
  BY <1>5 DEF ServiceStep, AnyNext
<1>6. CASE UNCHANGED allVars
  BY <1>6 DEF allVars
<1> QED BY <1>1, <1>2, <1>3, <1>4, <1>5, <1>6 DEF FlowNext

\* The login flow runs the login-backoff service.
THEOREM FlowRunsService == FlowSpec => Init /\ [][AnyNext]_vars
<1>1. FlowInit => Init
  BY DEF FlowInit
<1> QED BY <1>1, FlowStep, FlowInvariant, PTL DEF FlowSpec

\* What a service that is asked about any texts keeps, the flow keeps: within a
\* window no more than the threshold is granted (GrantsBounded of LoginBackoff),
\* no counter outlives its lockout (NoImmortalCounter), a subject has one counter
\* however submissions and hooks spell it (OneCounterPerSubject), no lockout
\* comes early (NoEarlyLockout), and retry_after is honest (RetryAfterHonest).
THEOREM FlowIsProtected ==
    FlowSpec => [](/\ GrantsBounded /\ NoImmortalCounter /\ OneCounterPerSubject
                   /\ NoEarlyLockout /\ RetryAfterHonest)
<1> DEFINE ServiceInv == WindowInv /\ SubjectInv /\ GrantsInv /\ PromiseInv /\ EarnedInv
<1>1. Init => ServiceInv
  <2> SUFFICES ASSUME Init PROVE ServiceInv
    OBVIOUS
  <2>1. WindowInv /\ EarnedInv
    BY InitWindow, InitEarned
  <2>2. SubjectInv
    BY AbsentIsCounter DEF Init, SubjectInv, LiveKeys, IsLive
  <2>3. GrantsInv
    BY AbsentIsCounter, LimitsOfKey DEF Init, GrantsInv
  <2>4. PromiseInv
    BY DEF Init, PromiseInv, Promise
  <2> QED BY <2>1, <2>2, <2>3, <2>4
<1>2. ServiceInv /\ [AnyNext]_vars => ServiceInv'
  BY NextWindow, NextSubject, NextGrants, NextPromise, NextEarned DEF WindowInv
<1>3. ServiceInv => /\ GrantsBounded /\ NoImmortalCounter /\ OneCounterPerSubject
                    /\ NoEarlyLockout /\ RetryAfterHonest
  <2> SUFFICES ASSUME ServiceInv
               PROVE  /\ GrantsBounded /\ NoImmortalCounter /\ OneCounterPerSubject
                      /\ NoEarlyLockout /\ RetryAfterHonest
    OBVIOUS
  <2>1. GrantsBounded
    BY DEF GrantsInv, GrantsBounded
  <2>2. NoImmortalCounter
    BY DEF WindowInv, Expiring, NoImmortalCounter
  <2>3. OneCounterPerSubject
    BY DEF SubjectInv, Canonical, OneCounterPerSubject
  <2>4. NoEarlyLockout
    BY EarnedLockouts DEF WindowInv
  <2>5. RetryAfterHonest
    BY DEF PromiseInv, Promise, Covers, RetryAfterHonest
  <2> QED BY <2>1, <2>2, <2>3, <2>4, <2>5
<1> HIDE DEF ServiceInv
<1> QED BY <1>1, <1>2, <1>3, FlowRunsService, PTL

\* FixedWindow of LoginBackoff in the flow: no submission and no hook lengthens
\* an open window.
THEOREM FlowWindowsAreFixed == FlowSpec => FixedWindow
<1>1. WindowInv /\ [AnyNext]_vars
        => [\A k \in LiveKeys(db) : IsLive(db', k) => db'[k].ttl <= db[k].ttl]_vars
  BY WindowStep DEF WindowInv, Ages
<1> QED BY <1>1, InitWindow, NextWindow, FlowRunsService, PTL DEF FixedWindow

\* EveryTryCounts of LoginBackoff in the flow: a submission waiting for Redis, and
\* a hook, get closer to their verdict with each of their steps and are set back
\* by none of the proxy's, of Kratos's or of other requests.
THEOREM FlowRequestsGetOn == FlowSpec => EveryTryCounts
<1>1. TypeInv /\ [AnyNext]_vars =>
        [\A r \in Request : step[r] # "idle" =>
            /\ StepsLeft(r)' <= StepsLeft(r)
            /\ Progress(r) => StepsLeft(r)' < StepsLeft(r)]_vars
  BY StepsLeftStep
<1> QED BY <1>1, InitType, NextType, FlowRunsService, PTL DEF EveryTryCounts

\* The service implements the fixed-window limiter inside the flow, too.
THEOREM FlowIsLimited == FlowSpec => Limiter!Init /\ [][Limiter!Next]_(Limiter!vars)
BY InitRefines, NextRefines, InitWindow, NextWindow, FlowRunsService, PTL
================================================================================
