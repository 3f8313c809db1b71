------------------------------ MODULE LoginFlow ------------------------------
(***************************************************************************)
(* A login from the proxy to Kratos and back                                *)
(* (internal/webhooks/kratos-login-backoff/proxy.go) on top of the          *)
(* login-backoff service: the proxy takes a credential submission, has it   *)
(* counted, forwards it or answers itself; Kratos checks the password and,  *)
(* on success, calls the after-login hook without waiting for its answer,   *)
(* so the hook is delivered at any later time, more than once, or never.    *)
(*                                                                          *)
(* Other methods than POST are passed on and a body over the limit is        *)
(* answered with 413: neither reaches the counters or a password check, nor *)
(* does it change any state of this model.                                  *)
(***************************************************************************)
EXTENDS LoginBackoff, Sequences

CONSTANTS
    Post,       \* the credential submissions clients may make
    ValidIP,    \* the texts net.ParseIP accepts
    MaxHooks    \* bound: after-login hooks on their way at once

\* A submission: how it authenticates; whether the proxy can read its body to
\* the end; what its Content-Type mentions; the identifier its body holds when
\* read as JSON and as a form (Empty if none); the address headers, split at
\* commas and stripped; and the peer, which net/http always names.
ASSUME PostAssumption ==
    /\ MaxHooks \in Nat
    /\ ValidIP \subseteq Text
    /\ Empty \notin ValidIP
    /\ Post \subseteq [method : {"password", "oidc"}, body : {"whole", "cut"},
                       contentType : SUBSET {"json", "form"}, json : Text, form : Text,
                       trueClientIp : Seq(Text), forwardedFor : Seq(Text),
                       realIp : Seq(Text), remoteAddr : Text \ {Empty}]

VARIABLES
    flow,       \* what the proxy is doing in each slot
    post,       \* the submission it is doing it for
    hooks       \* the after-login hooks on their way

flowVars == <<flow, post, hooks>>
allVars  == <<vars, flowVars>>

NoPost == [method |-> "none"]

------------------------------------------------------------------------------
(* What the proxy reads from a request. *)

\* JSON is tried first if the Content-Type names it, and last in any case.
extractIdentifier(p) ==
    IF "json" \in p.contentType /\ p.json # Empty      THEN p.json
    ELSE IF "form" \in p.contentType /\ p.form # Empty THEN p.form
    ELSE p.json

firstValidIP(candidates) ==
    LET valid == {n \in DOMAIN candidates : candidates[n] \in ValidIP}
    IN  IF valid = {} THEN Empty
        ELSE candidates[CHOOSE n \in valid : \A m \in valid : n <= m]

\* The headers are tried in this order, and then the peer.
extractClientIP(p) ==
    LET ip == firstValidIP(p.trueClientIp \o p.forwardedFor \o p.realIp)
    IN  IF ip # Empty THEN ip ELSE p.remoteAddr

\* A mutant of forwardedTrueClientIp: the header is forwarded as it came.
forwardedUntouched(p) == p.trueClientIp

\* The True-Client-Ip header of the forwarded request: the proxy overwrites it
\* with the address it counted.
forwardedTrueClientIp(p) ==
    IF extractClientIP(p) # Empty THEN <<extractClientIP(p)>> ELSE p.trueClientIp

\* Kratos reads the body as its Content-Type says and looks the identifier up
\* in its canonical form.
KratosIdentifier(p) ==
    normaliseIdentifier(IF "json" \in p.contentType THEN p.json
                        ELSE IF "form" \in p.contentType THEN p.form
                        ELSE Empty)

\* The hook's template takes the address from the header True-Client-Ip alone.
\* A submission that was cut went on as it came and was counted nowhere.
Hook(p) ==
    LET whole == p.body = "whole"
        ip    == IF whole THEN forwardedTrueClientIp(p) ELSE p.trueClientIp
    IN  [email |-> KratosIdentifier(p), ip |-> IF ip = <<>> THEN Empty ELSE Head(ip),
         \* Not in the program: the keys the login was counted under.
         countedUnder |-> IF whole THEN KeysOf(extractIdentifier(p), extractClientIP(p)) ELSE {}]

------------------------------------------------------------------------------

FlowInit ==
    /\ Init
    /\ flow = [r \in Request |-> "none"]
    /\ post = [r \in Request |-> NoPost]
    /\ hooks = {}

\* The proxy takes a submission and asks the service.
Submit(r, p) ==
    /\ flow[r] = "none"
    /\ p.body = "whole"
    /\ BeforeLogin(r, extractIdentifier(p), extractClientIP(p))
    /\ flow' = [flow EXCEPT ![r] = "checking"]
    /\ post' = [post EXCEPT ![r] = p]
    /\ UNCHANGED hooks

\* A body that cannot be read to the end is passed on, as far as it came,
\* without a backoff check.
PassUnchecked(r, p) ==
    /\ flow[r] = "none" /\ step[r] = "idle"
    /\ p.body = "cut"
    /\ flow' = [flow EXCEPT ![r] = "forwarded"]
    /\ post' = [post EXCEPT ![r] = p]
    /\ UNCHANGED <<vars, hooks>>

\* A mutant of Done: the slot keeps its submission.
DoneButKept(r) == flow' = [flow EXCEPT ![r] = "none"] /\ UNCHANGED post

\* The proxy is done with the slot.
Done(r) ==
    /\ flow' = [flow EXCEPT ![r] = "none"]
    /\ post' = [post EXCEPT ![r] = NoPost]

Forward(r) ==
    /\ flow[r] = "checking" /\ step[r] = "idle" /\ answer[r] = "allowed"
    /\ flow' = [flow EXCEPT ![r] = "forwarded"]
    /\ UNCHANGED <<vars, post, hooks>>

\* A mutant of Block: a block by address is not answered.
BlockIdentifierOnly(r) ==
    /\ flow[r] = "checking" /\ step[r] = "idle" /\ answer[r] = "identifier"
    /\ Done(r)
    /\ UNCHANGED <<vars, hooks>>

\* The redirect of a browser or the 429 of an API client.
Block(r) ==
    /\ flow[r] = "checking" /\ step[r] = "idle" /\ answer[r] # "allowed"
    /\ Done(r)
    /\ UNCHANGED <<vars, hooks>>

\* Kratos accepts the password and calls the hook configured for that method.
Accept(r) ==
    /\ flow[r] = "forwarded"
    /\ Cardinality(hooks) < MaxHooks
    /\ hooks' = IF post[r].method = "password" THEN hooks \union {Hook(post[r])} ELSE hooks
    /\ post[r].method = "password" => KratosIdentifier(post[r]) # Empty
    /\ Done(r)
    /\ UNCHANGED vars

Reject(r) ==
    /\ flow[r] = "forwarded"
    /\ Done(r)
    /\ UNCHANGED <<vars, hooks>>

\* A hook arrives, and may arrive again.
DeliverHook(r, h) ==
    /\ flow[r] = "none"
    /\ AfterLogin(r, h.email, h.ip)
    /\ hooks' \in {hooks, hooks \ {h}}
    /\ UNCHANGED <<flow, post>>

LoseHook(h) ==
    /\ hooks' = hooks \ {h}
    /\ UNCHANGED <<vars, flow, post>>

ServiceStep ==
    /\ (\E r \in Request : Progress(r)) \/ Tick \/ LoseData
    /\ UNCHANGED flowVars

ProxyStep(r) == Forward(r) \/ Block(r) \/ Accept(r) \/ Reject(r)

FlowNext ==
    \/ \E r \in Request : ProxyStep(r) \/ (\E p \in Post : Submit(r, p) \/ PassUnchecked(r, p))
                                       \/ (\E h \in hooks : DeliverHook(r, h))
    \/ \E h \in hooks : LoseHook(h)
    \/ ServiceStep

\* The service's own fairness; the proxy goes on once it has a verdict, and
\* Kratos answers what it was sent.
FlowFairness ==
    /\ WF_allVars(Tick /\ UNCHANGED flowVars)
    /\ \A r \in Request : /\ WF_allVars(Progress(r) /\ UNCHANGED flowVars)
                          /\ WF_allVars(ProxyStep(r))

FlowSpec == FlowInit /\ [][FlowNext]_allVars /\ FlowFairness

------------------------------------------------------------------------------
(* Properties *)

\* Type invariant: the proxy's state, and that a slot is either proxying a
\* submission or free for a hook.
FlowTypeOK ==
    /\ TypeOK
    /\ flow \in [Request -> {"none", "checking", "forwarded"}]
    /\ \A r \in Request : post[r] \in IF flow[r] = "none" THEN {NoPost} ELSE Post
    /\ \A h \in hooks : h.email \in Text /\ h.ip \in Text /\ h.countedUnder \subseteq Key

\* A successful login is forgiven where it was counted: the hook it causes
\* resets exactly the counters its submission was counted under, whichever
\* header the address came from and however the identifier was spelled.
ForgivenWhereCounted ==
    \A h \in hooks : h.countedUnder # {} => KeysOf(h.email, h.ip) = h.countedUnder

\* Every submission is answered, blocked or by Kratos.
EverySubmissionAnswered == \A r \in Request : (flow[r] # "none") ~> (flow[r] = "none")

\* SC-001 and SC-002, to the letter: a lockout stands until its window expires.
LockoutStands ==
    [][\A k \in LockedKeys(db) : k \in LockedKeys(db') \/ db[k].ttl = 1]_allVars

\* What the specification says of logins through external providers: backoff
\* never blocks them.
OidcNotBlocked ==
    \A r \in Request :
        (flow[r] = "checking" /\ step[r] = "idle" /\ post[r].method = "oidc")
            => answer[r] = "allowed"

==============================================================================
