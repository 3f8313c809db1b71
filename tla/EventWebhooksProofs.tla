-------------------------- MODULE EventWebhooksProofs --------------------------
(***************************************************************************)
(* Theorems about the event webhooks, for any number of workers and         *)
(* identities: the type invariant, and that a mark in Redis is the trace of *)
(* a welcome.                                                               *)
(***************************************************************************)
EXTENDS EventWebhooks, TLAPS

------------------------------------------------------------------------------
(* Type correctness *)

\* What a worker does while it holds the mutex.
Send(w) == SendWelcome(w) \/ SendPasswordChanged(w)

\* What a worker past its payload carries: the webhook it serves and whom the
\* event is about.  Send and Mark index by that identity.
JobInv ==
    \A w \in Worker :
        /\ pc[w] = "idle" <=> job[w] = NoIdentity
        /\ pc[w] \in {"check", "mark"} => kind[w] = "verification"
        /\ pc[w] # "idle" => kind[w] \in {"verification", "password"}

TypeInv == TypeOK /\ JobInv

\* Every step of every worker, and every fault, keeps the shape of the state.
LEMMA NextType == TypeInv /\ [Next]_vars => TypeInv'
<1> SUFFICES ASSUME TypeInv, [Next]_vars PROVE TypeInv'
  OBVIOUS
<1> USE WebhookAssumption
<1>1. ASSUME NEW w \in Worker, NEW i \in Identity,
             ReceiveVerification(w, i) \/ ReceivePasswordChanged(w, i)
      PROVE  TypeInv'
  BY <1>1 DEF TypeInv, TypeOK, JobInv, ReceiveVerification, ReceivePasswordChanged, Receive
<1>2. ASSUME NEW w \in Worker, ReceiveInvalid(w) PROVE TypeInv'
  BY <1>2 DEF TypeInv, TypeOK, JobInv, ReceiveInvalid, Respond
<1>3. ASSUME NEW w \in Worker, Check(w) PROVE TypeInv'
  BY <1>3 DEF TypeInv, TypeOK, JobInv, Check, Respond, Goto
<1>4. ASSUME NEW w \in Worker, Lock(w) PROVE TypeInv'
  BY <1>4 DEF TypeInv, TypeOK, JobInv, Lock, Goto
<1>5. ASSUME NEW w \in Worker, Send(w) PROVE TypeInv'
  <2> USE DEF Send, SendWelcome, SendPasswordChanged
  <2>1. CASE link = "up" /\ kind[w] = "verification"
    BY <1>5, <2>1 DEF TypeInv, TypeOK, JobInv, Goto
  <2>2. CASE Respond(w, "success") /\ UNCHANGED emitted
    BY <1>5, <2>2 DEF TypeInv, TypeOK, JobInv, Respond
  <2>3. CASE Respond(w, "error") /\ UNCHANGED emitted
    BY <1>5, <2>3 DEF TypeInv, TypeOK, JobInv, Respond
  <2> QED BY <1>5, <2>1, <2>2, <2>3
<1>6. ASSUME NEW w \in Worker, Mark(w) PROVE TypeInv'
  BY <1>6 DEF TypeInv, TypeOK, JobInv, Mark, Respond
<1>7. ASSUME NEW w \in Worker, HangUp(w) PROVE TypeInv'
  BY <1>7 DEF TypeInv, TypeOK, JobInv, HangUp
<1>8. ASSUME NEW i \in Identity, Expire(i) PROVE TypeInv'
  BY <1>8 DEF TypeInv, TypeOK, JobInv, Expire, worker
<1>9. CASE LoseLink
  BY <1>9 DEF TypeInv, TypeOK, JobInv, LoseLink, worker
<1>10. CASE Crash
  BY <1>10 DEF TypeInv, TypeOK, JobInv, Crash
<1>11. CASE UNCHANGED vars
  BY <1>11 DEF TypeInv, TypeOK, JobInv, vars, worker
<1> QED
  BY <1>1, <1>2, <1>3, <1>4, <1>5, <1>6, <1>7, <1>8, <1>9, <1>10, <1>11 DEF Next, Advance, Send

\* The stronger type invariant holds in every reachable state.
LEMMA TypeInvariant == Spec => []TypeInv
<1>1. Init => TypeInv
  BY WebhookAssumption DEF Init, TypeInv, TypeOK, JobInv
<1> QED BY <1>1, NextType, PTL DEF Spec

\* The state keeps its shape, and the mutex of the RabbitMQ client is held by
\* the worker that is sending and by nobody else: it is never leaked, whatever
\* fails (PublishToQueue unlocks in a defer).
THEOREM TypeCorrect == Spec => []TypeOK
BY TypeInvariant, PTL DEF TypeInv

------------------------------------------------------------------------------
(* A mark is the trace of a welcome *)

\* A worker about to mark has itself written the welcome of its identity.
TraceInv ==
    /\ MarkedWasEmitted
    /\ \A w \in Worker : pc[w] = "mark" => emitted[job[w]] > 0

\* No step marks an identity without a welcome, nor forgets a welcome while
\* the mark of it stands or is about to be made.
LEMMA NextTrace == TypeInv /\ TraceInv /\ [Next]_vars => TraceInv'
<1> SUFFICES ASSUME TypeInv, TraceInv, [Next]_vars PROVE TraceInv'
  OBVIOUS
<1> USE WebhookAssumption
<1>0. \A w \in Worker : pc[w] = "mark" => job[w] \in Identity
  BY DEF TypeInv, TypeOK, JobInv
<1>1. ASSUME NEW w \in Worker, NEW i \in Identity,
             ReceiveVerification(w, i) \/ ReceivePasswordChanged(w, i)
      PROVE  TraceInv'
  BY <1>1 DEF TypeInv, TypeOK, TraceInv, MarkedWasEmitted, ReceiveVerification,
              ReceivePasswordChanged, Receive
<1>2. ASSUME NEW w \in Worker, ReceiveInvalid(w) PROVE TraceInv'
  BY <1>2 DEF TypeInv, TypeOK, TraceInv, MarkedWasEmitted, ReceiveInvalid, Respond
<1>3. ASSUME NEW w \in Worker, Check(w) PROVE TraceInv'
  BY <1>3 DEF TypeInv, TypeOK, TraceInv, MarkedWasEmitted, Check, Respond, Goto
<1>4. ASSUME NEW w \in Worker, Lock(w) PROVE TraceInv'
  BY <1>4 DEF TypeInv, TypeOK, TraceInv, MarkedWasEmitted, Lock, Goto
<1>5. ASSUME NEW w \in Worker, Send(w) PROVE TraceInv'
  <2> USE DEF Send, SendWelcome, SendPasswordChanged
  <2>1. CASE link = "up" /\ kind[w] = "verification"
    <3>1. job[w] \in Identity
      BY <1>5 DEF TypeInv, TypeOK, JobInv
    <3>2. /\ emitted' = [emitted EXCEPT ![job[w]] = @ + 1]
          /\ pc' = [pc EXCEPT ![w] = "mark"]
          /\ UNCHANGED <<job, marked>>
      BY <1>5, <2>1 DEF Goto
    <3>3. /\ emitted'[job[w]] > 0
          /\ \A i \in Identity : emitted[i] > 0 => emitted'[i] > 0
      BY <3>1, <3>2 DEF TypeInv, TypeOK
    <3>4. pc \in [Worker -> {"idle", "check", "publish", "send", "mark"}]
      BY DEF TypeInv, TypeOK
    <3>5. marked \subseteq Identity
      BY DEF TypeInv, TypeOK
    <3> QED BY <1>0, <3>1, <3>2, <3>3, <3>4, <3>5 DEF TraceInv, MarkedWasEmitted
  <2>2. CASE Respond(w, "success") /\ UNCHANGED emitted
    BY <1>5, <2>2 DEF TypeInv, TypeOK, TraceInv, MarkedWasEmitted, Respond
  <2>3. CASE Respond(w, "error") /\ UNCHANGED emitted
    BY <1>5, <2>3 DEF TypeInv, TypeOK, TraceInv, MarkedWasEmitted, Respond
  <2> QED BY <1>5, <2>1, <2>2, <2>3
<1>6. ASSUME NEW w \in Worker, Mark(w) PROVE TraceInv'
  BY <1>6 DEF TypeInv, TypeOK, TraceInv, MarkedWasEmitted, Mark, Respond
<1>7. ASSUME NEW w \in Worker, HangUp(w) PROVE TraceInv'
  BY <1>7 DEF TraceInv, MarkedWasEmitted, HangUp
<1>8. ASSUME NEW i \in Identity, Expire(i) PROVE TraceInv'
  BY <1>8, <1>0 DEF TypeInv, TypeOK, TraceInv, MarkedWasEmitted, Expire, worker
<1>9. CASE LoseLink
  BY <1>9 DEF TraceInv, MarkedWasEmitted, LoseLink, worker
<1>10. CASE Crash
  BY <1>10 DEF TypeInv, TypeOK, TraceInv, MarkedWasEmitted, Crash
<1>11. CASE UNCHANGED vars
  BY <1>11 DEF TraceInv, MarkedWasEmitted, vars, worker
<1> QED
  BY <1>1, <1>2, <1>3, <1>4, <1>5, <1>6, <1>7, <1>8, <1>9, <1>10, <1>11 DEF Next, Advance, Send

\* A welcome_sent key exists only if the welcome was written to the channel,
\* under every combination of Redis errors, hang-ups, crashes, expiries and a
\* closed channel: the service never swallows a welcome it did not send.
THEOREM NoSwallowedWelcome == Spec => []MarkedWasEmitted
<1>1. Init => TraceInv
  BY DEF Init, TraceInv, MarkedWasEmitted
<1> QED BY <1>1, NextTrace, TypeInvariant, PTL DEF Spec, TraceInv

------------------------------------------------------------------------------
(* Answers *)

\* The answer a worker gives on one identity.
TruthfulTo(w) ==
    pc[w] # "idle" /\ kind[w] = "verification" /\ pc'[w] = "idle"
        => /\ answer'[w] \in {"success", "skipped"} => emitted[job[w]] > 0
           /\ answer'[w] = "error" => link = "down"

\* A request is answered by the check that finds the mark, by the publish that
\* fails, or after its own mark; a crash answers nobody.
LEMMA NextTruthful ==
    ASSUME TypeInv, TraceInv, [Next]_vars, NEW w \in Worker
    PROVE  TruthfulTo(w)
<1> SUFFICES ASSUME pc[w] # "idle", kind[w] = "verification", pc'[w] = "idle"
             PROVE  /\ answer'[w] \in {"success", "skipped"} => emitted[job[w]] > 0
                    /\ answer'[w] = "error" => link = "down"
  BY DEF TruthfulTo
<1> USE DEF TypeInv, TypeOK
<1>1. ASSUME NEW v \in Worker, Check(v) PROVE v = w /\ job[w] \in marked /\ answer'[w] = "skipped"
  BY <1>1 DEF Check, Respond, Goto
<1>2. ASSUME NEW v \in Worker, SendWelcome(v) PROVE v = w /\ link = "down" /\ answer'[w] = "error"
  <2>1. CASE Goto(v, "mark")
    BY <2>1 DEF Goto
  <2>2. CASE link = "down" /\ Respond(v, "error")
    BY <2>2 DEF Respond
  <2> QED BY <1>2, <2>1, <2>2 DEF SendWelcome
<1>3. ASSUME NEW v \in Worker, SendPasswordChanged(v) PROVE FALSE
  BY <1>3 DEF SendPasswordChanged, Respond
<1>4. ASSUME NEW v \in Worker, Mark(v) PROVE v = w /\ pc[w] = "mark" /\ answer'[w] = "success"
  BY <1>4 DEF Mark, Respond
<1>5. ASSUME NEW v \in Worker, NEW i \in Identity,
             ReceiveVerification(v, i) \/ ReceivePasswordChanged(v, i)
      PROVE  FALSE
  BY <1>5 DEF ReceiveVerification, ReceivePasswordChanged, Receive
<1>6. ASSUME NEW v \in Worker, ReceiveInvalid(v) \/ Lock(v) \/ HangUp(v) PROVE FALSE
  BY <1>6 DEF ReceiveInvalid, Respond, Lock, Goto, HangUp
<1>7. CASE Crash
  BY <1>7 DEF Crash
<1>8. ASSUME LoseLink \/ (\E i \in Identity : Expire(i)) \/ UNCHANGED vars PROVE FALSE
  BY <1>8 DEF LoseLink, Expire, vars, worker
<1>9. \A i \in marked : emitted[i] > 0
  BY DEF TraceInv, MarkedWasEmitted
<1>10. pc[w] = "mark" => emitted[job[w]] > 0
  BY DEF TraceInv
<1> QED
  BY <1>1, <1>2, <1>3, <1>4, <1>5, <1>6, <1>7, <1>8, <1>9, <1>10 DEF Next, Advance

\* Any component that starts and steps as the service does answers truthfully, too.
LEMMA WebhooksAnswerTruthfully == Init /\ [][Next]_vars => AnsweredTruthfully
<1>1. Init => TypeInv /\ TraceInv
  BY WebhookAssumption DEF Init, TypeInv, TypeOK, JobInv, TraceInv, MarkedWasEmitted
<1>2. TypeInv /\ TraceInv /\ [Next]_vars => (TypeInv /\ TraceInv)'
  BY NextType, NextTrace
<1>3. TypeInv /\ TraceInv /\ [Next]_vars => [\A w \in Worker : TruthfulTo(w)]_vars
  BY NextTruthful
<1> QED BY <1>1, <1>2, <1>3, PTL DEF AnsweredTruthfully, TruthfulTo

\* AnsweredTruthfully of EventWebhooks: Kratos is told "success" or "skipped" only
\* if the welcome was written, and "error" only if the channel is closed, in
\* whatever order requests and failures come.
THEOREM AnswersAreTrue == Spec => AnsweredTruthfully
BY WebhooksAnswerTruthfully DEF Spec
==============================================================================
