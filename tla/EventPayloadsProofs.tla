-------------------------- MODULE EventPayloadsProofs --------------------------
(***************************************************************************)
(* What is in the queues, for any payloads, workers and texts: each         *)
(* consumer meets complete messages of its own kind, and a stamped          *)
(* password change carries a time between its request and its publication.  *)
(***************************************************************************)
EXTENDS EventPayloads, EventWebhooksProofs, SequenceTheorems

------------------------------------------------------------------------------
(* The events of valid payloads, and the messages made of them. *)

Instant == 0 .. MaxClock

WelcomeEvent ==
    {[envelope |-> nestEnvelope(EventTypeUserSignUpWelcome, TransformToNotificationEvent(p)),
      received |-> t, given |-> Empty] :
        p \in {q \in VerificationPayload : ValidVerification(q)}, t \in Instant}

ChangeEvent ==
    {[envelope |-> nestEnvelope(EventTypeUserPasswordChanged, TransformToEvent(p, t)),
      received |-> t, given |-> TrimSpace[p.observed_at]] :
        p \in {q \in PasswordPayload : ValidPasswordChanged(q)}, t \in Instant}

\* Written no earlier than received.
Written(E) ==
    {m \in {[envelope |-> e.envelope, received |-> e.received, given |-> e.given, written |-> t] :
                e \in E, t \in Instant} : m.received <= m.written}

\* A message made of a welcome event is a welcome: the fields that were
\* validated are those that were copied.
LEMMA WelcomesAreWelcomes == \A m \in Written(WelcomeEvent) : IsWelcome(m)
<1> SUFFICES ASSUME NEW p \in VerificationPayload, ValidVerification(p), NEW m,
                    m.envelope = nestEnvelope(EventTypeUserSignUpWelcome,
                                              TransformToNotificationEvent(p))
             PROVE  IsWelcome(m)
  BY DEF Written, WelcomeEvent
<1> DEFINE user == [id |-> p.identity_id, firstName |-> p.first_name, email |-> p.email,
                    displayName |-> p.display_name]
<1>1. /\ m.envelope.pattern = EventTypeUserSignUpWelcome
      /\ m.envelope.data.eventType = EventTypeUserSignUpWelcome
      /\ m.envelope.data.recipients = <<user>>
      /\ m.envelope.data.triggeredBy = user
      /\ m.envelope.data.user = user
  BY DEF nestEnvelope, TransformToNotificationEvent
<1>2. \A f \in {"id", "firstName", "email", "displayName"} : ~Blank(user[f])
  BY DEF ValidVerification, VerificationField
<1> HIDE DEF user
<1> QED BY <1>1, <1>2 DEF IsWelcome

\* A message made of a password-changed event tells whose password and when,
\* and a stamp in it is of the moment its request came.
LEMMA ChangesAreChanges ==
    \A m \in Written(ChangeEvent) :
        /\ IsPasswordChange(m)
        /\ m.given = Empty
             => \E t \in m.received .. m.written : m.envelope.data.observedAt = Stamp[t]
<1> SUFFICES ASSUME NEW p \in PasswordPayload, ValidPasswordChanged(p), NEW m,
                    NEW t \in Instant, NEW u \in Instant, t <= u,
                    m = [envelope |-> nestEnvelope(EventTypeUserPasswordChanged,
                                                   TransformToEvent(p, t)),
                         received |-> t, given |-> TrimSpace[p.observed_at], written |-> u]
             PROVE  /\ IsPasswordChange(m)
                    /\ m.given = Empty
                         => \E n \in m.received .. m.written : m.envelope.data.observedAt = Stamp[n]
  BY DEF Written, ChangeEvent
<1>1. /\ m.envelope.pattern = EventTypeUserPasswordChanged
      /\ m.envelope.data.eventType = EventTypeUserPasswordChanged
      /\ m.envelope.data.identityId = p.identity_id
      /\ m.envelope.data.observedAt = IF Blank(p.observed_at) THEN Stamp[t]
                                      ELSE TrimSpace[p.observed_at]
      /\ m.received = t /\ m.written = u /\ m.given = TrimSpace[p.observed_at]
  BY DEF nestEnvelope, TransformToEvent
<1>2. p.observed_at \in Text
  BY PayloadAssumption DEF PasswordField
<1>3. ~Blank(m.envelope.data.observedAt)
  BY <1>1, <1>2, PayloadAssumption DEF Blank, Instant
<1>4. IsPasswordChange(m)
  BY <1>1, <1>3 DEF IsPasswordChange, ValidPasswordChanged
<1>5. t \in t .. u
  BY PayloadAssumption DEF Instant
<1> QED BY <1>1, <1>4, <1>5 DEF Blank

------------------------------------------------------------------------------
(* The inductive invariant: what a worker is about to publish was built from *)
(* a payload that was valid for the webhook it serves.                      *)

EventInv ==
    \A w \in Worker :
        /\ pc[w] \in {"check", "publish", "send"} => event[w].received <= clock
        /\ kind[w] = "verification" /\ pc[w] \in {"check", "publish", "send"}
             => event[w] \in WelcomeEvent
        /\ kind[w] = "password" /\ pc[w] \in {"check", "publish", "send"}
             => event[w] \in ChangeEvent

QueueInv ==
    /\ DOMAIN queue = {QueueName, KratosEventsQueueName}
    /\ queue[QueueName] \in Seq(Written(WelcomeEvent))
    /\ queue[KratosEventsQueueName] \in Seq(Written(ChangeEvent))

PayloadInv ==
    /\ TypeInv
    /\ clock \in Instant
    /\ event \in [Worker -> WelcomeEvent \union ChangeEvent \union {NoEvent}]
    /\ EventInv
    /\ QueueInv

\* The steps of the webhooks with their payloads are steps of the webhooks.
LEMMA PayloadSteps == [PayloadNext]_allVars => [Next]_vars
<1> SUFFICES ASSUME [PayloadNext]_allVars PROVE [Next]_vars
  OBVIOUS
<1>1. ASSUME NEW w \in Worker, NEW p \in VerificationPayload, TakeVerification(w, p)
      PROVE  [Next]_vars
  <2>1. p.identity_id \in Identity
    BY <1>1, PayloadAssumption DEF TakeVerification, ValidVerification, VerificationField, Blank
  <2> QED BY <1>1, <2>1 DEF TakeVerification, Next
<1>2. ASSUME NEW w \in Worker, NEW p \in PasswordPayload, TakePasswordChanged(w, p)
      PROVE  [Next]_vars
  <2>1. p.identity_id \in Identity
    BY <1>2, PayloadAssumption DEF TakePasswordChanged, ValidPasswordChanged, Blank
  <2> QED BY <1>2, <2>1 DEF TakePasswordChanged, Next
<1>3. ASSUME NEW w \in Worker,
             Skip(w) \/ Proceed(w) \/ PublishNotificationEvent(w) \/ PublishEvent(w)
      PROVE  [Next]_vars
  BY <1>3 DEF Skip, Proceed, PublishNotificationEvent, PublishEvent, Next, Advance
<1>4. ASSUME NEW q \in DOMAIN queue, Consume(q) PROVE [Next]_vars
  BY <1>4 DEF Consume
<1>5. CASE Tick \/ ChannelCloses \/ UNCHANGED allVars
  BY <1>5 DEF Tick, ChannelCloses, Next, allVars
<1> QED BY <1>1, <1>2, <1>3, <1>4, <1>5 DEF PayloadNext

\* The handlers with their payloads are those of EventWebhooks, with its two
\* webhooks, mutex and marks: what is proved of it holds whatever is in a payload.
THEOREM PayloadsRunWebhooks == PayloadSpec => Init /\ [][Next]_vars
BY PayloadSteps, PTL DEF PayloadSpec, PayloadInit

\* A worker that publishes adds a message of its webhook's kind to that
\* webhook's queue.
LEMMA PublishKeeps ==
    ASSUME PayloadInv, NEW w \in Worker, pc[w] = "send", NEW q, NEW E,
           \/ q = QueueName /\ E = WelcomeEvent /\ event[w] \in WelcomeEvent
           \/ q = KratosEventsQueueName /\ E = ChangeEvent /\ event[w] \in ChangeEvent,
           PublishToQueue(w, q)
    PROVE  QueueInv'
<1> USE DEF QueueInv, PayloadInv
<1>1. event[w].received <= clock
  BY DEF EventInv
<1>2. Message(event[w]) \in Written(E)
  BY <1>1 DEF Message, Written
<1>3. queue[q] \in Seq(Written(E))
  OBVIOUS
<1>4. Append(queue[q], Message(event[w])) \in Seq(Written(E))
  BY <1>2, <1>3
<1>5. QueueName # KratosEventsQueueName
  BY DEF QueueName, KratosEventsQueueName
<1>6. CASE link = "up"
  <2>1. queue' = [queue EXCEPT ![q] = Append(@, Message(event[w]))]
    BY <1>6 DEF PublishToQueue
  <2> QED BY <1>4, <1>5, <2>1
<1>7. CASE link # "up"
  BY <1>7 DEF PublishToQueue
<1> QED BY <1>6, <1>7

\* Every step keeps the queues apart.
LEMMA NextPayload == PayloadInv /\ TypeInv' /\ [PayloadNext]_allVars => PayloadInv'
<1> SUFFICES ASSUME PayloadInv, TypeInv', [PayloadNext]_allVars PROVE PayloadInv'
  OBVIOUS
<1> USE DEF PayloadInv
<1>t. /\ pc \in [Worker -> {"idle", "check", "publish", "send", "mark"}]
      /\ kind \in [Worker -> {"none", "verification", "password"}]
      /\ clock \in Int /\ MaxClock \in Nat
  BY PayloadAssumption DEF TypeInv, TypeOK, Instant
<1>1. ASSUME NEW w \in Worker, NEW p \in VerificationPayload, TakeVerification(w, p)
      PROVE  PayloadInv'
  <2> DEFINE e == [envelope |-> nestEnvelope(EventTypeUserSignUpWelcome,
                                             TransformToNotificationEvent(p)),
                   received |-> clock, given |-> Empty]
  <2>1. /\ event' = [event EXCEPT ![w] = e] /\ UNCHANGED <<clock, queue>>
        /\ pc' = [pc EXCEPT ![w] = "check"] /\ kind' = [kind EXCEPT ![w] = "verification"]
    BY <1>1 DEF TakeVerification, Prepare, ReceiveVerification, Receive
  <2>2. e \in WelcomeEvent /\ e.received = clock
    BY <1>1 DEF TakeVerification, WelcomeEvent
  <2> HIDE DEF e
  <2>3. EventInv'
    BY <1>t, <2>1, <2>2 DEF EventInv
  <2> QED BY <2>1, <2>2, <2>3 DEF QueueInv
<1>2. ASSUME NEW w \in Worker, NEW p \in PasswordPayload, TakePasswordChanged(w, p)
      PROVE  PayloadInv'
  <2> DEFINE e == [envelope |-> nestEnvelope(EventTypeUserPasswordChanged,
                                             TransformToEvent(p, clock)),
                   received |-> clock, given |-> TrimSpace[p.observed_at]]
  <2>1. /\ event' = [event EXCEPT ![w] = e] /\ UNCHANGED <<clock, queue>>
        /\ pc' = [pc EXCEPT ![w] = "publish"] /\ kind' = [kind EXCEPT ![w] = "password"]
    BY <1>2 DEF TakePasswordChanged, Prepare, ReceivePasswordChanged, Receive
  <2>2. e \in ChangeEvent /\ e.received = clock
    BY <1>2 DEF TakePasswordChanged, ChangeEvent
  <2> HIDE DEF e
  <2>3. EventInv'
    BY <1>t, <2>1, <2>2 DEF EventInv
  <2> QED BY <2>1, <2>2, <2>3 DEF QueueInv
<1>3. ASSUME NEW w \in Worker, Skip(w) PROVE PayloadInv'
  <2>1. /\ UNCHANGED <<event, clock, queue>> /\ pc' = [pc EXCEPT ![w] = "idle"]
        /\ kind' = [kind EXCEPT ![w] = "none"]
    BY <1>3 DEF Skip, ReceiveInvalid, Respond, payloadVars
  <2> QED BY <1>t, <2>1 DEF EventInv, QueueInv
<1>4. ASSUME NEW w \in Worker, Proceed(w) PROVE PayloadInv'
  <2>1. /\ UNCHANGED <<clock, queue>>
        /\ event' = event \/ event' = [event EXCEPT ![w] = NoEvent]
    BY <1>4 DEF Proceed
  <2>2. \A v \in Worker : v # w => pc'[v] = pc[v] /\ kind'[v] = kind[v] /\ event'[v] = event[v]
    BY <1>4, <1>t, <2>1 DEF Proceed, Check, Lock, Mark, Respond, Goto, TypeInv, TypeOK
  <2>3. \/ pc'[w] = "idle"
        \/ /\ pc[w] \in {"check", "publish", "send"} /\ kind'[w] = kind[w] /\ event' = event
    BY <1>4, <1>t DEF Proceed, Check, Lock, Mark, Respond, Goto
  <2>4. EventInv'
    BY <2>1, <2>2, <2>3 DEF EventInv
  <2> QED BY <2>1, <2>4 DEF QueueInv
<1>5. ASSUME NEW w \in Worker, PublishNotificationEvent(w) PROVE PayloadInv'
  <2>1. /\ pc[w] = "send" /\ kind[w] = "verification"
        /\ pc' \in {[pc EXCEPT ![w] = "mark"], [pc EXCEPT ![w] = "idle"]}
        /\ kind' \in {kind, [kind EXCEPT ![w] = "none"]}
        /\ event' = [event EXCEPT ![w] = NoEvent] /\ clock' = clock
        /\ PublishToQueue(w, QueueName)
    BY <1>5 DEF PublishNotificationEvent, SendWelcome, Goto, Respond, PublishToQueue
  <2>2. EventInv'
    BY <1>t, <2>1 DEF EventInv
  <2>3. QueueInv'
    BY <2>1, PublishKeeps DEF EventInv
  <2> QED BY <2>1, <2>2, <2>3
<1>6. ASSUME NEW w \in Worker, PublishEvent(w) PROVE PayloadInv'
  <2>1. /\ pc[w] = "send" /\ kind[w] = "password"
        /\ pc' = [pc EXCEPT ![w] = "idle"]
        /\ kind' = [kind EXCEPT ![w] = "none"]
        /\ event' = [event EXCEPT ![w] = NoEvent] /\ clock' = clock
        /\ PublishToQueue(w, KratosEventsQueueName)
    BY <1>6 DEF PublishEvent, SendPasswordChanged, Respond, PublishToQueue
  <2>2. EventInv'
    BY <1>t, <2>1 DEF EventInv
  <2>3. QueueInv'
    BY <2>1, PublishKeeps DEF EventInv
  <2> QED BY <2>1, <2>2, <2>3
<1>7. ASSUME NEW q \in DOMAIN queue, Consume(q) PROVE PayloadInv'
  <2>1. queue[q] # <<>> /\ queue' = [queue EXCEPT ![q] = Tail(@)] /\ UNCHANGED <<vars, clock, event>>
    BY <1>7 DEF Consume
  <2>2. ASSUME NEW S, queue[q] \in Seq(S) PROVE Tail(queue[q]) \in Seq(S)
    BY <2>1, <2>2
  <2>3. QueueInv'
    BY <2>1, <2>2 DEF QueueInv
  <2>4. EventInv'
    BY <2>1 DEF EventInv, vars, worker
  <2> QED BY <2>1, <2>3, <2>4
<1>8. CASE Tick
  <2>1. clock' = clock + 1 /\ clock' \in Instant /\ UNCHANGED <<vars, event, queue>>
    BY <1>8, <1>t DEF Tick, Instant
  <2>2. \A e \in WelcomeEvent \union ChangeEvent : e.received \in Int
    BY <1>t DEF WelcomeEvent, ChangeEvent, Instant
  <2>3. EventInv'
    BY <1>t, <2>1, <2>2 DEF EventInv, vars, worker, TypeInv, JobInv
  <2> QED BY <2>1, <2>3 DEF QueueInv
<1>9. CASE ChannelCloses \/ UNCHANGED allVars
  BY <1>9 DEF ChannelCloses, LoseLink, worker, allVars, vars, payloadVars, EventInv, QueueInv
<1> QED BY <1>1, <1>2, <1>3, <1>4, <1>5, <1>6, <1>7, <1>8, <1>9 DEF PayloadNext

\* The queues start empty, and nobody has an event.
LEMMA PayloadInvariant == PayloadSpec => []PayloadInv
<1>1. PayloadInit => PayloadInv
  <2> SUFFICES ASSUME PayloadInit PROVE PayloadInv
    OBVIOUS
  <2>1. TypeInv
    BY WebhookAssumption DEF PayloadInit, Init, TypeInv, TypeOK, JobInv
  <2>2. EventInv /\ event \in [Worker -> WelcomeEvent \union ChangeEvent \union {NoEvent}]
    BY DEF PayloadInit, Init, EventInv
  <2>3. QueueInv
    BY DEF PayloadInit, QueueInv
  <2>4. clock \in Instant
    BY PayloadAssumption DEF PayloadInit, Instant
  <2> QED BY <2>1, <2>2, <2>3, <2>4 DEF PayloadInv
<1>2. PayloadInv /\ [PayloadNext]_allVars => PayloadInv'
  BY NextPayload, PayloadSteps, NextType DEF PayloadInv
<1> QED BY <1>1, <1>2, PTL DEF PayloadSpec

\* QueuesKeepApart of EventPayloads: whatever payloads come, and however their
\* handlers share the channel, each queue holds complete messages of its own
\* kind.
THEOREM QueuesAreKeptApart == PayloadSpec => []QueuesKeepApart
<1>1. PayloadInv => QueuesKeepApart
  BY WelcomesAreWelcomes, ChangesAreChanges
     DEF PayloadInv, QueueInv, QueuesKeepApart, Messages
<1> QED BY <1>1, PayloadInvariant, PTL

\* StampedDuringRequest of EventPayloads: a stamp is neither older than the
\* request nor younger than the message.
THEOREM StampsAreFresh == PayloadSpec => []StampedDuringRequest
<1>1. PayloadInv => StampedDuringRequest
  BY ChangesAreChanges DEF PayloadInv, QueueInv, StampedDuringRequest, Messages
<1> QED BY <1>1, PayloadInvariant, PTL
================================================================================
