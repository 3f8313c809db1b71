----------------------------- MODULE EventPayloads -----------------------------
(***************************************************************************)
(* What the webhooks make of a payload: which payloads they accept, the     *)
(* event they build (service.go and models.go of kratos-verification and    *)
(* kratos-password-changed), the NestJS envelope around it and the queue it *)
(* is routed to (internal/clients/rabbitmq.go).                             *)
(*                                                                          *)
(* EventWebhooks is the order in which it happens.  A password-changed      *)
(* event that came without a time is stamped when it is built, before its   *)
(* handler waits for the mutex of the publishers.                           *)
(***************************************************************************)
EXTENDS EventWebhooks, Sequences

CONSTANTS
    Text, Empty, TrimSpace,     \* strings, "" and Go's function on them
    Stamp,                      \* time.RFC3339 of an instant
    VerificationPayload,        \* the payloads that decode, at either webhook
    PasswordPayload,
    MaxClock,                   \* bound: instants
    MaxQueued                   \* bound: messages in a queue or being made

VerificationField == {"identity_id", "email", "display_name", "first_name"}
PasswordField == {"identity_id", "flow_id", "observed_at", "client_ip", "user_agent"}

\* A valid identity_id is a text that is not blank, used as it came.
ASSUME PayloadAssumption ==
    /\ Empty \in Text /\ Identity \subseteq Text /\ NoIdentity \notin Text
    /\ TrimSpace \in [Text -> Text]
    /\ \A t \in Text : TrimSpace[TrimSpace[t]] = TrimSpace[t]
    /\ MaxClock \in Nat /\ MaxQueued \in Nat
    /\ Stamp \in [0 .. MaxClock -> Text]
    /\ \A t \in 0 .. MaxClock : TrimSpace[Stamp[t]] # Empty
    /\ VerificationPayload \subseteq [VerificationField -> Text]
    /\ PasswordPayload \subseteq [PasswordField -> Text]
    /\ \A p \in VerificationPayload \union PasswordPayload :
          p.identity_id \in Identity <=> TrimSpace[p.identity_id] # Empty

VARIABLES
    clock,      \* the seconds of time.Now()
    event,      \* what each worker is to publish, with ghosts: when its
                \* request came and what it said of the time
    queue       \* the two durable queues; a message has its writing time, too

payloadVars == <<clock, event, queue>>
allVars     == <<vars, payloadVars>>

NoEvent == [pattern |-> "none"]

QueueName       == "alkemio-notifications"
KratosEventsQueueName == "alkemio-kratos-events"
EventTypeUserSignUpWelcome   == "USER_SIGN_UP_WELCOME"
EventTypeUserPasswordChanged == "USER_PASSWORD_CHANGED"

------------------------------------------------------------------------------
(* Payloads and events. *)

Blank(t) == TrimSpace[t] = Empty

\* ValidatePayload of either webhook finds nothing missing.
ValidVerification(p) == \A f \in VerificationField : ~Blank(p[f])
ValidPasswordChanged(p) == ~Blank(p.identity_id)

\* The payload's texts go into the event as they came.
TransformToNotificationEvent(p) ==
    LET user == [id |-> p.identity_id, firstName |-> p.first_name, email |-> p.email,
                 displayName |-> p.display_name]
    IN  [eventType |-> EventTypeUserSignUpWelcome,
         triggeredBy |-> user, recipients |-> <<user>>, user |-> user]

\* A mutant of TransformToEvent: the time of the process's start stands in for a
\* missing one.
TransformSinceStart(p, now) ==
    [eventType |-> EventTypeUserPasswordChanged, identityId |-> p.identity_id,
     observedAt |-> IF Blank(p.observed_at) THEN Stamp[0] ELSE TrimSpace[p.observed_at],
     sourceFlowId |-> TrimSpace[p.flow_id],
     request |-> [clientIp |-> TrimSpace[p.client_ip], userAgent |-> TrimSpace[p.user_agent]]]

\* Everything but the identity is trimmed, and a missing time is now.
TransformToEvent(p, now) ==
    [eventType |-> EventTypeUserPasswordChanged, identityId |-> p.identity_id,
     observedAt |-> IF Blank(p.observed_at) THEN Stamp[now] ELSE TrimSpace[p.observed_at],
     sourceFlowId |-> TrimSpace[p.flow_id],
     request |-> [clientIp |-> TrimSpace[p.client_ip], userAgent |-> TrimSpace[p.user_agent]]]

nestEnvelope(pattern, data) == [pattern |-> pattern, data |-> data]

------------------------------------------------------------------------------

PayloadInit ==
    /\ Init
    /\ clock = 0
    /\ event = [w \in Worker |-> NoEvent]
    /\ queue = [q \in {QueueName, KratosEventsQueueName} |-> <<>>]

\* The bound on the messages of a queue.
Room(q) == Len(queue[q]) + Cardinality({w \in Worker : event[w] # NoEvent}) < MaxQueued

Prepare(w, envelope, given) ==
    event' = [event EXCEPT ![w] = [envelope |-> envelope, received |-> clock, given |-> given]]

TakeVerification(w, p) ==
    /\ ValidVerification(p)
    /\ Room(QueueName)
    /\ ReceiveVerification(w, p.identity_id)
    /\ Prepare(w, nestEnvelope(EventTypeUserSignUpWelcome, TransformToNotificationEvent(p)), Empty)
    /\ UNCHANGED <<clock, queue>>

TakePasswordChanged(w, p) ==
    /\ ValidPasswordChanged(p)
    /\ Room(KratosEventsQueueName)
    /\ ReceivePasswordChanged(w, p.identity_id)
    /\ Prepare(w, nestEnvelope(EventTypeUserPasswordChanged, TransformToEvent(p, clock)),
               TrimSpace[p.observed_at])
    /\ UNCHANGED <<clock, queue>>

\* Whatever does not decode, or does not validate, is skipped.
Skip(w) ==
    /\ ReceiveInvalid(w)
    /\ UNCHANGED payloadVars

\* Redis is asked, the mutex taken, the welcome marked; a worker that has been
\* answered has nothing to publish.
Proceed(w) ==
    /\ Check(w) \/ Lock(w) \/ Mark(w)
    /\ event' = IF pc'[w] = "idle" THEN [event EXCEPT ![w] = NoEvent] ELSE event
    /\ UNCHANGED <<clock, queue>>

Message(e) == [envelope |-> e.envelope, received |-> e.received, given |-> e.given,
               written |-> clock]

\* A mutant of PublishToQueue: every event goes to the first queue.
PublishToOneQueue(w, q) ==
    /\ queue' = IF link = "up" THEN [queue EXCEPT ![QueueName] = Append(@, Message(event[w]))]
                               ELSE queue
    /\ event' = [event EXCEPT ![w] = NoEvent]
    /\ UNCHANGED clock

\* The message is routed by the queue's name; a closed channel takes nothing.
PublishToQueue(w, q) ==
    /\ queue' = IF link = "up" THEN [queue EXCEPT ![q] = Append(@, Message(event[w]))]
                               ELSE queue
    /\ event' = [event EXCEPT ![w] = NoEvent]
    /\ UNCHANGED clock

PublishNotificationEvent(w) == SendWelcome(w) /\ PublishToQueue(w, QueueName)
PublishEvent(w) == SendPasswordChanged(w) /\ PublishToQueue(w, KratosEventsQueueName)

\* The consumer of a queue.
Consume(q) ==
    /\ queue[q] # <<>>
    /\ queue' = [queue EXCEPT ![q] = Tail(@)]
    /\ UNCHANGED <<vars, clock, event>>

Tick ==
    /\ clock < MaxClock
    /\ clock' = clock + 1
    /\ UNCHANGED <<vars, event, queue>>

ChannelCloses == LoseLink /\ UNCHANGED payloadVars

PayloadNext ==
    \/ \E w \in Worker :
          \/ \E p \in VerificationPayload : TakeVerification(w, p)
          \/ \E p \in PasswordPayload : TakePasswordChanged(w, p)
          \/ Skip(w) \/ Proceed(w) \/ PublishNotificationEvent(w) \/ PublishEvent(w)
    \/ \E q \in DOMAIN queue : Consume(q)
    \/ Tick \/ ChannelCloses

PayloadSpec == PayloadInit /\ [][PayloadNext]_allVars

------------------------------------------------------------------------------
(* Properties *)

Messages(q) == {queue[q][n] : n \in DOMAIN queue[q]}

\* A welcome tells of one user with a name and an address, who is also its
\* only recipient.
IsWelcome(m) ==
    /\ m.envelope.pattern = EventTypeUserSignUpWelcome
    /\ LET data == m.envelope.data
       IN  /\ data.eventType = EventTypeUserSignUpWelcome
           /\ data.recipients = <<data.user>> /\ data.triggeredBy = data.user
           /\ \A f \in {"id", "firstName", "email", "displayName"} : ~Blank(data.user[f])

\* A password change tells whose it was and when.
IsPasswordChange(m) ==
    /\ m.envelope.pattern = EventTypeUserPasswordChanged
    /\ LET data == m.envelope.data
       IN  /\ data.eventType = EventTypeUserPasswordChanged
           /\ ~Blank(data.identityId) /\ ~Blank(data.observedAt)

\* Neither consumer meets a message of the other's, or one that lacks what it
\* needs: requests of both webhooks share a channel and its mutex, and the
\* contents come from a payload checked before they waited for it.
QueuesKeepApart ==
    /\ \A m \in Messages(QueueName) : IsWelcome(m)
    /\ \A m \in Messages(KratosEventsQueueName) : IsPasswordChange(m)

\* The time in an event that came without one lies between its request and its
\* publication.
StampedDuringRequest ==
    \A m \in Messages(KratosEventsQueueName) :
        m.given = Empty
            => \E t \in m.received .. m.written : m.envelope.data.observedAt = Stamp[t]

==============================================================================
