---------------------------- MODULE EventWebhooks ----------------------------
(***************************************************************************)
(* The webhooks that turn a Kratos event into a message: the verification   *)
(* webhook (internal/webhooks/kratos-verification), which sends one welcome *)
(* per identity and remembers it in Redis, and the password-changed webhook *)
(* (internal/webhooks/kratos-password-changed), which sends every event.    *)
(* They share one RabbitMQ channel under one mutex                          *)
(* (internal/clients/rabbitmq.go), opened when the process starts and never *)
(* reopened.                                                                *)
(*                                                                          *)
(* A worker is one HTTP request being handled.  Kratos may deliver the same *)
(* event several times and to several workers at once.                      *)
(***************************************************************************)
EXTENDS Naturals, FiniteSets

CONSTANTS
    Worker,
    Identity,       \* the identities whose payloads are valid
    NoWorker,       \* holds the mutex when nobody does
    NoIdentity,     \* the job of an idle worker
    Faults,
    MaxEmitted      \* bound: welcomes on record per identity

WebhookFaultKind == {"redisDown", "hangUp", "linkLoss", "crash", "expiry"}

ASSUME WebhookAssumption ==
    /\ NoWorker \notin Worker
    /\ NoIdentity \notin Identity
    /\ Faults \subseteq WebhookFaultKind
    /\ MaxEmitted \in Nat

VARIABLES
    pc,         \* where each worker is
    job,        \* the identity it is about
    kind,       \* the webhook it serves
    context,    \* whether the client of its request is still there
    answer,     \* the status of its last answer
    holder,     \* who holds the RabbitMQ client's mutex
    link,       \* the RabbitMQ connection and its channel
    marked,     \* the identities with a welcome_sent key in Redis
    emitted     \* not in the program: welcomes written to the AMQP channel,
                \* per identity, since its last key expired

worker == <<pc, job, kind, context, answer>>
vars == <<worker, holder, link, marked, emitted>>

Init ==
    /\ pc = [w \in Worker |-> "idle"]
    /\ job = [w \in Worker |-> NoIdentity]
    /\ kind = [w \in Worker |-> "none"]
    /\ context = [w \in Worker |-> "live"]
    /\ answer = [w \in Worker |-> "none"]
    /\ holder = NoWorker
    /\ link = "up"
    /\ marked = {}
    /\ emitted = [i \in Identity |-> 0]

------------------------------------------------------------------------------

Goto(w, place) ==
    /\ pc' = [pc EXCEPT ![w] = place]
    /\ UNCHANGED <<job, kind, context, answer>>

\* Every answer is HTTP 200; its body holds the status.
Respond(w, status) ==
    /\ pc' = [pc EXCEPT ![w] = "idle"]
    /\ job' = [job EXCEPT ![w] = NoIdentity]
    /\ kind' = [kind EXCEPT ![w] = "none"]
    /\ context' = [context EXCEPT ![w] = "live"]
    /\ answer' = [answer EXCEPT ![w] = status]

\* A payload that decodes and validates: the handler goes to its first call.
Receive(w, i, k, place) ==
    /\ pc[w] = "idle"
    /\ pc' = [pc EXCEPT ![w] = place]
    /\ job' = [job EXCEPT ![w] = i]
    /\ kind' = [kind EXCEPT ![w] = k]
    /\ answer' = [answer EXCEPT ![w] = "none"]
    /\ UNCHANGED <<context, holder, link, marked, emitted>>

\* HandleVerification starts by asking Redis ...
ReceiveVerification(w, i) ==
    /\ emitted[i] + Cardinality({v \in Worker : job[v] = i}) < MaxEmitted
    /\ Receive(w, i, "verification", "check")

\* ... and HandlePasswordChanged goes straight to the broker.
ReceivePasswordChanged(w, i) == Receive(w, i, "password", "publish")

\* A payload that does not decode or does not validate, at either webhook.
ReceiveInvalid(w) ==
    /\ pc[w] = "idle"
    /\ Respond(w, "skipped")
    /\ UNCHANGED <<holder, link, marked, emitted>>

\* A Redis call returns an error.
RedisFails(w) == "redisDown" \in Faults \/ context[w] = "gone"

\* Mutants of Check: the mark is not consulted; it is set where it is tested, as
\* SETNX would; an error counts as "sent already".
CheckUnread(w) ==
    /\ pc[w] = "check"
    /\ Goto(w, "publish")
    /\ UNCHANGED <<holder, link, marked, emitted>>

CheckAndMark(w) ==
    /\ pc[w] = "check"
    /\ \/ context[w] = "live" /\ job[w] \in marked /\ Respond(w, "skipped") /\ UNCHANGED marked
       \/ job[w] \notin marked /\ Goto(w, "publish") /\ marked' = marked \union {job[w]}
    /\ UNCHANGED <<holder, link, emitted>>

CheckFailClosed(w) ==
    /\ pc[w] = "check"
    /\ \/ (RedisFails(w) \/ job[w] \in marked) /\ Respond(w, "skipped")
       \/ context[w] = "live" /\ job[w] \notin marked /\ Goto(w, "publish")
    /\ UNCHANGED <<holder, link, marked, emitted>>

\* CheckWelcomeSent: an error counts as "not sent yet".
Check(w) ==
    /\ pc[w] = "check"
    /\ \/ context[w] = "live" /\ job[w] \in marked /\ Respond(w, "skipped")
       \/ context[w] = "live" /\ job[w] \notin marked /\ Goto(w, "publish")
       \/ RedisFails(w) /\ Goto(w, "publish")
    /\ UNCHANGED <<holder, link, marked, emitted>>

\* A mutant of Lock: the mutex does not exclude.
LockUnguarded(w) ==
    /\ pc[w] = "publish"
    /\ holder' = w
    /\ Goto(w, "send")
    /\ UNCHANGED <<link, marked, emitted>>

\* PublishToQueue takes the client's mutex ...
Lock(w) ==
    /\ pc[w] = "publish"
    /\ holder = NoWorker
    /\ holder' = w
    /\ Goto(w, "send")
    /\ UNCHANGED <<link, marked, emitted>>

\* Mutants of SendWelcome: the mutex is kept when the channel is closed; the
\* error of a closed channel is ignored.
SendWelcomeLeaking(w) ==
    /\ pc[w] = "send" /\ kind[w] = "verification"
    /\ \/ /\ link = "up"
          /\ holder' = NoWorker
          /\ emitted' = [emitted EXCEPT ![job[w]] = @ + 1]
          /\ Goto(w, "mark")
       \/ link = "down" /\ UNCHANGED <<holder, emitted>> /\ Respond(w, "error")
    /\ UNCHANGED <<link, marked>>

SendWelcomeRegardless(w) ==
    /\ pc[w] = "send" /\ kind[w] = "verification"
    /\ holder' = NoWorker
    /\ emitted' = IF link = "up" THEN [emitted EXCEPT ![job[w]] = @ + 1] ELSE emitted
    /\ Goto(w, "mark")
    /\ UNCHANGED <<link, marked>>

\* ... writes the message to the channel, which does not consult the context,
\* and gives the mutex back whether or not that failed.  A welcome written is
\* marked next; a failure is answered, and leaves the identity unmarked.
SendWelcome(w) ==
    /\ pc[w] = "send" /\ kind[w] = "verification"
    /\ holder' = NoWorker
    /\ \/ /\ link = "up"
          /\ emitted' = [emitted EXCEPT ![job[w]] = @ + 1]
          /\ Goto(w, "mark")
       \/ link = "down" /\ UNCHANGED emitted /\ Respond(w, "error")
    /\ UNCHANGED <<link, marked>>

\* The same for a password-changed event, of which nothing is remembered.
SendPasswordChanged(w) ==
    /\ pc[w] = "send" /\ kind[w] = "password"
    /\ holder' = NoWorker
    /\ Respond(w, IF link = "up" THEN "success" ELSE "error")
    /\ UNCHANGED <<link, marked, emitted>>

\* A mutant of Mark: nothing is remembered.
MarkForgotten(w) ==
    /\ pc[w] = "mark"
    /\ Respond(w, "success")
    /\ UNCHANGED <<holder, link, marked, emitted>>

\* MarkWelcomeSent: an error is logged and the answer stays "success"; the key
\* may have been set all the same.
Mark(w) ==
    /\ pc[w] = "mark"
    /\ \/ marked' = marked \union {job[w]}
       \/ RedisFails(w) /\ UNCHANGED marked
    /\ Respond(w, "success")
    /\ UNCHANGED <<holder, link, emitted>>

------------------------------------------------------------------------------
(* What happens around the handlers. *)

HangUp(w) ==
    /\ "hangUp" \in Faults
    /\ pc[w] # "idle"
    /\ context' = [context EXCEPT ![w] = "gone"]
    /\ UNCHANGED <<pc, job, kind, answer, holder, link, marked, emitted>>

\* The connection or the channel closes.  The client never opens another.
LoseLink ==
    /\ "linkLoss" \in Faults
    /\ link' = "down"
    /\ UNCHANGED <<worker, holder, marked, emitted>>

\* The process dies and is started again, which dials RabbitMQ anew.
Crash ==
    /\ "crash" \in Faults
    /\ pc' = [w \in Worker |-> "idle"]
    /\ job' = [w \in Worker |-> NoIdentity]
    /\ kind' = [w \in Worker |-> "none"]
    /\ context' = [w \in Worker |-> "live"]
    /\ answer' = [w \in Worker |-> "none"]
    /\ holder' = NoWorker
    /\ link' = "up"
    /\ UNCHANGED <<marked, emitted>>

\* WelcomeSentTTL runs out; no request is in flight for ninety days.
Expire(i) ==
    /\ "expiry" \in Faults
    /\ i \in marked
    /\ \A w \in Worker : job[w] # i
    /\ marked' = marked \ {i}
    /\ emitted' = [emitted EXCEPT ![i] = 0]
    /\ UNCHANGED <<worker, holder, link>>

Advance(w) == Check(w) \/ SendWelcome(w) \/ SendPasswordChanged(w) \/ Mark(w)

Next ==
    \/ \E w \in Worker :
          \/ \E i \in Identity : ReceiveVerification(w, i) \/ ReceivePasswordChanged(w, i)
          \/ ReceiveInvalid(w) \/ Advance(w) \/ Lock(w) \/ HangUp(w)
    \/ \E i \in Identity : Expire(i)
    \/ LoseLink \/ Crash

\* Handlers run; Go's mutex is handed over in turn, so nobody waits for ever
\* while others take it again and again.
Fairness == \A w \in Worker : WF_vars(Advance(w)) /\ SF_vars(Lock(w))

Spec == Init /\ [][Next]_vars /\ Fairness

------------------------------------------------------------------------------
(* Properties *)

\* Type invariant; the mutex is held by whoever is sending and nobody else.
TypeOK ==
    /\ pc \in [Worker -> {"idle", "check", "publish", "send", "mark"}]
    /\ job \in [Worker -> Identity \union {NoIdentity}]
    /\ kind \in [Worker -> {"none", "verification", "password"}]
    /\ context \in [Worker -> {"live", "gone"}]
    /\ answer \in [Worker -> {"none", "skipped", "error", "success"}]
    /\ holder \in Worker \union {NoWorker}
    /\ link \in {"up", "down"}
    /\ marked \subseteq Identity
    /\ emitted \in [Identity -> Nat]
    /\ \A w \in Worker : pc[w] = "send" <=> holder = w

\* No identity is marked as welcomed unless its welcome was written to
\* the channel, whatever fails in between: a failed publish leaves the next
\* delivery free to try again.
MarkedWasEmitted == \A i \in marked : emitted[i] > 0

\* The answer to a verification webhook is true: "success" and "skipped" are told
\* only of an identity whose welcome was written, by this request or an earlier
\* one, and "error" only when the channel is closed, whatever Redis has answered.
AnsweredTruthfully ==
    [][\A w \in Worker :
          pc[w] # "idle" /\ kind[w] = "verification" /\ pc'[w] = "idle"
            => /\ answer'[w] \in {"success", "skipped"} => emitted[job[w]] > 0
               /\ answer'[w] = "error" => link = "down"]_vars

\* SC-004, to the letter: duplicate deliveries emit at most one event.
AtMostOnce == \A i \in Identity : emitted[i] <= 1

\* Every webhook is answered, though all share one mutex and the channel may
\* be closed for good.
EveryWebhookAnswered == \A w \in Worker : (pc[w] # "idle") ~> (pc[w] = "idle")

==============================================================================
