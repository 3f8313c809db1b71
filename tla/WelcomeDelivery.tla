---------------------------- MODULE WelcomeDelivery ----------------------------
(***************************************************************************)
(* What becomes of a welcome after the verification webhook has written it  *)
(* to the RabbitMQ channel (internal/clients/rabbitmq.go, PublishToQueue):  *)
(* it crosses the connection, waits in the queue "alkemio-notifications"    *)
(* and is consumed by the notifications service.  The service publishes     *)
(* without confirms and without a persistent delivery mode, so a connection *)
(* that breaks loses what is on it, and a broker that restarts loses what   *)
(* is in the queue, though the queue itself is durable.                     *)
(*                                                                          *)
(* EventWebhooks is the service; the broker and its consumer are modelled   *)
(* from how the service uses them.  No key expires here: every welcome is   *)
(* accounted for from the start.  A Redis call fails for a client that has  *)
(* hung up as it does in an outage.                                         *)
(***************************************************************************)
EXTENDS EventWebhooks

CONSTANT
    BrokerFaults    \* what may happen to the broker, beside Faults

\* A restart of the broker breaks its connections.
ASSUME BrokerAssumption ==
    /\ BrokerFaults \subseteq {"restart"}
    /\ BrokerFaults # {} => "linkLoss" \in Faults

VARIABLES
    wire,       \* welcomes on the connection, per identity
    queue,      \* welcomes in the notifications queue
    received,   \* welcomes the notifications service has consumed
    failed,     \* not in the program: what has failed so far,
    missed      \* ... and whose mark a failure has kept from being seen or set

brokerVars == <<wire, queue, received>>
ghosts     == <<failed, missed>>
allVars    == <<vars, brokerVars, ghosts>>

Nothing == [i \in Identity |-> 0]

DeliveryInit ==
    /\ Init
    /\ wire = Nothing
    /\ queue = Nothing
    /\ received = Nothing
    /\ failed = {}
    /\ missed = {}

------------------------------------------------------------------------------

\* A mutant of PublishWelcome: the message is written twice.
PublishWelcomeTwice(w) ==
    /\ SendWelcome(w)
    /\ wire' = [i \in Identity |-> wire[i] + 2 * (emitted'[i] - emitted[i])]
    /\ UNCHANGED <<queue, received, ghosts>>

\* Publish: the message goes onto the connection of an open channel.
PublishWelcome(w) ==
    /\ SendWelcome(w)
    /\ wire' = IF link = "up" THEN [wire EXCEPT ![job[w]] = @ + 1] ELSE wire
    /\ UNCHANGED <<queue, received, ghosts>>

\* The broker takes a message in.
Arrive(i) ==
    /\ wire[i] > 0
    /\ wire' = [wire EXCEPT ![i] = @ - 1]
    /\ queue' = [queue EXCEPT ![i] = @ + 1]
    /\ UNCHANGED <<vars, received, ghosts>>

\* The notifications service takes one out.
Consume(i) ==
    /\ queue[i] > 0
    /\ queue' = [queue EXCEPT ![i] = @ - 1]
    /\ received' = [received EXCEPT ![i] = @ + 1]
    /\ UNCHANGED <<vars, wire, ghosts>>

\* The connection breaks, and what is on it is gone.
BreakLink ==
    /\ LoseLink
    /\ wire' = Nothing
    /\ failed' = failed \union {"link"}
    /\ UNCHANGED <<queue, received, missed>>

\* The broker restarts: the connection breaks, and messages that are not
\* persistent do not survive in the durable queue.
RestartBroker ==
    /\ "restart" \in BrokerFaults
    /\ LoseLink
    /\ wire' = Nothing
    /\ queue' = Nothing
    /\ failed' = failed \union {"link"}
    /\ UNCHANGED <<received, missed>>

\* The mark is looked up; an error of Redis hides it.
LookUp(w) ==
    /\ Check(w)
    /\ missed' = IF RedisFails(w) /\ job[w] \in marked THEN missed \union {job[w]} ELSE missed
    /\ UNCHANGED <<brokerVars, failed>>

\* The mark is set, unless Redis fails.
Remember(w) ==
    /\ Mark(w)
    /\ missed' = IF RedisFails(w) /\ job[w] \notin marked' THEN missed \union {job[w]} ELSE missed
    /\ UNCHANGED <<brokerVars, failed>>

\* A process that dies leaves what it has written to the kernel, which delivers
\* it, and leaves unmarked whom it was about to mark.
Die ==
    /\ Crash
    /\ failed' = failed \union {"process"}
    /\ missed' = missed \union ({job[w] : w \in {v \in Worker : pc[v] = "mark"}} \ marked)
    /\ UNCHANGED brokerVars

\* The service takes any other step of its own.
ServiceStep ==
    /\ \E w \in Worker :
          \/ \E i \in Identity : ReceiveVerification(w, i) \/ ReceivePasswordChanged(w, i)
          \/ ReceiveInvalid(w) \/ Lock(w) \/ SendPasswordChanged(w) \/ HangUp(w)
    /\ UNCHANGED <<brokerVars, ghosts>>

DeliveryNext ==
    \/ ServiceStep
    \/ \E w \in Worker : LookUp(w) \/ PublishWelcome(w) \/ Remember(w)
    \/ \E i \in Identity : Arrive(i) \/ Consume(i)
    \/ BreakLink \/ RestartBroker \/ Die

\* The handlers' own fairness; the broker and the notifications service work.
DeliveryFairness ==
    /\ \A w \in Worker :
          /\ WF_allVars(LookUp(w) \/ PublishWelcome(w) \/ Remember(w))
          /\ WF_allVars(SendPasswordChanged(w) /\ UNCHANGED <<brokerVars, ghosts>>)
          /\ SF_allVars(Lock(w) /\ UNCHANGED <<brokerVars, ghosts>>)
    /\ \A i \in Identity : WF_allVars(Arrive(i)) /\ WF_allVars(Consume(i))

DeliverySpec == DeliveryInit /\ [][DeliveryNext]_allVars /\ DeliveryFairness

------------------------------------------------------------------------------
(* Properties *)

OnItsWay(i) == wire[i] + queue[i] + received[i]

\* Type invariant; until the connection fails, every welcome written to the
\* channel is on the connection, in the queue, or consumed, and nothing is
\* there that was not written.
DeliveryTypeOK ==
    /\ wire \in [Identity -> Nat]
    /\ queue \in [Identity -> Nat]
    /\ received \in [Identity -> Nat]
    /\ failed \subseteq {"link", "process"}
    /\ missed \subseteq Identity
    /\ \A i \in Identity :
          IF "link" \in failed THEN OnItsWay(i) <= emitted[i] ELSE OnItsWay(i) = emitted[i]

\* Nobody is welcomed more often than there are requests at once, unless a
\* failure has kept the mark of that identity from being seen or set: the
\* duplicates are those that were under way before the first had marked it.
DuplicatesBounded ==
    \A i \in Identity \ missed : emitted[i] <= Cardinality(Worker)

\* Whoever is marked as welcomed has a welcome on its way or received, unless a
\* connection or the broker has failed since: no error, hang-up or crash of the
\* service itself, and no order of its steps, takes an identity out of the
\* retries before its welcome is safe with RabbitMQ's client.
MarkedIsOnItsWay == "link" \notin failed => \A i \in marked : OnItsWay(i) > 0

\* Short of a failure of the connection or the broker, whoever is marked gets
\* the welcome.
MarkedIsWelcomed == \A i \in Identity : (i \in marked) ~> (received[i] > 0 \/ "link" \in failed)

\* Every verified identity receives a welcome, unless the connection or the
\* process fails: no Redis error and no hang-up costs anybody a welcome.
EveryoneWelcomed ==
    \A w \in Worker, i \in Identity :
        (job[w] = i /\ kind[w] = "verification") ~> (received[i] > 0 \/ failed # {})

==============================================================================
