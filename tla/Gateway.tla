-------------------------------- MODULE Gateway --------------------------------
(***************************************************************************)
(* The process around the handlers (cmd/server/main.go): configuration and  *)
(* dialling at the start, requests while it serves, and after a SIGTERM the *)
(* shutdown with its deadline and the deferred Close of the two clients,    *)
(* RabbitMQ first, while handlers that outlived the deadline still run.     *)
(* The readiness handler (internal/health/handlers.go) and the Close of the *)
(* RabbitMQ client take the mutex the publishers take.                      *)
(*                                                                          *)
(* EventWebhooks gives the handlers and the channel.  Its link is, while no *)
(* process has dialled, the connection the next one will open.              *)
(***************************************************************************)
EXTENDS EventWebhooks

CONSTANTS
    Probe,          \* readiness requests handled at once
    HostFaults      \* what may happen around the process, beside Faults

\* A process may always be killed, its connection lost, a Redis call fail.
ASSUME GatewayAssumption ==
    /\ HostFaults \subseteq {"badConfig", "brokerDown", "brokerStall", "redisOutage", "kill"}
    /\ {"crash", "linkLoss", "redisDown"} \subseteq Faults

VARIABLES
    main,           \* where main() is; "down" when there is no process
    deadline,       \* whether the 30 seconds of the shutdown are over
    maintenance,    \* MAINTENANCE_MODE of the process
    broker,         \* RabbitMQ: up, down, or not reading what it is sent
    redis,
    probe,          \* where each readiness request is
    health          \* its status so far, and then its answer

hostVars == <<main, deadline, maintenance, broker, redis, probe, health>>
allVars  == <<vars, hostVars>>

Stopping == {"drain", "close", "closed", "end"}
Running  == {"serve"} \union Stopping

GatewayInit ==
    /\ Init
    /\ main = "load"
    /\ deadline = FALSE
    /\ maintenance \in BOOLEAN
    /\ broker = "up"
    /\ redis = "up"
    /\ probe = [p \in Probe |-> "idle"]
    /\ health = [p \in Probe |-> "none"]

NobodyInFlight == (\A w \in Worker : pc[w] = "idle") /\ (\A p \in Probe : probe[p] = "idle")

\* Redis answers as long as the client is not closed.
RedisAnswers == redis = "up" /\ main # "end"

------------------------------------------------------------------------------
(* main(): the start. *)

\* config.Load refuses a configuration and the process exits; the Redis client
\* is made without a connection.
Load ==
    /\ main = "load"
    /\ main' \in {"dial"} \union (IF "badConfig" \in HostFaults THEN {"down"} ELSE {})
    /\ UNCHANGED <<vars, deadline, maintenance, broker, redis, probe, health>>

\* NewRabbitMQClient: a process that cannot dial exits.
Dial ==
    /\ main = "dial"
    /\ main' = IF broker = "down" THEN "down" ELSE "serve"
    /\ UNCHANGED <<vars, deadline, maintenance, broker, redis, probe, health>>

\* The container is started again, perhaps with another configuration.
Restart ==
    /\ main = "down"
    /\ main' = "load"
    /\ deadline' = FALSE
    /\ maintenance' \in BOOLEAN
    /\ UNCHANGED <<vars, broker, redis, probe, health>>

------------------------------------------------------------------------------
(* Requests. *)

\* A mutant of Admit: maintenance is not looked at.
AdmitAlways(w) ==
    /\ main = "serve"
    /\ (\E i \in Identity : ReceiveVerification(w, i) \/ ReceivePasswordChanged(w, i))
       \/ ReceiveInvalid(w)
    /\ UNCHANGED hostVars

\* The server accepts requests until Shutdown; in maintenance mode the
\* middleware answers a webhook with 503 before any handler sees it.
Admit(w) ==
    /\ main = "serve" /\ ~maintenance
    /\ (\E i \in Identity : ReceiveVerification(w, i) \/ ReceivePasswordChanged(w, i))
       \/ ReceiveInvalid(w)
    /\ UNCHANGED hostVars

\* The handlers' Redis calls.
AskRedis(w) ==
    /\ \/ Check(w) /\ (~RedisAnswers => pc'[w] = "publish")
       \/ Mark(w) /\ (~RedisAnswers => marked' = marked)
    /\ UNCHANGED hostVars

TakeMutex(w) == Lock(w) /\ UNCHANGED hostVars

\* A write to an open channel does not return while the broker does not read.
Publish(w) ==
    /\ link = "down" \/ broker # "stalled"
    /\ SendWelcome(w) \/ SendPasswordChanged(w)
    /\ UNCHANGED hostVars

ClientHangsUp(w) == HangUp(w) /\ UNCHANGED hostVars

\* A mutant of StartProbe: the middleware does not let the health endpoints by.
StartProbeUnlessMaintenance(p) ==
    /\ main = "serve" /\ ~maintenance
    /\ probe[p] = "idle"
    /\ probe' = [probe EXCEPT ![p] = "redis"]
    /\ health' = [health EXCEPT ![p] = "ok"]
    /\ UNCHANGED <<vars, main, deadline, maintenance, broker, redis>>

\* ReadyHandler: health endpoints are exempt from maintenance.
StartProbe(p) ==
    /\ main = "serve"
    /\ probe[p] = "idle"
    /\ probe' = [probe EXCEPT ![p] = "redis"]
    /\ health' = [health EXCEPT ![p] = "ok"]
    /\ UNCHANGED <<vars, main, deadline, maintenance, broker, redis>>

PingRedis(p) ==
    /\ probe[p] = "redis"
    /\ probe' = [probe EXCEPT ![p] = "rabbit"]
    /\ health' = [health EXCEPT ![p] = IF RedisAnswers THEN @ ELSE "unhealthy"]
    /\ UNCHANGED <<vars, main, deadline, maintenance, broker, redis>>

\* Mutants of PingRabbit: a closed channel is not answered for; the state of the
\* channel is not looked at.
PingRabbitHealthyOnly(p) ==
    /\ probe[p] = "rabbit" /\ holder = NoWorker /\ link = "up"
    /\ probe' = [probe EXCEPT ![p] = "idle"]
    /\ UNCHANGED <<vars, main, deadline, maintenance, broker, redis, health>>

PingRabbitBlind(p) ==
    /\ probe[p] = "rabbit" /\ holder = NoWorker
    /\ probe' = [probe EXCEPT ![p] = "idle"]
    /\ UNCHANGED <<vars, main, deadline, maintenance, broker, redis, health>>

\* The client's Ping waits for the publishers' mutex, without a deadline; then
\* the answer is given.
PingRabbit(p) ==
    /\ probe[p] = "rabbit"
    /\ holder = NoWorker
    /\ probe' = [probe EXCEPT ![p] = "idle"]
    /\ health' = [health EXCEPT ![p] = IF link = "up" THEN @ ELSE "unhealthy"]
    /\ UNCHANGED <<vars, main, deadline, maintenance, broker, redis>>

------------------------------------------------------------------------------
(* main(): the shutdown. *)

\* SIGTERM or SIGINT.
Signal ==
    /\ main = "serve"
    /\ main' = "drain"
    /\ UNCHANGED <<vars, deadline, maintenance, broker, redis, probe, health>>

PassDeadline ==
    /\ main \in Stopping /\ ~deadline
    /\ deadline' = TRUE
    /\ UNCHANGED <<vars, main, maintenance, broker, redis, probe, health>>

\* A mutant of ShutdownReturns: server.Close, which waits for nobody.
ShutdownAtOnce ==
    /\ main = "drain"
    /\ main' = "close"
    /\ UNCHANGED <<vars, deadline, maintenance, broker, redis, probe, health>>

\* Shutdown returns when no request is in flight or when its deadline is over.
ShutdownReturns ==
    /\ main = "drain"
    /\ NobodyInFlight \/ deadline
    /\ main' = "close"
    /\ UNCHANGED <<vars, deadline, maintenance, broker, redis, probe, health>>

\* A mutant of CloseRabbitMQ: a good-bye is waited for on a dead connection, too.
CloseRabbitMQAlways ==
    /\ main = "close"
    /\ holder = NoWorker
    /\ broker = "up"
    /\ link' = "down"
    /\ main' = "closed"
    /\ UNCHANGED <<worker, holder, marked, emitted>>
    /\ UNCHANGED <<deadline, maintenance, broker, redis, probe, health>>

\* The deferred Close of the RabbitMQ client takes the mutex and says good-bye
\* to the broker if the connection is still open.
CloseRabbitMQ ==
    /\ main = "close"
    /\ holder = NoWorker
    /\ link = "down" \/ broker = "up"
    /\ link' = "down"
    /\ main' = "closed"
    /\ UNCHANGED <<worker, holder, marked, emitted>>
    /\ UNCHANGED <<deadline, maintenance, broker, redis, probe, health>>

CloseRedis ==
    /\ main = "closed"
    /\ main' = "end"
    /\ UNCHANGED <<vars, deadline, maintenance, broker, redis, probe, health>>

\* The process is gone, and with it every request it was handling.
Die ==
    /\ Crash
    /\ main' = "down"
    /\ probe' = [p \in Probe |-> "idle"]
    /\ health' = [p \in Probe |-> "none"]
    /\ UNCHANGED <<deadline, maintenance, broker, redis>>

\* main returns, and the handlers that still run end with it.
Return == main = "end" /\ Die

\* Kubernetes grants a pod thirty seconds, and then sends SIGKILL.
GraceOver == main \in Stopping /\ deadline /\ Die

\* A container that does not come to serve is killed by its liveness probe.
NeverServes == main \in {"load", "dial"} /\ Die

Kill == "kill" \in HostFaults /\ main # "down" /\ Die

------------------------------------------------------------------------------
(* RabbitMQ and Redis. *)

BrokerFails ==
    /\ \/ "brokerDown" \in HostFaults /\ broker' = "down"
       \/ "brokerStall" \in HostFaults /\ broker' = "stalled"
    /\ broker = "up"
    /\ UNCHANGED <<vars, main, deadline, maintenance, redis, probe, health>>

\* A missing heartbeat or a reset closes the connection for good.
LinkBreaks ==
    /\ main \in Running
    /\ broker = "down" /\ link = "up"
    /\ LoseLink
    /\ UNCHANGED hostVars

\* A broker that was down has forgotten its connections.
BrokerReturns ==
    /\ broker = "stalled" \/ (broker = "down" /\ (main \in Running => link = "down"))
    /\ broker' = "up"
    /\ UNCHANGED <<vars, main, deadline, maintenance, redis, probe, health>>

RedisFlips ==
    /\ "redisOutage" \in HostFaults
    /\ redis' = IF redis = "up" THEN "down" ELSE "up"
    /\ UNCHANGED <<vars, main, deadline, maintenance, broker, probe, health>>

\* The key of a mark reaches its time to live.
KeyExpires == (\E i \in Identity : Expire(i)) /\ UNCHANGED hostVars

Handle(w) == Admit(w) \/ AskRedis(w) \/ TakeMutex(w) \/ Publish(w) \/ ClientHangsUp(w)

MainNext == \/ Load \/ Dial \/ Restart \/ Signal \/ PassDeadline \/ ShutdownReturns
            \/ CloseRabbitMQ \/ CloseRedis \/ Return \/ GraceOver \/ NeverServes \/ Kill

HostNext == BrokerFails \/ LinkBreaks \/ BrokerReturns \/ RedisFlips \/ KeyExpires

GatewayNext ==
    \/ MainNext
    \/ \E w \in Worker : Handle(w)
    \/ \E p \in Probe : StartProbe(p) \/ PingRedis(p) \/ PingRabbit(p)
    \/ HostNext

\* What goes on by itself is said in Deployment.
GatewaySpec == GatewayInit /\ [][GatewayNext]_allVars

------------------------------------------------------------------------------
(* Properties *)

\* Type invariant; a process that does not run handles nothing.
GatewayTypeOK ==
    /\ TypeOK
    /\ main \in {"load", "dial", "down"} \union Running
    /\ deadline \in BOOLEAN /\ maintenance \in BOOLEAN
    /\ broker \in {"up", "down", "stalled"}
    /\ redis \in {"up", "down"}
    /\ probe \in [Probe -> {"idle", "redis", "rabbit"}]
    /\ health \in [Probe -> {"none", "ok", "unhealthy"}]
    /\ main \notin Running => NobodyInFlight /\ link = "up"

\* A request admitted before the signal finds its clients open: they are closed
\* under a handler, and the process leaves one behind, only after the deadline
\* of the shutdown.
ClientsOutliveHandlers ==
    main \in Stopping \ {"drain"} => NobodyInFlight \/ deadline

\* Maintenance mode touches no external service on behalf of a webhook, from
\* the start of the process to its end.
MaintenanceTouchesNothing ==
    maintenance => \A w \in Worker : pc[w] = "idle"

==============================================================================
