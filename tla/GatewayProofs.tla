----------------------------- MODULE GatewayProofs -----------------------------
(***************************************************************************)
(* The process around the handlers and the kubelet around the process, for  *)
(* any number of workers, identities and readiness requests: the pod runs   *)
(* the process of Gateway, whose steps are, for the webhooks, steps of      *)
(* EventWebhooks, so what holds of them holds from one process to the next; *)
(* the clients outlive the handlers; maintenance touches nothing; only a    *)
(* process that serves is routed to.                                        *)
(***************************************************************************)
EXTENDS Deployment, EventWebhooksProofs

\* What the steps of a process do to the webhooks: the Close of the RabbitMQ
\* client is one more way to lose the channel, the end of the process a crash.
LEMMA WebhookSteps == [GatewayNext]_allVars => [Next]_vars
<1> SUFFICES ASSUME [GatewayNext]_allVars PROVE [Next]_vars
  OBVIOUS
<1>1. ASSUME NEW w \in Worker, Handle(w) PROVE [Next]_vars
  BY <1>1 DEF Handle, Admit, AskRedis, TakeMutex, Publish, ClientHangsUp, Next, Advance
<1>2. ASSUME NEW p \in Probe, StartProbe(p) \/ PingRedis(p) \/ PingRabbit(p) PROVE [Next]_vars
  BY <1>2 DEF StartProbe, PingRedis, PingRabbit
<1>3. CASE CloseRabbitMQ
  BY <1>3, GatewayAssumption DEF CloseRabbitMQ, Next, LoseLink
<1>4. CASE LinkBreaks \/ Return \/ GraceOver \/ NeverServes \/ Kill
  BY <1>4 DEF LinkBreaks, Return, GraceOver, NeverServes, Kill, Die, Next
<1>5. CASE Load \/ Dial \/ Restart \/ Signal \/ PassDeadline \/ ShutdownReturns \/ CloseRedis
  BY <1>5 DEF Load, Dial, Restart, Signal, PassDeadline, ShutdownReturns, CloseRedis
<1>6. CASE BrokerFails \/ BrokerReturns \/ RedisFlips \/ KeyExpires
  BY <1>6 DEF BrokerFails, BrokerReturns, RedisFlips, KeyExpires, Next
<1>7. CASE UNCHANGED allVars
  BY <1>7 DEF allVars
<1> QED BY <1>1, <1>2, <1>3, <1>4, <1>5, <1>6, <1>7 DEF GatewayNext, MainNext, HostNext

\* The webhooks of one process after another are those of EventWebhooks: what is
\* proved of every behaviour of theirs holds across starts, shutdowns and kills.
THEOREM ProcessRunsWebhooks == GatewaySpec => Init /\ [][Next]_vars
BY WebhookSteps, PTL DEF GatewaySpec, GatewayInit

\* The webhooks' own invariants hold from one process to the next.
LEMMA WebhookInvariant == GatewaySpec => [](TypeInv /\ TraceInv)
<1>1. GatewayInit => TypeInv /\ TraceInv
  BY WebhookAssumption DEF GatewayInit, Init, TypeInv, TypeOK, JobInv, TraceInv, MarkedWasEmitted
<1>2. TypeInv /\ TraceInv /\ [GatewayNext]_allVars => (TypeInv /\ TraceInv)'
  BY WebhookSteps, NextType, NextTrace
<1> QED BY <1>1, <1>2, PTL DEF GatewaySpec

\* No restart, no shutdown and no outage between two steps of a handler leaves
\* an identity marked that was not welcomed.
THEOREM NoSwallowedWelcomeAcrossRestarts == GatewaySpec => []MarkedWasEmitted
BY WebhookInvariant, PTL DEF TraceInv

\* A welcome that one process has written makes "skipped" a true answer of the
\* next, and the closed channel of a shutdown makes "error" one.
THEOREM AnswersAreTrueAcrossRestarts == GatewaySpec => AnsweredTruthfully
BY ProcessRunsWebhooks, WebhooksAnswerTruthfully

------------------------------------------------------------------------------
(* The process *)

\* What a handler or a probe in flight needs of main().
HostInv ==
    /\ GatewayTypeOK
    /\ ClientsOutliveHandlers
    /\ MaintenanceTouchesNothing

\* A step of a handler that is already past its admission admits nobody.
LEMMA HandlersStay ==
    ASSUME NEW w \in Worker, TypeOK,
           AskRedis(w) \/ TakeMutex(w) \/ Publish(w) \/ ClientHangsUp(w)
    PROVE  /\ pc[w] # "idle"
           /\ \A v \in Worker : pc[v] = "idle" => pc'[v] = "idle"
           /\ UNCHANGED <<link, hostVars>>
<1> USE DEF TypeOK, Respond, Goto
<1>1. CASE AskRedis(w)
  BY <1>1 DEF AskRedis, Check, Mark
<1>2. CASE TakeMutex(w)
  BY <1>2 DEF TakeMutex, Lock
<1>3. CASE Publish(w)
  <2>1. /\ pc[w] = "send"
        /\ \E place \in {"mark", "idle"} : pc' = [pc EXCEPT ![w] = place]
        /\ UNCHANGED <<link, hostVars>>
    BY <1>3 DEF Publish, SendWelcome, SendPasswordChanged
  <2> QED BY <2>1
<1>4. CASE ClientHangsUp(w)
  BY <1>4 DEF ClientHangsUp, HangUp
<1> QED BY <1>1, <1>2, <1>3, <1>4

\* Every step of main(), of a request and of the surroundings keeps the clients
\* open for those admitted, and maintenance free of them.
LEMMA NextHost ==
    TypeOK' /\ TypeOK /\ HostInv /\ [GatewayNext]_allVars => HostInv'
<1> SUFFICES ASSUME TypeOK', TypeOK, HostInv, [GatewayNext]_allVars PROVE HostInv'
  OBVIOUS
<1> USE DEF HostInv, GatewayTypeOK, ClientsOutliveHandlers, MaintenanceTouchesNothing,
            NobodyInFlight, Running, Stopping
<1>1. ASSUME NEW w \in Worker, Admit(w) PROVE HostInv'
  <2>1. main = "serve" /\ ~maintenance /\ UNCHANGED <<link, hostVars>>
    BY <1>1 DEF Admit, ReceiveVerification, ReceivePasswordChanged, Receive, ReceiveInvalid
  <2> QED BY <2>1 DEF hostVars
<1>2. ASSUME NEW w \in Worker, AskRedis(w) \/ TakeMutex(w) \/ Publish(w) \/ ClientHangsUp(w)
      PROVE  HostInv'
  BY <1>2, HandlersStay DEF hostVars
<1>3. ASSUME NEW p \in Probe, StartProbe(p) PROVE HostInv'
  BY <1>3 DEF StartProbe, vars, worker
<1>4. ASSUME NEW p \in Probe, PingRedis(p) PROVE HostInv'
  BY <1>4 DEF PingRedis, vars, worker
<1>5. ASSUME NEW p \in Probe, PingRabbit(p) PROVE HostInv'
  BY <1>5 DEF PingRabbit, vars, worker
<1>6. CASE Load \/ Dial \/ Signal \/ PassDeadline \/ ShutdownReturns \/ CloseRedis
  <2>1. UNCHANGED <<pc, link, maintenance, broker, redis, probe, health>>
    BY <1>6 DEF Load, Dial, Signal, PassDeadline, ShutdownReturns, CloseRedis, vars, worker
  <2>2. CASE Load \/ Dial \/ Signal
    BY <2>1, <2>2 DEF Load, Dial, Signal
  <2>3. CASE PassDeadline \/ ShutdownReturns \/ CloseRedis
    BY <2>1, <2>3 DEF PassDeadline, ShutdownReturns, CloseRedis
  <2> QED BY <1>6, <2>2, <2>3
<1>7. CASE Restart
  BY <1>7 DEF Restart, vars, worker
<1>8. CASE CloseRabbitMQ
  BY <1>8 DEF CloseRabbitMQ, worker
<1>9. CASE Return \/ GraceOver \/ NeverServes \/ Kill
  BY <1>9 DEF Return, GraceOver, NeverServes, Kill, Die, Crash
<1>10. CASE HostNext
  <2>1. UNCHANGED <<pc, main, deadline, maintenance, probe, health>>
    BY <1>10 DEF HostNext, BrokerFails, LinkBreaks, LoseLink, BrokerReturns, RedisFlips,
                 KeyExpires, Expire, hostVars, vars, worker
  <2>2. broker' \in {"up", "down", "stalled"} /\ redis' \in {"up", "down"}
    BY <1>10 DEF HostNext, BrokerFails, LinkBreaks, BrokerReturns, RedisFlips, KeyExpires, hostVars
  <2>3. main \in Running \/ link' = link
    BY <1>10 DEF HostNext, BrokerFails, LinkBreaks, BrokerReturns, RedisFlips, KeyExpires, Expire, vars
  <2> QED BY <2>1, <2>2, <2>3
<1>11. CASE UNCHANGED allVars
  BY <1>11 DEF allVars, hostVars, vars, worker
<1> QED BY <1>1, <1>2, <1>3, <1>4, <1>5, <1>6, <1>7, <1>8, <1>9, <1>10, <1>11
        DEF GatewayNext, MainNext, Handle

\* The three hold together from the start.
LEMMA HostInvariant == GatewaySpec => []HostInv
<1>1. GatewayInit => HostInv
  <2> SUFFICES ASSUME GatewayInit PROVE HostInv
    OBVIOUS
  <2>1. TypeOK /\ NobodyInFlight /\ link = "up"
    BY WebhookAssumption DEF GatewayInit, Init, TypeOK, NobodyInFlight
  <2>2. main = "load" /\ deadline \in BOOLEAN /\ maintenance \in BOOLEAN
    BY DEF GatewayInit
  <2>3. /\ broker = "up" /\ redis = "up"
        /\ probe \in [Probe -> {"idle", "redis", "rabbit"}]
        /\ health \in [Probe -> {"none", "ok", "unhealthy"}]
    BY DEF GatewayInit
  <2>4. GatewayTypeOK
    BY <2>1, <2>2, <2>3 DEF GatewayTypeOK
  <2> QED BY <2>1, <2>2, <2>4 DEF HostInv, ClientsOutliveHandlers, MaintenanceTouchesNothing,
                                  NobodyInFlight, Stopping
<1>2. TypeInv /\ TypeInv' /\ HostInv /\ [GatewayNext]_allVars => HostInv'
  BY NextHost DEF TypeInv
<1> QED BY <1>1, <1>2, WebhookInvariant, PTL DEF GatewaySpec

\* The state keeps its shape, and a process that is not running has nothing in
\* flight and no connection it has used.
THEOREM ProcessTypeCorrect == GatewaySpec => []GatewayTypeOK
BY HostInvariant, PTL DEF HostInv

\* The deferred Close of a client comes before the end of a request only when
\* the shutdown has run out of time (main.go: Shutdown, then the defers).
THEOREM ClientsAreClosedLast == GatewaySpec => []ClientsOutliveHandlers
BY HostInvariant, PTL DEF HostInv

\* In maintenance mode no webhook reaches Redis or RabbitMQ, whenever the mode
\* was switched by a restart and whatever was in flight before.
THEOREM MaintenanceIsQuiet == GatewaySpec => []MaintenanceTouchesNothing
BY HostInvariant, PTL DEF HostInv
------------------------------------------------------------------------------
(* The pod *)

\* Whatever the kubelet does, the process steps as it does by itself.
LEMMA PodSteps == [DeploymentNext]_podVars => [GatewayNext]_allVars
<1> SUFFICES ASSUME [DeploymentNext]_podVars PROVE [GatewayNext]_allVars
  OBVIOUS
<1>1. ASSUME NEW p \in Probe,
             KubeletAsks(p) \/ KubeletSees(p) \/ AnswerUnseen(p) \/ KubeletGivesUp(p)
      PROVE  [GatewayNext]_allVars
  BY <1>1 DEF KubeletAsks, KubeletSees, AnswerUnseen, KubeletGivesUp, GatewayNext
<1>2. CASE KubeletAsksInVain \/ UNCHANGED podVars
  BY <1>2 DEF KubeletAsksInVain, podVars
<1>3. CASE StopPod \/ PodEnds
  BY <1>3 DEF StopPod, PodEnds, GatewayNext, MainNext
<1>4. CASE LivenessRestart
  BY <1>4 DEF LivenessRestart, GatewayNext, MainNext
<1>5. CASE Beside
  BY <1>5 DEF Beside, GatewayNext, MainNext
<1> QED BY <1>1, <1>2, <1>3, <1>4, <1>5 DEF DeploymentNext

\* A pod runs the process as Gateway describes it, so all that is said of the
\* process holds in the cluster.
THEOREM PodRunsGateway == DeploymentSpec => GatewaySpec
BY PodSteps, PTL DEF DeploymentSpec, DeploymentInit, GatewaySpec

\* In the cluster, too, whatever the kubelet asks and whenever it restarts the
\* container: handlers are outlived by their clients, maintenance is quiet, no
\* identity is marked without its welcome, and Kratos is told the truth.
THEOREM PodIsProtected ==
    DeploymentSpec => /\ [](GatewayTypeOK /\ ClientsOutliveHandlers)
                      /\ [](MaintenanceTouchesNothing /\ MarkedWasEmitted)
                      /\ AnsweredTruthfully
BY PodRunsGateway, ProcessTypeCorrect, ClientsAreClosedLast, MaintenanceIsQuiet,
   NoSwallowedWelcomeAcrossRestarts, AnswersAreTrueAcrossRestarts, PTL

\* The kubelet's view never runs ahead of the process.
LEMMA NextKubelet ==
    GatewayTypeOK /\ KubeletTypeOK /\ [DeploymentNext]_podVars => KubeletTypeOK'
<1> SUFFICES ASSUME GatewayTypeOK, KubeletTypeOK, [DeploymentNext]_podVars PROVE KubeletTypeOK'
  OBVIOUS
<1> USE DeploymentAssumption DEF KubeletTypeOK
<1>0. probe \in [Probe -> {"idle", "redis", "rabbit"}]
  BY DEF GatewayTypeOK
<1>1. ASSUME NEW p \in Probe, KubeletAsks(p) PROVE KubeletTypeOK'
  BY <1>0, <1>1 DEF KubeletAsks, StartProbe
<1>2. ASSUME Fail, waiting' \in {waiting, NoProbe}, UNCHANGED <<main, probe>> PROVE KubeletTypeOK'
  <2>1. failures' \in 0 .. FailureThreshold
    BY <1>2 DEF Fail
  <2>2. ready' \in BOOLEAN /\ (ready' => ready /\ failures' < FailureThreshold)
    BY <1>2, Zenon DEF Fail
  <2> QED BY <1>2, <2>1, <2>2
<1>3. ASSUME NEW p \in Probe, KubeletSees(p) PROVE KubeletTypeOK'
  <2>1. main = "serve" /\ main' = main /\ waiting' = NoProbe
    BY <1>3 DEF KubeletSees, PingRabbit
  <2>2. CASE Succeed
    BY <2>1, <2>2 DEF Succeed
  <2>3. CASE Fail
    <3>1. failures' \in 0 .. FailureThreshold
      BY <2>3 DEF Fail
    <3>2. ready' \in BOOLEAN /\ (ready' => ready /\ failures' < FailureThreshold)
      BY <2>3, Zenon DEF Fail
    <3> QED BY <2>1, <3>1, <3>2
  <2> QED BY <1>3, <2>2, <2>3 DEF KubeletSees
<1>4. ASSUME NEW p \in Probe, AnswerUnseen(p) PROVE KubeletTypeOK'
  BY <1>0, <1>4 DEF AnswerUnseen, PingRabbit, kubeVars
<1>5. ASSUME NEW p \in Probe, KubeletGivesUp(p) PROVE KubeletTypeOK'
  BY <1>2, <1>5 DEF KubeletGivesUp, allVars, hostVars
<1>6. CASE KubeletAsksInVain
  BY <1>2, <1>6 DEF KubeletAsksInVain, allVars, hostVars
<1>7. CASE LivenessRestart \/ StopPod \/ PodEnds
  <2>1. waiting' = NoProbe /\ failures' = 0 /\ ready' = FALSE
    BY <1>7 DEF LivenessRestart, StopPod, PodEnds, Forget
  <2>2. ready' \in BOOLEAN /\ ~ready'
    BY <2>1, Zenon
  <2>3. failures' \in 0 .. FailureThreshold
    BY <2>1
  <2> QED BY <2>1, <2>2, <2>3
<1>8. CASE Beside
  <2>1. UNCHANGED kubeVars
    BY <1>8 DEF Beside
  <2>2. CASE Load \/ Dial \/ Restart \/ PassDeadline \/ ShutdownReturns \/ CloseRabbitMQ \/ CloseRedis
    <3>1. main # "serve"
      BY <2>2 DEF Load, Dial, Restart, PassDeadline, ShutdownReturns, CloseRabbitMQ, CloseRedis,
                  Stopping
    <3> QED BY <2>1, <3>1 DEF kubeVars
  <2>3. ASSUME NEW w \in Worker, Handle(w) PROVE UNCHANGED <<main, probe>>
    BY <2>3 DEF Handle, Admit, AskRedis, TakeMutex, Publish, ClientHangsUp, hostVars
  <2>4. ASSUME NEW p \in Probe, PingRedis(p) PROVE KubeletTypeOK'
    BY <1>0, <2>1, <2>4 DEF PingRedis, kubeVars
  <2>5. CASE HostNext
    BY <2>1, <2>5 DEF HostNext, BrokerFails, LinkBreaks, BrokerReturns, RedisFlips, KeyExpires,
                      hostVars, kubeVars
  <2> QED BY <1>8, <2>1, <2>2, <2>3, <2>4, <2>5 DEF Beside, kubeVars
<1>9. CASE UNCHANGED podVars
  BY <1>9 DEF podVars, allVars, hostVars, kubeVars
<1> QED BY <1>1, <1>3, <1>4, <1>5, <1>6, <1>7, <1>8, <1>9 DEF DeploymentNext

\* Traffic goes only to a process that serves and has not failed too often: not
\* to one that starts, drains, closes its clients or has ended.
THEOREM OnlyServingIsRoutedTo == DeploymentSpec => []KubeletTypeOK
<1>1. DeploymentInit => KubeletTypeOK
  <2> SUFFICES ASSUME DeploymentInit PROVE KubeletTypeOK
    OBVIOUS
  <2>1. waiting = NoProbe /\ failures = 0
    BY DEF DeploymentInit
  <2>2. ready \in BOOLEAN /\ ~ready
    BY Zenon DEF DeploymentInit
  <2>3. failures \in 0 .. FailureThreshold
    BY <2>1, DeploymentAssumption
  <2> QED BY <2>1, <2>2, <2>3 DEF KubeletTypeOK
<1> QED BY <1>1, NextKubelet, PodRunsGateway, ProcessTypeCorrect, PTL DEF DeploymentSpec
================================================================================
