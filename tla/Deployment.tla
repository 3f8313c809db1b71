------------------------------ MODULE Deployment -------------------------------
(***************************************************************************)
(* The service as Kubernetes runs it (manifests/25, 26 and 30): one replica, *)
(* routed to while its readiness probes succeed.  The kubelet asks for      *)
(* /health/ready again and again, one request at a time; it gives up on a   *)
(* late answer, and after FailureThreshold failures in a row the pod is     *)
(* taken out of the Service until a probe succeeds.  /health/live answers   *)
(* 200 in every process that serves.                                        *)
(*                                                                          *)
(* Logins and webhooks reach the service through the same route.            *)
(***************************************************************************)
EXTENDS Gateway

CONSTANTS
    NoProbe,            \* the kubelet waits for no answer
    FailureThreshold    \* failures in a row that take the pod out of service

ASSUME DeploymentAssumption ==
    /\ NoProbe \notin Probe
    /\ FailureThreshold \in Nat \ {0}

VARIABLES
    waiting,    \* the request the kubelet waits for
    failures,   \* failed probes in a row
    ready       \* whether the Service routes to the pod

kubeVars  == <<waiting, failures, ready>>
podVars   == <<allVars, kubeVars>>

DeploymentInit ==
    /\ GatewayInit
    /\ waiting = NoProbe
    /\ failures = 0
    /\ ready = FALSE

Fail ==
    /\ failures' = IF failures < FailureThreshold THEN failures + 1 ELSE failures
    /\ ready' = (ready /\ failures' < FailureThreshold)

Succeed == failures' = 0 /\ ready' = TRUE

------------------------------------------------------------------------------

\* The next probe of a container that serves.
KubeletAsks(p) ==
    /\ waiting = NoProbe
    /\ StartProbe(p)
    /\ waiting' = p
    /\ UNCHANGED <<failures, ready>>

\* The answer to the request the kubelet waits for.
KubeletSees(p) ==
    /\ waiting = p
    /\ PingRabbit(p)
    /\ waiting' = NoProbe
    /\ IF health'[p] = "ok" THEN Succeed ELSE Fail

\* An answer after the kubelet has given up.
AnswerUnseen(p) == waiting # p /\ PingRabbit(p) /\ UNCHANGED kubeVars

\* A second without an answer: a Redis that does not answer is waited for five
\* seconds, the mutex of a publisher that does not get through without limit.
\* The handler goes on.
KubeletGivesUp(p) ==
    /\ waiting = p
    /\ \/ probe[p] = "redis" /\ redis = "down"
       \/ probe[p] = "rabbit" /\ holder # NoWorker /\ broker = "stalled"
    /\ waiting' = NoProbe
    /\ Fail
    /\ UNCHANGED allVars

\* All of Probe hang behind such a publisher, and one request more does, too.
KubeletAsksInVain ==
    /\ waiting = NoProbe
    /\ main = "serve"
    /\ \A p \in Probe : probe[p] # "idle"
    /\ holder # NoWorker /\ broker = "stalled"
    /\ Fail
    /\ UNCHANGED <<allVars, waiting>>

\* A container that has ended is not ready, and is started afresh.
Forget == waiting' = NoProbe /\ failures' = 0 /\ ready' = FALSE

\* The container does not come to serve in time: the one case in which
\* /health/live is not answered.
LivenessRestart == NeverServes /\ Forget

\* A mutant of StopPod: the route to the pod is kept while it drains.
StopPodRouted == Signal /\ UNCHANGED kubeVars

\* A pod that is told to stop is taken out of the Service.
StopPod == Signal /\ Forget

PodEnds == (Return \/ GraceOver \/ Kill) /\ Forget

\* Whatever the kubelet does not see.
Beside ==
    /\ \/ Load \/ Dial \/ Restart \/ PassDeadline \/ ShutdownReturns \/ CloseRabbitMQ \/ CloseRedis
       \/ \E w \in Worker : Handle(w)
       \/ \E p \in Probe : PingRedis(p)
       \/ HostNext
    /\ UNCHANGED kubeVars

DeploymentNext ==
    \/ \E p \in Probe : KubeletAsks(p) \/ KubeletSees(p) \/ AnswerUnseen(p) \/ KubeletGivesUp(p)
    \/ KubeletAsksInVain
    \/ LivenessRestart \/ StopPod \/ PodEnds
    \/ Beside

\* The kubelet asks and gives up; main, the handlers and the clock go on; a
\* mutex is handed over in turn; a dead connection is noticed in the end.
\* Nothing says that RabbitMQ or Redis ever comes back, that a signal comes, or
\* that Kubernetes cuts a shutdown short.
DeploymentFairness ==
    /\ WF_podVars(\E p \in Probe : KubeletAsks(p)) /\ WF_podVars(KubeletAsksInVain)
    /\ \A p \in Probe :
          /\ WF_podVars(KubeletGivesUp(p))
          /\ WF_podVars(PingRedis(p) /\ UNCHANGED kubeVars)
          /\ SF_podVars(KubeletSees(p) \/ AnswerUnseen(p))
    /\ WF_podVars((Load \/ Dial \/ Restart) /\ UNCHANGED kubeVars)
    /\ WF_podVars(PassDeadline /\ UNCHANGED kubeVars)
    /\ WF_podVars(\/ (ShutdownReturns \/ CloseRabbitMQ \/ CloseRedis) /\ UNCHANGED kubeVars
                  \/ Return /\ Forget)
    /\ WF_podVars(LinkBreaks /\ UNCHANGED kubeVars)
    /\ \A w \in Worker :
          /\ WF_podVars((AskRedis(w) \/ Publish(w)) /\ UNCHANGED kubeVars)
          /\ SF_podVars(TakeMutex(w) /\ UNCHANGED kubeVars)

DeploymentSpec == DeploymentInit /\ [][DeploymentNext]_podVars /\ DeploymentFairness

------------------------------------------------------------------------------
(* What a caller meets. *)

\* The Service has no endpoint, the middleware answers, or the proxy decides:
\* it lets the attempt pass when Redis fails.
LoginOutcome ==
    IF ~ready THEN "refused" ELSE IF maintenance THEN "unavailable" ELSE "decided"

\* Kratos gets an HTTP 200 from a webhook.
WebhookAnswered == ready /\ ~maintenance

------------------------------------------------------------------------------
(* Properties *)

\* Type invariant; only a process that serves is routed to, and never one that
\* has failed too often; the kubelet waits for a request that is being handled.
KubeletTypeOK ==
    /\ waiting \in Probe \union {NoProbe}
    /\ failures \in 0 .. FailureThreshold
    /\ ready \in BOOLEAN
    /\ ready => main = "serve" /\ failures < FailureThreshold
    /\ waiting # NoProbe => main = "serve" /\ probe[waiting] # "idle"

\* The shutdown ends by itself, with whatever requests in flight and whether or
\* not the channel is still open: only a broker that has stopped reading can
\* hold it up, in a write under the mutex Close waits for or in Close's own
\* good-bye, and then it is left to Kubernetes.
ShutdownEnds == (main \in Stopping) ~> (main = "down" \/ broker = "stalled")

\* A readiness request is answered unless the broker stops reading: it waits
\* for a mutex that every publisher gives back.
ProbeAnswered == \A p \in Probe : (probe[p] # "idle") ~> (probe[p] = "idle" \/ broker = "stalled")

\* Once Redis, RabbitMQ and the connection are up and stay up, a process that
\* keeps serving is ready in the end and stays so: no outage and no late answer
\* leaves a lasting mark, and maintenance mode does not count as one.
ReadyAgain ==
    <>[](main = "serve" /\ redis = "up" /\ broker = "up" /\ link = "up") => <>[]ready

\* A process whose channel is closed, or whose publishers do not get through,
\* does not go on being called ready.
OutOfServiceIsNoticed ==
    (main = "serve" /\ (link = "down" \/ (broker = "stalled" /\ holder # NoWorker)))
        ~> (~ready \/ (link = "up" /\ broker # "stalled"))

\* SC-004 of the login backoff, to the letter: while its storage is unavailable
\* login attempts still proceed without interruption.
RedisOutageKeepsLogins ==
    [][redis' = "down" /\ main' = "serve" /\ LoginOutcome = "decided"
        => LoginOutcome' = "decided"]_podVars

\* The error table of the verification webhook: an unavailable RabbitMQ is
\* answered with HTTP 200, all the more when it is back.
WebhooksStayAnswered ==
    <>[](main = "serve" /\ ~maintenance /\ redis = "up" /\ broker = "up") => []<>WebhookAnswered

================================================================================
