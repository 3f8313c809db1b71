----------------------- MODULE WelcomeDeliveryRefinement -----------------------
(***************************************************************************)
(* The verification webhook and its broker keep the promise of welcomes.    *)
(* On its way is what is on the connection or in the queue; settled is who  *)
(* is marked in Redis.  The steps of the workers between a payload and the  *)
(* publish, and the arrival of a message in the queue, are stutters.        *)
(***************************************************************************)
EXTENDS WelcomeDelivery

Transit == [i \in Identity |-> wire[i] + queue[i]]

Promise == INSTANCE WelcomePromise
             WITH AtMost <- Cardinality(Worker), sent <- emitted, transit <- Transit,
                  settled <- marked, excused <- missed, broken <- "link" \in failed

\* Workers that look up, publish and mark in separate steps, hang up, die and
\* meet a broken channel keep the promise: no identity is sent more welcomes than
\* there are workers unless a failure hid its mark, none is settled before a
\* welcome is on its way, and what is on its way arrives unless RabbitMQ fails.
KeepsPromise == Promise!Spec

==============================================================================
