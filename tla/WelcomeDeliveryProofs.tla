------------------------- MODULE WelcomeDeliveryProofs -------------------------
(***************************************************************************)
(* Where welcomes are, for any number of workers and identities: the        *)
(* service beside the broker steps as the service alone does, nothing is    *)
(* lost before something breaks, nobody is marked whose welcome is not on   *)
(* its way, the bound on duplicates, and that all this is the promise of    *)
(* WelcomePromise, its fairness apart.                                      *)
(***************************************************************************)
EXTENDS WelcomeDeliveryRefinement, EventWebhooksProofs, FiniteSetTheorems

\* Every step of the service and the broker is a step of the service of
\* EventWebhooks, or leaves it alone.
LEMMA ServiceSteps == [DeliveryNext]_allVars => [Next]_vars
<1> SUFFICES ASSUME [DeliveryNext]_allVars PROVE [Next]_vars
  OBVIOUS
<1>1. CASE ServiceStep
  BY <1>1 DEF ServiceStep, Next, Advance
<1>2. ASSUME NEW w \in Worker, LookUp(w) \/ PublishWelcome(w) \/ Remember(w) PROVE [Next]_vars
  BY <1>2 DEF LookUp, PublishWelcome, Remember, Next, Advance
<1>3. CASE BreakLink \/ RestartBroker \/ Die
  BY <1>3 DEF BreakLink, RestartBroker, Die, Next
<1>4. ASSUME NEW i \in Identity, Arrive(i) \/ Consume(i) PROVE [Next]_vars
  BY <1>4 DEF Arrive, Consume
<1>5. CASE UNCHANGED allVars
  BY <1>5 DEF allVars
<1> QED BY <1>1, <1>2, <1>3, <1>4, <1>5 DEF DeliveryNext

\* Beside the broker the service is that of EventWebhooks: what is proved of every
\* behaviour of its holds with a connection and a broker that fail.
THEOREM DeliveryRunsWebhooks == DeliverySpec => Init /\ [][Next]_vars
BY ServiceSteps, PTL DEF DeliverySpec, DeliveryInit

\* Kratos is told "success" or "skipped" only of an identity whose welcome was
\* written to the channel, though it may be lost on the way from there.
THEOREM DeliveryAnswersAreTrue == DeliverySpec => AnsweredTruthfully
BY DeliveryRunsWebhooks, WebhooksAnswerTruthfully

\* Only the publish of a welcome changes what was written to the channel.
LEMMA ServiceEmitsNothing == ServiceStep => UNCHANGED emitted
BY DEF ServiceStep, ReceiveVerification, ReceivePasswordChanged, Receive, ReceiveInvalid,
       Lock, SendPasswordChanged, HangUp

\* The service's own invariants hold beside the broker.
LEMMA ServiceInvariant == DeliverySpec => [](TypeInv /\ TraceInv)
<1>1. DeliveryInit => TypeInv /\ TraceInv
  BY WebhookAssumption DEF DeliveryInit, Init, TypeInv, TypeOK, JobInv, TraceInv, MarkedWasEmitted
<1>2. TypeInv /\ TraceInv /\ [DeliveryNext]_allVars => (TypeInv /\ TraceInv)'
  BY ServiceSteps, NextType, NextTrace
<1> QED BY <1>1, <1>2, PTL DEF DeliverySpec

\* Welcomes are neither lost nor invented on their way before something breaks,
\* and never invented.
LEMMA NextDelivery ==
    TypeInv /\ DeliveryTypeOK /\ [DeliveryNext]_allVars => DeliveryTypeOK'
<1> SUFFICES ASSUME TypeInv, DeliveryTypeOK, [DeliveryNext]_allVars PROVE DeliveryTypeOK'
  OBVIOUS
<1>0. emitted \in [Identity -> Nat]
  BY DEF TypeInv, TypeOK
<1>1. CASE ServiceStep
  <2>1. UNCHANGED <<emitted, wire, queue, received, failed, missed>>
    BY <1>1, ServiceEmitsNothing DEF ServiceStep, brokerVars, ghosts
  <2> QED BY <2>1 DEF DeliveryTypeOK, OnItsWay
<1>2. ASSUME NEW w \in Worker, PublishWelcome(w) PROVE DeliveryTypeOK'
  <2>1. job[w] \in Identity
    BY <1>2, WebhookAssumption DEF PublishWelcome, SendWelcome, TypeInv, TypeOK, JobInv
  <2>2. CASE link = "up"
    <3>1. /\ emitted' = [emitted EXCEPT ![job[w]] = @ + 1]
          /\ wire' = [wire EXCEPT ![job[w]] = @ + 1]
          /\ UNCHANGED <<queue, received, failed, missed>>
      BY <1>2, <2>2 DEF PublishWelcome, SendWelcome, ghosts
    <3>2. emitted' \in [Identity -> Nat] /\ wire' \in [Identity -> Nat]
      BY <1>0, <2>1, <3>1 DEF DeliveryTypeOK
    <3>3. \A i \in Identity : OnItsWay(i)' - OnItsWay(i) = emitted'[i] - emitted[i]
      BY <1>0, <2>1, <3>1, <3>2 DEF DeliveryTypeOK, OnItsWay
    <3>4. \A i \in Identity : OnItsWay(i) \in Nat /\ OnItsWay(i)' \in Nat
      BY <3>1, <3>2 DEF DeliveryTypeOK, OnItsWay
    <3> QED BY <1>0, <3>1, <3>2, <3>3, <3>4 DEF DeliveryTypeOK
  <2>3. CASE link # "up"
    BY <1>2, <2>3 DEF PublishWelcome, SendWelcome, DeliveryTypeOK, OnItsWay, ghosts
  <2> QED BY <2>2, <2>3
<1>3. ASSUME NEW i \in Identity, Arrive(i) PROVE DeliveryTypeOK'
  <2>1. UNCHANGED <<emitted, received, failed, missed>>
    BY <1>3 DEF Arrive, vars, ghosts
  <2>2. wire[i] > 0 /\ wire' = [wire EXCEPT ![i] = @ - 1] /\ queue' = [queue EXCEPT ![i] = @ + 1]
    BY <1>3 DEF Arrive
  <2> QED BY <1>0, <2>1, <2>2 DEF DeliveryTypeOK, OnItsWay
<1>4. ASSUME NEW i \in Identity, Consume(i) PROVE DeliveryTypeOK'
  <2>1. UNCHANGED <<emitted, wire, failed, missed>>
    BY <1>4 DEF Consume, vars, ghosts
  <2>2. /\ queue[i] > 0 /\ queue' = [queue EXCEPT ![i] = @ - 1]
        /\ received' = [received EXCEPT ![i] = @ + 1]
    BY <1>4 DEF Consume
  <2> QED BY <1>0, <2>1, <2>2 DEF DeliveryTypeOK, OnItsWay
<1>5. CASE BreakLink \/ RestartBroker
  <2>1. /\ UNCHANGED <<emitted, received, missed>> /\ wire' = Nothing
        /\ failed' = failed \union {"link"}
        /\ queue' = queue \/ queue' = Nothing
    BY <1>5 DEF BreakLink, RestartBroker, LoseLink
  <2>2. \A i \in Identity : OnItsWay(i) <= emitted[i]
    BY <1>0 DEF DeliveryTypeOK, OnItsWay
  <2> QED BY <1>0, <2>1, <2>2 DEF DeliveryTypeOK, OnItsWay, Nothing
<1>6. ASSUME NEW w \in Worker, LookUp(w) \/ Remember(w) PROVE DeliveryTypeOK'
  <2>1. job[w] \in Identity
    BY <1>6, WebhookAssumption DEF LookUp, Remember, Check, Mark, TypeInv, TypeOK, JobInv
  <2>2. UNCHANGED <<emitted, wire, queue, received, failed>> /\ missed' \subseteq Identity
    BY <1>6, <2>1 DEF LookUp, Remember, Check, Mark, brokerVars, DeliveryTypeOK
  <2> QED BY <2>2 DEF DeliveryTypeOK, OnItsWay
<1>7. CASE Die
  <2>1. \A w \in Worker : pc[w] = "mark" => job[w] \in Identity
    BY WebhookAssumption DEF TypeInv, TypeOK, JobInv
  <2>2. /\ UNCHANGED <<emitted, wire, queue, received>> /\ missed' \subseteq Identity
        /\ failed' = failed \union {"process"}
    BY <1>7, <2>1 DEF Die, Crash, brokerVars, DeliveryTypeOK
  <2> QED BY <2>2 DEF DeliveryTypeOK, OnItsWay
<1>8. CASE UNCHANGED allVars
  BY <1>8 DEF allVars, vars, brokerVars, ghosts, DeliveryTypeOK, OnItsWay
<1> QED BY <1>1, <1>2, <1>3, <1>4, <1>5, <1>6, <1>7, <1>8 DEF DeliveryNext

\* Every welcome written is on the connection, in the queue or consumed until a
\* connection or the broker fails; nothing is delivered that was not written.
THEOREM WelcomesAreConserved == DeliverySpec => []DeliveryTypeOK
<1>1. DeliveryInit => DeliveryTypeOK
  <2> SUFFICES ASSUME DeliveryInit PROVE DeliveryTypeOK
    OBVIOUS
  <2>1. Nothing \in [Identity -> Nat] /\ \A i \in Identity : Nothing[i] = 0
    BY DEF Nothing
  <2>2. /\ wire = Nothing /\ queue = Nothing /\ received = Nothing
        /\ emitted = Nothing /\ failed = {} /\ missed = {}
    BY DEF DeliveryInit, Init, Nothing
  <2>3. \A i \in Identity : OnItsWay(i) = 0 /\ emitted[i] = 0
    BY <2>1, <2>2 DEF OnItsWay
  <2> QED BY <2>1, <2>2, <2>3 DEF DeliveryTypeOK
<1> QED BY <1>1, NextDelivery, ServiceInvariant, PTL DEF DeliverySpec

\* Whatever the service itself goes through, a mark is never ahead of the
\* welcome: short of a failure of the connection or the broker, an identity
\* that no later webhook will be welcomed for has a welcome on its way.
THEOREM MarksFollowWelcomes == DeliverySpec => []MarkedIsOnItsWay
<1>1. TypeInv /\ TraceInv /\ DeliveryTypeOK => MarkedIsOnItsWay
  BY DEF TypeInv, TypeOK, TraceInv, MarkedWasEmitted, DeliveryTypeOK, MarkedIsOnItsWay
<1> QED BY <1>1, ServiceInvariant, WelcomesAreConserved, PTL

------------------------------------------------------------------------------
(* The bound on duplicate welcomes *)

\* Who is past the check for i but has not written its welcome.
Busy(i) == {w \in Worker : job[w] = i /\ kind[w] = "verification" /\ pc[w] \in {"publish", "send"}}

\* Who has written it and not yet marked i.
Marking(i) == {w \in Worker : job[w] = i /\ pc[w] = "mark"}

\* Before the first mark, every welcome of i belongs to a worker that is still
\* about to mark it; from then on, only those that had passed the check can
\* add one.
Bounded(i) ==
    IF i \in marked THEN emitted[i] + Cardinality(Busy(i)) <= Cardinality(Worker)
                    ELSE emitted[i] <= Cardinality(Marking(i))

DupInv == \A i \in Identity \ missed : Bounded(i)

\* The workers on one identity that are busy with its welcome and those about
\* to mark it are different workers, so no more than there are.
LEMMA Crew ==
    ASSUME IsFiniteSet(Worker), NEW i
    PROVE  /\ IsFiniteSet(Busy(i)) /\ IsFiniteSet(Marking(i))
           /\ Cardinality(Worker) \in Nat
           /\ Cardinality(Busy(i)) \in Nat /\ Cardinality(Marking(i)) \in Nat
           /\ Cardinality(Busy(i)) + Cardinality(Marking(i)) <= Cardinality(Worker)
<1>1. Busy(i) \subseteq Worker /\ Marking(i) \subseteq Worker
  BY DEF Busy, Marking
<1>2. IsFiniteSet(Busy(i)) /\ IsFiniteSet(Marking(i))
  BY <1>1, FS_Subset
<1>3. Busy(i) \intersect Marking(i) = {}
  BY DEF Busy, Marking
<1>4. Cardinality(Busy(i) \union Marking(i))
        = Cardinality(Busy(i)) + Cardinality(Marking(i)) - Cardinality({})
  BY <1>2, <1>3, FS_Union
<1>5. Cardinality({}) = 0
  BY FS_EmptySet
<1>6. Cardinality(Busy(i) \union Marking(i)) <= Cardinality(Worker)
  BY <1>1, FS_Subset
<1>7. /\ Cardinality(Worker) \in Nat
      /\ Cardinality(Busy(i)) \in Nat /\ Cardinality(Marking(i)) \in Nat
  BY <1>2, FS_CardinalityType
<1> QED BY <1>2, <1>4, <1>5, <1>6, <1>7

\* A step that leaves the mark and the welcomes of i and the workers about to
\* mark it as they are, and lets nobody pass the check of i once it is marked,
\* keeps the bound.
LEMMA SameCrew ==
    ASSUME IsFiniteSet(Worker), TypeInv, NEW i \in Identity, Bounded(i),
           i \in marked' <=> i \in marked, emitted'[i] = emitted[i],
           i \in marked => Busy(i)' \subseteq Busy(i),
           i \notin marked => Marking(i)' = Marking(i)
    PROVE  Bounded(i)'
<1>1. emitted[i] \in Nat
  BY DEF TypeInv, TypeOK
<1>2. CASE i \in marked
  <2>1. IsFiniteSet(Busy(i)')
    BY <1>2, Crew, FS_Subset
  <2>2. Cardinality(Busy(i)') <= Cardinality(Busy(i))
    BY <1>2, Crew, FS_Subset
  <2>3. /\ Cardinality(Busy(i)') \in Nat
        /\ Cardinality(Busy(i)) \in Nat /\ Cardinality(Worker) \in Nat
    BY <2>1, Crew, FS_CardinalityType
  <2> QED BY <1>1, <1>2, <2>2, <2>3 DEF Bounded
<1>3. CASE i \notin marked
  BY <1>3 DEF Bounded
<1> QED BY <1>2, <1>3

\* No step takes the welcomes of an identity beyond the bound: one that would
\* is a failure that has kept its mark from being seen or set.
LEMMA NextDup ==
    ASSUME IsFiniteSet(Worker), TypeInv, DupInv, [DeliveryNext]_allVars
    PROVE  DupInv'
<1> USE WebhookAssumption
<1> SUFFICES ASSUME NEW i \in Identity, i \notin missed' PROVE Bounded(i)'
  BY DEF DupInv
<1>0. i \notin missed => Bounded(i)
  BY DEF DupInv
<1>1. CASE ServiceStep
  <2>1. Bounded(i) /\ marked' = marked /\ emitted' = emitted
    BY <1>0, <1>1 DEF ServiceStep, ghosts, ReceiveVerification, ReceivePasswordChanged, Receive,
                      ReceiveInvalid, Lock, SendPasswordChanged, HangUp
  <2>2. Busy(i)' \subseteq Busy(i) /\ Marking(i)' = Marking(i)
    <3>1. ASSUME NEW w \in Worker, NEW j \in Identity,
                 ReceiveVerification(w, j) \/ ReceivePasswordChanged(w, j)
          PROVE  Busy(i)' \subseteq Busy(i) /\ Marking(i)' = Marking(i)
      BY <3>1 DEF TypeInv, TypeOK, JobInv, ReceiveVerification, ReceivePasswordChanged, Receive,
                  Busy, Marking
    <3>2. ASSUME NEW w \in Worker, ReceiveInvalid(w) \/ SendPasswordChanged(w)
          PROVE  Busy(i)' \subseteq Busy(i) /\ Marking(i)' = Marking(i)
      BY <3>2 DEF TypeInv, TypeOK, JobInv, ReceiveInvalid, SendPasswordChanged, Respond,
                  Busy, Marking
    <3>3. ASSUME NEW w \in Worker, Lock(w) \/ HangUp(w)
          PROVE  Busy(i)' \subseteq Busy(i) /\ Marking(i)' = Marking(i)
      BY <3>3 DEF TypeInv, TypeOK, JobInv, Lock, Goto, HangUp, Busy, Marking
    <3> QED BY <1>1, <3>1, <3>2, <3>3 DEF ServiceStep
  <2> QED BY <2>1, <2>2, SameCrew
<1>2. ASSUME NEW w \in Worker, LookUp(w) PROVE Bounded(i)'
  <2>1. Bounded(i) /\ marked' = marked /\ emitted' = emitted
    BY <1>0, <1>2 DEF LookUp, Check
  <2>2. Marking(i)' = Marking(i)
    BY <1>2 DEF LookUp, Check, Respond, Goto, TypeInv, TypeOK, Marking
  <2>3. ASSUME i \in marked PROVE Busy(i)' \subseteq Busy(i)
    <3>1. job[w] = i => Respond(w, "skipped")
      BY <1>2, <2>3 DEF LookUp, Check
    <3> QED BY <1>2, <3>1 DEF LookUp, Check, Respond, Goto, TypeInv, TypeOK, Busy
  <2> QED BY <2>1, <2>2, <2>3, SameCrew
<1>3. ASSUME NEW w \in Worker, PublishWelcome(w) PROVE Bounded(i)'
  <2>0. Bounded(i) /\ marked' = marked /\ pc[w] = "send" /\ kind[w] = "verification"
    BY <1>0, <1>3 DEF PublishWelcome, SendWelcome, ghosts
  <2>1. CASE emitted' = [emitted EXCEPT ![job[w]] = @ + 1] /\ Goto(w, "mark") /\ job[w] = i
    <3>1. pc' = [pc EXCEPT ![w] = "mark"] /\ UNCHANGED <<job, kind>>
      BY <2>1 DEF Goto
    <3>2. /\ w \in Busy(i) /\ w \notin Marking(i)
          /\ Busy(i)' = Busy(i) \ {w} /\ Marking(i)' = Marking(i) \union {w}
      BY <2>0, <2>1, <3>1 DEF TypeInv, TypeOK, Busy, Marking
    <3>3. /\ Cardinality(Busy(i)') = Cardinality(Busy(i)) - 1
          /\ Cardinality(Marking(i)') = Cardinality(Marking(i)) + 1
      <4>1. IsFiniteSet(Busy(i)) /\ IsFiniteSet(Marking(i))
        BY Crew
      <4>2. Cardinality(Busy(i) \ {w}) = Cardinality(Busy(i)) - 1
        BY <3>2, <4>1, FS_RemoveElement
      <4>3. Cardinality(Marking(i) \union {w}) = Cardinality(Marking(i)) + 1
        BY <3>2, <4>1, FS_AddElement
      <4> QED BY <3>2, <4>2, <4>3
    <3>4. emitted'[i] = emitted[i] + 1
      BY <2>1 DEF TypeInv, TypeOK
    <3>5. /\ Cardinality(Worker) \in Nat /\ Cardinality(Busy(i)) \in Nat
          /\ Cardinality(Marking(i)) \in Nat /\ emitted[i] \in Nat
      BY Crew DEF TypeInv, TypeOK
    <3> QED BY <2>0, <3>3, <3>4, <3>5 DEF Bounded
  <2>2. CASE emitted' = [emitted EXCEPT ![job[w]] = @ + 1] /\ Goto(w, "mark") /\ job[w] # i
    <3>1. Busy(i)' = Busy(i) /\ Marking(i)' = Marking(i) /\ emitted'[i] = emitted[i]
      BY <2>2 DEF Goto, TypeInv, TypeOK, Busy, Marking
    <3> QED BY <2>0, <3>1, SameCrew
  <2>3. CASE Respond(w, "error") /\ UNCHANGED emitted
    <3>1. Busy(i)' \subseteq Busy(i) /\ Marking(i)' = Marking(i)
      BY <2>0, <2>3 DEF TypeInv, TypeOK, JobInv, Respond, Busy, Marking
    <3> QED BY <2>0, <2>3, <3>1, SameCrew
  <2> QED BY <1>3, <2>1, <2>2, <2>3 DEF PublishWelcome, SendWelcome
<1>4. ASSUME NEW w \in Worker, Remember(w) PROVE Bounded(i)'
  <2>0. Bounded(i) /\ emitted' = emitted /\ Busy(i)' = Busy(i)
    BY <1>0, <1>4 DEF Remember, Mark, Respond, TypeInv, TypeOK, JobInv, Busy
  <2>1. CASE job[w] = i
    <3>1. i \in marked'
      BY <1>4, <2>1 DEF Remember, Mark
    <3>2. /\ Cardinality(Worker) \in Nat /\ Cardinality(Busy(i)) \in Nat
          /\ Cardinality(Marking(i)) \in Nat /\ emitted[i] \in Nat
          /\ Cardinality(Busy(i)) + Cardinality(Marking(i)) <= Cardinality(Worker)
      BY Crew DEF TypeInv, TypeOK
    <3>3. emitted[i] + Cardinality(Busy(i)) <= Cardinality(Worker)
      BY <2>0, <3>2 DEF Bounded
    <3> QED BY <2>0, <3>1, <3>3 DEF Bounded
  <2>2. CASE job[w] # i
    <3>1. Marking(i)' = Marking(i) /\ (i \in marked' <=> i \in marked)
      BY <1>4, <2>2 DEF Remember, Mark, Respond, TypeInv, TypeOK, Marking
    <3> QED BY <2>0, <3>1, SameCrew
  <2> QED BY <2>1, <2>2
<1>5. CASE Die
  <2>0. Bounded(i) /\ marked' = marked /\ emitted' = emitted
    BY <1>0, <1>5 DEF Die, Crash
  <2>1. Busy(i)' = {} /\ Marking(i)' = {}
    BY <1>5 DEF Die, Crash, Busy, Marking
  <2>2. i \notin marked => Marking(i) = {}
    BY <1>5 DEF Die, Marking
  <2> QED BY <2>0, <2>1, <2>2, SameCrew
<1>6. ASSUME NEW j \in Identity, Arrive(j) \/ Consume(j) PROVE Bounded(i)'
  <2>1. Bounded(i) /\ UNCHANGED vars
    BY <1>0, <1>6 DEF Arrive, Consume, ghosts
  <2> QED BY <2>1 DEF vars, worker, Bounded, Busy, Marking
<1>7. CASE BreakLink \/ RestartBroker \/ UNCHANGED allVars
  <2>1. Bounded(i) /\ UNCHANGED <<worker, marked, emitted>>
    BY <1>0, <1>7 DEF BreakLink, RestartBroker, LoseLink, allVars, vars, ghosts
  <2> QED BY <2>1 DEF worker, Bounded, Busy, Marking
<1> QED BY <1>1, <1>2, <1>3, <1>4, <1>5, <1>6, <1>7 DEF DeliveryNext

\* CheckWelcomeSent and MarkWelcomeSent are two steps, so duplicates exist; but
\* an identity whose mark no failure has hidden or prevented is welcomed at
\* most once per request that can be in flight, for any number of deliveries,
\* whatever hangs up, breaks, crashes or restarts beside it.
THEOREM DuplicatesAreBounded ==
    ASSUME IsFiniteSet(Worker)
    PROVE  DeliverySpec => []DuplicatesBounded
<1>1. DeliveryInit => DupInv
  <2> SUFFICES ASSUME DeliveryInit, NEW i \in Identity PROVE emitted[i] <= Cardinality(Marking(i))
    BY DEF DeliveryInit, Init, DupInv, Bounded
  <2> QED BY Crew DEF DeliveryInit, Init
<1>2. TypeInv /\ DupInv /\ [DeliveryNext]_allVars => DupInv'
  BY NextDup
<1>3. TypeInv /\ DupInv => DuplicatesBounded
  <2> SUFFICES ASSUME TypeInv, DupInv, NEW i \in Identity \ missed
               PROVE  emitted[i] <= Cardinality(Worker)
    BY DEF DuplicatesBounded
  <2>1. /\ Cardinality(Worker) \in Nat /\ Cardinality(Busy(i)) \in Nat
        /\ Cardinality(Marking(i)) \in Nat /\ emitted[i] \in Nat
        /\ Cardinality(Busy(i)) + Cardinality(Marking(i)) <= Cardinality(Worker)
    BY Crew DEF TypeInv, TypeOK
  <2>2. \/ emitted[i] + Cardinality(Busy(i)) <= Cardinality(Worker)
        \/ emitted[i] <= Cardinality(Marking(i))
    BY DEF DupInv, Bounded
  <2> QED BY <2>1, <2>2
<1> QED BY <1>1, <1>2, <1>3, ServiceInvariant, PTL DEF DeliverySpec

------------------------------------------------------------------------------
(* The promise.  Each step of the service and the broker is one of the       *)
(* abstract specification or leaves its variables alone.                    *)

\* A step that leaves alone what is sent, on its way, received and settled is
\* at most an excuse.
LEMMA OnlyExcuses ==
    ASSUME UNCHANGED <<emitted, wire, queue, received, marked>>,
           "link" \in failed' <=> "link" \in failed,
           missed \subseteq missed', missed' \subseteq Identity
    PROVE  Promise!Next
<1>1. UNCHANGED Transit
  BY DEF Transit
<1>2. Promise!Excuse(missed')
  BY <1>1 DEF Promise!Excuse
<1> QED BY <1>2 DEF Promise!Next

\* What is on its way, as the promise counts it.
LEMMA TransitType ==
    DeliveryTypeOK => /\ Transit \in [Identity -> Nat]
                      /\ \A i \in Identity : OnItsWay(i) = Transit[i] + received[i]
BY DEF DeliveryTypeOK, Transit, OnItsWay

\* A welcome is published only to one who may still be sent one, an identity is
\* marked only with a welcome on its way, and nothing on its way is lost unless
\* something breaks.
LEMMA NextPromise ==
    ASSUME IsFiniteSet(Worker), TypeInv, TraceInv, DeliveryTypeOK, DeliveryTypeOK',
           DuplicatesBounded', [DeliveryNext]_allVars
    PROVE  [Promise!Next]_(Promise!vars)
<1> USE WebhookAssumption
<1>0. /\ emitted \in [Identity -> Nat] /\ wire \in [Identity -> Nat]
      /\ queue \in [Identity -> Nat] /\ received \in [Identity -> Nat]
      /\ Transit \in [Identity -> Nat] /\ Transit' \in [Identity -> Nat]
      /\ missed \subseteq Identity /\ missed' \subseteq Identity
  <2>1. Transit' \in [Identity -> Nat]
    BY DEF DeliveryTypeOK, Transit
  <2> QED BY <2>1, TransitType DEF TypeInv, TypeOK, DeliveryTypeOK
<1>1. CASE ServiceStep
  <2>1. UNCHANGED <<emitted, marked, brokerVars, ghosts>>
    BY <1>1, ServiceEmitsNothing DEF ServiceStep, ReceiveVerification, ReceivePasswordChanged,
       Receive, ReceiveInvalid, Lock, SendPasswordChanged, HangUp
  <2> QED BY <1>0, <2>1, OnlyExcuses DEF brokerVars, ghosts
<1>2. ASSUME NEW w \in Worker, LookUp(w) PROVE Promise!Next
  BY <1>0, <1>2, OnlyExcuses DEF LookUp, Check, brokerVars
<1>3. ASSUME NEW w \in Worker, PublishWelcome(w) PROVE [Promise!Next]_(Promise!vars)
  <2>1. job[w] \in Identity
    BY <1>3 DEF PublishWelcome, SendWelcome, TypeInv, TypeOK, JobInv
  <2>2. UNCHANGED <<queue, received, marked, failed, missed>>
    BY <1>3 DEF PublishWelcome, SendWelcome, ghosts
  <2>3. CASE link = "up"
    <3>1. /\ emitted' = [emitted EXCEPT ![job[w]] = @ + 1]
          /\ wire' = [wire EXCEPT ![job[w]] = @ + 1]
      BY <1>3, <2>3 DEF PublishWelcome, SendWelcome
    <3>2. Transit' = [Transit EXCEPT ![job[w]] = @ + 1]
      BY <1>0, <2>1, <2>2, <3>1 DEF Transit
    <3>3. emitted[job[w]] < Cardinality(Worker) \/ job[w] \in missed
      <4>1. job[w] \notin missed => emitted[job[w]] + 1 <= Cardinality(Worker)
        BY <1>0, <2>1, <2>2, <3>1 DEF DuplicatesBounded
      <4>2. Cardinality(Worker) \in Nat /\ emitted[job[w]] \in Nat
        BY <1>0, <2>1, FS_CardinalityType
      <4> QED BY <4>1, <4>2
    <3>4. Promise!Send(job[w])
      BY <2>2, <3>1, <3>2, <3>3 DEF Promise!Send
    <3> QED BY <2>1, <3>4 DEF Promise!Next
  <2>4. CASE link # "up"
    <3>1. UNCHANGED <<emitted, wire>>
      BY <1>3, <2>4 DEF PublishWelcome, SendWelcome
    <3> QED BY <1>0, <2>2, <3>1, OnlyExcuses
  <2> QED BY <2>3, <2>4
<1>4. ASSUME NEW w \in Worker, Remember(w) PROVE Promise!Next
  <2>1. /\ job[w] \in Identity /\ pc[w] = "mark"
        /\ UNCHANGED <<emitted, wire, queue, received, failed>>
    BY <1>4 DEF Remember, Mark, brokerVars, TypeInv, TypeOK, JobInv
  <2>2. CASE marked' = marked \union {job[w]}
    <3>1. UNCHANGED <<missed, Transit>>
      BY <1>4, <2>1, <2>2 DEF Remember, Transit
    <3>2. emitted[job[w]] > 0
      BY <2>1 DEF TraceInv
    <3>3. "link" \in failed \/ Transit[job[w]] + received[job[w]] > 0
      BY <2>1, <3>2, TransitType DEF DeliveryTypeOK
    <3>4. Promise!Settle(job[w])
      BY <2>1, <2>2, <3>1, <3>3 DEF Promise!Settle
    <3> QED BY <2>1, <3>4 DEF Promise!Next
  <2>3. CASE marked' = marked
    BY <1>0, <1>4, <2>1, <2>3, OnlyExcuses DEF Remember
  <2> QED BY <1>4, <2>2, <2>3 DEF Remember, Mark
<1>5. ASSUME NEW i \in Identity, Arrive(i) PROVE [Promise!Next]_(Promise!vars)
  <2>1. /\ UNCHANGED <<emitted, marked, received, failed, missed>>
        /\ wire[i] > 0 /\ wire' = [wire EXCEPT ![i] = @ - 1]
        /\ queue' = [queue EXCEPT ![i] = @ + 1]
    BY <1>5 DEF Arrive, vars, ghosts
  <2>2. Transit' = Transit
    BY <1>0, <2>1 DEF Transit
  <2> QED BY <2>1, <2>2 DEF Promise!vars
<1>6. ASSUME NEW i \in Identity, Consume(i) PROVE Promise!Next
  <2>1. /\ UNCHANGED <<emitted, marked, wire, failed, missed>>
        /\ queue[i] > 0 /\ queue' = [queue EXCEPT ![i] = @ - 1]
        /\ received' = [received EXCEPT ![i] = @ + 1]
    BY <1>6 DEF Consume, vars, ghosts
  <2>2. Transit[i] > 0 /\ Transit' = [Transit EXCEPT ![i] = @ - 1]
    <3>1. \A j \in Identity : /\ wire[j] \in Nat /\ queue[j] \in Nat
                              /\ Transit[j] = wire[j] + queue[j]
                              /\ queue'[j] = IF j = i THEN queue[j] - 1 ELSE queue[j]
      BY <1>0, <2>1 DEF Transit
    <3>2. \A j \in Identity : Transit'[j] = IF j = i THEN Transit[j] - 1 ELSE Transit[j]
      BY <2>1, <3>1 DEF Transit
    <3> QED BY <1>0, <2>1, <3>1, <3>2
  <2>3. Promise!Deliver(i)
    BY <2>1, <2>2 DEF Promise!Deliver
  <2> QED BY <2>3 DEF Promise!Next
<1>7. CASE BreakLink \/ RestartBroker
  <2>1. /\ UNCHANGED <<emitted, received, marked, missed>> /\ wire' = Nothing
        /\ "link" \in failed' /\ (queue' = queue \/ queue' = Nothing)
    BY <1>7 DEF BreakLink, RestartBroker, LoseLink
  <2>2. \A i \in Identity : Transit'[i] <= Transit[i]
    BY <1>0, <2>1 DEF Transit, Nothing
  <2>3. Promise!Break
    BY <1>0, <2>1, <2>2 DEF Promise!Break
  <2> QED BY <2>3 DEF Promise!Next
<1>8. CASE Die
  <2>1. /\ UNCHANGED <<emitted, wire, queue, received, marked>>
        /\ failed' = failed \union {"process"} /\ missed \subseteq missed'
    BY <1>8 DEF Die, Crash, brokerVars
  <2> QED BY <1>0, <2>1, OnlyExcuses
<1>9. CASE UNCHANGED allVars
  BY <1>0, <1>9, OnlyExcuses DEF allVars, vars, brokerVars, ghosts
<1> QED BY <1>1, <1>2, <1>3, <1>4, <1>5, <1>6, <1>7, <1>8, <1>9 DEF DeliveryNext

\* The verification webhook keeps the promise of welcomes for any number of
\* workers and identities, its fairness apart: at most as many welcomes as
\* workers unless a failure hid a mark, no mark before a welcome is on its way,
\* and no welcome lost unless the connection or the broker fails.
THEOREM WelcomesArePromised ==
    ASSUME IsFiniteSet(Worker)
    PROVE  DeliverySpec => Promise!Init /\ [][Promise!Next]_(Promise!vars)
<1>1. DeliveryInit => Promise!Init
  <2> SUFFICES ASSUME DeliveryInit PROVE Promise!Init
    OBVIOUS
  <2>1. /\ wire = Nothing /\ queue = Nothing /\ received = Nothing
        /\ emitted = Nothing /\ marked = {} /\ failed = {} /\ missed = {}
    BY DEF DeliveryInit, Init, Nothing
  <2>2. Transit = Nothing
    BY <2>1 DEF Transit, Nothing
  <2>3. Promise!Nobody = Nothing
    BY DEF Promise!Nobody, Nothing
  <2> QED BY <2>1, <2>2, <2>3 DEF Promise!Init
<1> QED
  BY <1>1, NextPromise, ServiceInvariant, WelcomesAreConserved, DuplicatesAreBounded, PTL
  DEF DeliverySpec
================================================================================
