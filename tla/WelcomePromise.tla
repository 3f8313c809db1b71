----------------------------- MODULE WelcomePromise -----------------------------
(***************************************************************************)
(* What the verification webhook promises, without workers, Redis or a      *)
(* broker.  An identity is sent at most AtMost welcomes, unless it is       *)
(* excused from the bound because a failure kept its mark from being seen   *)
(* or set.  It is settled, so that later webhooks send it nothing, only     *)
(* once a welcome is on its way or received.  A welcome on its way is       *)
(* received, unless the connection breaks first.                            *)
(***************************************************************************)
EXTENDS Naturals

CONSTANTS
    Identity,
    AtMost          \* welcomes an identity may be sent

VARIABLES
    sent,           \* welcomes sent, per identity
    transit,        \* welcomes on their way
    received,       \* welcomes that have reached the notifications service
    settled,        \* the identities that need no further welcome
    excused,        \* the identities whose mark a failure has hidden
    broken          \* whether the connection or the broker has failed yet

vars == <<sent, transit, received, settled, excused, broken>>

Nobody == [i \in Identity |-> 0]

Init ==
    /\ sent = Nobody
    /\ transit = Nobody
    /\ received = Nobody
    /\ settled = {}
    /\ excused = {}
    /\ broken = FALSE

Send(i) ==
    /\ sent[i] < AtMost \/ i \in excused
    /\ sent' = [sent EXCEPT ![i] = @ + 1]
    /\ transit' = [transit EXCEPT ![i] = @ + 1]
    /\ UNCHANGED <<received, settled, excused, broken>>

Deliver(i) ==
    /\ transit[i] > 0
    /\ transit' = [transit EXCEPT ![i] = @ - 1]
    /\ received' = [received EXCEPT ![i] = @ + 1]
    /\ UNCHANGED <<sent, settled, excused, broken>>

Settle(i) ==
    /\ broken \/ transit[i] + received[i] > 0
    /\ settled' = settled \union {i}
    /\ UNCHANGED <<sent, transit, received, excused, broken>>

Excuse(I) ==
    /\ excused' = excused \union I
    /\ UNCHANGED <<sent, transit, received, settled, broken>>

\* Some of what is on its way is lost.
Break ==
    /\ broken' = TRUE
    /\ transit' \in [Identity -> Nat]
    /\ \A i \in Identity : transit'[i] <= transit[i]
    /\ UNCHANGED <<sent, received, settled, excused>>

Next ==
    \/ \E i \in Identity : Send(i) \/ Deliver(i) \/ Settle(i)
    \/ \E I \in SUBSET Identity : Excuse(I)
    \/ Break

Spec == Init /\ [][Next]_vars /\ \A i \in Identity : WF_vars(Deliver(i))

==============================================================================
