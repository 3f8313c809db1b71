-------------------------- MODULE FixedWindowLimiter --------------------------
(***************************************************************************)
(* What the login backoff promises, without Redis, replies or a clock.      *)
(* Every key has a window, open while something was spent in it.  A request *)
(* is charged to all of its keys at once and granted exactly if each of     *)
(* them is within its budget.  A window only closes whole: what was spent   *)
(* in it is never given back bit by bit.  Every open window closes.         *)
(***************************************************************************)
EXTENDS Naturals

CONSTANTS
    Key, Request,
    Budget(_),      \* the attempts a key has in one window
    Cap             \* bound: what is spent from here on is not told apart

VARIABLES
    spent,          \* attempts charged to each key's open window
    ruling          \* the ruling on each request, while it is being carried out

vars == <<spent, ruling>>

Init ==
    /\ spent = [k \in Key |-> 0]
    /\ ruling = [r \in Request |-> "none"]

Charged(K) == [k \in Key |-> IF k \in K /\ spent[k] < Cap THEN spent[k] + 1 ELSE spent[k]]

\* A request is charged to its keys and ruled upon.
Rule(r, K) ==
    /\ ruling[r] = "none"
    /\ K # {}
    /\ spent' = Charged(K)
    /\ ruling' = [ruling EXCEPT ![r] = IF \A k \in K : Charged(K)[k] <= Budget(k)
                                         THEN "granted" ELSE "refused"]

\* A request is charged but nobody learns of the ruling.
Waste(K) ==
    /\ K # {}
    /\ spent' = Charged(K)
    /\ UNCHANGED ruling

\* The ruling on r has been carried out.
Complete(r) ==
    /\ ruling[r] # "none"
    /\ ruling' = [ruling EXCEPT ![r] = "none"]
    /\ UNCHANGED spent

\* The windows of K close, by their age, by a successful login, or by a fault.
Close(K) ==
    /\ spent' = [k \in Key |-> IF k \in K THEN 0 ELSE spent[k]]
    /\ UNCHANGED ruling

Next ==
    \/ \E r \in Request : Complete(r) \/ \E K \in SUBSET Key : Rule(r, K)
    \/ \E K \in SUBSET Key : Waste(K) \/ Close(K)

WindowCloses(k) == spent[k] > 0 /\ \E K \in SUBSET Key : k \in K /\ Close(K)

Spec == Init /\ [][Next]_vars /\ \A k \in Key : WF_vars(WindowCloses(k))

==============================================================================
