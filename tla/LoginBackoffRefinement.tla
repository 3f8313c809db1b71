------------------------ MODULE LoginBackoffRefinement ------------------------
(***************************************************************************)
(* The login-backoff service implements the fixed-window limiter.  What is  *)
(* spent is the counter in Redis; a ruling is what the handler will make of *)
(* the reply it holds.  Everything else the service does is a stutter.      *)
(***************************************************************************)
EXTENDS LoginBackoff

Spent == [k \in Key |-> db[k].count]

Ruling == [r \in Request |->
    IF step[r] # "verdict" THEN "none"
    ELSE IF Verdict(reply[r].id, reply[r].ip).outcome = "allowed" THEN "granted"
    ELSE "refused"]

Limiter == INSTANCE FixedWindowLimiter
             WITH Budget <- MaxAttempts, Cap <- CountCap, spent <- Spent, ruling <- Ruling

\* The service, its retries, lost replies and resets included, implements the
\* limiter: a request is let through on a reply exactly if every key it was
\* counted under is within its budget, and every window opened closes whole.
ImplementsLimiter == Limiter!Spec

==============================================================================
