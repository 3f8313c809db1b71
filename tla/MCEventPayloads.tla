---------------------------- MODULE MCEventPayloads ----------------------------
(***************************************************************************)
(* Values of the constants of EventPayloads for TLC: payloads that lack one *)
(* field, or hold only spaces in it, beside complete ones.                  *)
(***************************************************************************)
EXTENDS EventPayloads, TLC

MCText  == {"", " ", "ann", "x", " x", "10:00", "10:01"}
MCTrim  == (" " :> "") @@ (" x" :> "x") @@ [t \in MCText |-> t]
MCStamp == (0 :> "10:00") @@ (1 :> "10:01")

Welcome == [f \in VerificationField |-> IF f = "identity_id" THEN "ann" ELSE "x"]

MCVerificationPayload ==
    {Welcome} \union {[Welcome EXCEPT ![f] = t] : f \in VerificationField, t \in {"", " "}}

Change == [f \in PasswordField |-> IF f = "identity_id" THEN "ann" ELSE ""]

MCPasswordPayload ==
    {Change} \union {[Change EXCEPT !.identity_id = t] : t \in {"", " "}}
        \union {[Change EXCEPT !.observed_at = t] : t \in {" ", " x"}}
        \union {[Change EXCEPT !.flow_id = " x", !.client_ip = "x", !.user_agent = " "]}
================================================================================
