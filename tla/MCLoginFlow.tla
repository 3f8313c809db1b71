----------------------------- MODULE MCLoginFlow -----------------------------
(***************************************************************************)
(* Values of the constants of LoginFlow for TLC: one account, one client    *)
(* behind a proxy "gw", and the submissions that differ in how they carry   *)
(* the identifier and the address.                                          *)
(***************************************************************************)
EXTENDS LoginFlow, TLC

MCText    == {"", "ann", "Ann", "ip", "gw", "junk"}
MCTrim    == [t \in MCText |-> t]
MCLower   == ("Ann" :> "ann") @@ [t \in MCText |-> t]
MCValidIP == {"ip", "gw"}

FromBrowser == [method |-> "password", body |-> "whole", contentType |-> {"form"}, json |-> "", form |-> "Ann",
                trueClientIp |-> <<>>, forwardedFor |-> <<"junk", "ip">>, realIp |-> <<>>,
                remoteAddr |-> "gw"]
FromApp     == [FromBrowser EXCEPT !.contentType = {"json"}, !.json = "ann", !.form = "",
                                   !.trueClientIp = <<"ip">>, !.forwardedFor = <<"gw">>]
Direct      == [FromApp EXCEPT !.trueClientIp = <<"junk">>, !.forwardedFor = <<>>]
ByProvider  == [FromBrowser EXCEPT !.method = "oidc", !.form = ""]
Cut         == [FromBrowser EXCEPT !.body = "cut", !.trueClientIp = <<"junk">>]

MCPost    == {FromBrowser, FromApp, Direct, ByProvider, Cut}
MCOnePost == {FromBrowser}
MCProviderPost == {ByProvider}

MCSymmetry == Permutations(Request)
=============================================================================
