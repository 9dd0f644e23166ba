-------------------------- MODULE MCEventProcessor --------------------------
(* Instances of EventProcessor for TLC. *)
EXTENDS EventProcessor, TLC

CONSTANTS m1, m2

TwoMsgs == {m1, m2}
MsgSymmetry == Permutations(TwoMsgs)

(* charge is listened for; refund is not. *)
TwoTypes == {"charge", "refund"}
OnlyCharge == {"charge"}

(* Of the account's endpoints two have the same path and events, one is of a Connect
   application, one is disabled and one has a URL that does not parse. *)
Endpoint(id, url, enabled, valid, application, types) ==
    [id |-> id, url |-> url, enabled |-> enabled, valid |-> valid,
     application |-> application, types |-> types]

AccountEndpoints ==
    {Endpoint("1", "a", TRUE, TRUE, FALSE, {"charge"}),
     Endpoint("2", "a", TRUE, TRUE, FALSE, {"charge"}),
     Endpoint("3", "b", TRUE, TRUE, TRUE, {"*"}),
     Endpoint("4", "c", FALSE, TRUE, FALSE, {"*"}),
     Endpoint("5", "d", TRUE, FALSE, FALSE, {"*"})}

(* One URL of the flags cannot be parsed, and one that is made of an endpoint's path. *)
BadURLs == {"connect", "b"}
=============================================================================
