-------------------------- MODULE MCWebSocketClient --------------------------
(* Instances of WebSocketClient for TLC. *)
EXTENDS WebSocketClient, TLC

CONSTANTS m1, m2, m3

(* Every incoming message is well formed, or the last one is not. *)
TwoMsgs == {m1, m2}
ThreeMsgs == {m1, m2, m3}
LastMalformed == {m3}
=============================================================================
