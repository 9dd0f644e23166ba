--------------------------- MODULE MCProxySession ---------------------------
(* Instances of ProxySession for TLC. *)
EXTENDS ProxySession, TLC

CONSTANT e1

OneEvent == {e1}

EveryProgram == {"listen", "logsTail", "Listen", "LogsTail"}
OnlyListener == {"listen"}
OnlyRPCListener == {"Listen"}
=============================================================================
