---------------------------- MODULE SessionClient ----------------------------
(***************************************************************************)
(* What websocket.Client promises the goroutine that runs a session, as    *)
(* Proxy.Run and Tailer.Run rely on it: the client connects and loses its  *)
(* connection any number of times; once the server no longer knows the     *)
(* session it never connects again, and tells its owner so, once.          *)
(* WebSocketClient implements it; the clients of ProxySession are written  *)
(* to do no more than its actions allow.                                   *)
(***************************************************************************)

VARIABLES
    phase,    \* "dialing", "connected", "expiring", or "gone": the owner was told
    live,     \* the context of Run is not cancelled
    stopped   \* Stop was called

sessionVars == <<phase, live, stopped>>

Init ==
    /\ phase = "dialing"
    /\ live = TRUE
    /\ stopped = FALSE

Connect ==
    /\ live
    /\ phase = "dialing"
    /\ phase' = "connected"
    /\ UNCHANGED <<live, stopped>>

Lose ==
    /\ phase = "connected"
    /\ phase' = "dialing"
    /\ UNCHANGED <<live, stopped>>

Expire ==
    /\ live
    /\ phase = "dialing"
    /\ phase' = "expiring"
    /\ UNCHANGED <<live, stopped>>

Signal ==
    /\ phase = "expiring"
    /\ phase' = "gone"
    /\ UNCHANGED <<live, stopped>>

(* A stopped client closes NotifyExpired, which its owner takes for a signal. *)
Release ==
    /\ stopped
    /\ phase = "connected"
    /\ phase' = "gone"
    /\ UNCHANGED <<live, stopped>>

Cancel ==
    /\ live
    /\ live' = FALSE
    /\ UNCHANGED <<phase, stopped>>

Stop ==
    /\ ~stopped
    /\ stopped' = TRUE
    /\ UNCHANGED <<phase, live>>

Next == Connect \/ Lose \/ Expire \/ Signal \/ Release \/ Cancel \/ Stop

SafeSpec == Init /\ [][Next]_sessionVars

(* While the session is wanted, its expiry is heard of. *)
Spec == SafeSpec /\ WF_sessionVars(live /\ Signal)
=============================================================================
