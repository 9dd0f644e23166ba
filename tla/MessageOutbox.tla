---------------------------- MODULE MessageOutbox ----------------------------
(***************************************************************************)
(* What websocket.Client promises the goroutines that call SendMessage: a  *)
(* message the client has accepted stays its responsibility until it has   *)
(* been written to a connection, it is written at most once, and, while    *)
(* the client is open, it is eventually written.  Nothing here knows of    *)
(* connections, pumps or buffers: WebSocketClient implements it.           *)
(***************************************************************************)

CONSTANT Msgs

VARIABLES
    pending,    \* accepted, not yet written
    delivered,  \* written to some connection
    open        \* the client has not been told to stop and has not expired

outboxVars == <<pending, delivered, open>>

Init ==
    /\ pending = {}
    /\ delivered = {}
    /\ open = TRUE

(* A closing client may still accept and deliver: only its duty to deliver
   ends.  *)
Accept(m) ==
    /\ m \notin pending \cup delivered
    /\ pending' = pending \cup {m}
    /\ UNCHANGED <<delivered, open>>

Deliver(m) ==
    /\ m \in pending
    /\ pending' = pending \ {m}
    /\ delivered' = delivered \cup {m}
    /\ UNCHANGED open

Shut ==
    /\ open
    /\ open' = FALSE
    /\ UNCHANGED <<pending, delivered>>

Next == Shut \/ \E m \in Msgs : Accept(m) \/ Deliver(m)

SafeSpec == Init /\ [][Next]_outboxVars

Spec == SafeSpec /\ \A m \in Msgs : WF_outboxVars(open /\ Deliver(m))
=============================================================================
