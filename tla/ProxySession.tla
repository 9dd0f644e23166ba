---------------------------- MODULE ProxySession ----------------------------
(***************************************************************************)
(* The session loop of proxy.Proxy.Run and of logtailing.Tailer.Run:       *)
(* authorize a session, run a websocket client for it, and start over when *)
(* the session expires; with the goroutine that waits for the connection   *)
(* and announces Ready, the goroutines that report events or request logs, *)
(* and the consumer that receives all of it from the unbuffered channel    *)
(* OutCh: the loop of `stripe listen' or `stripe logs tail' (logsTail), or *)
(* that of Listen or LogsTail in the RPC service.                          *)
(*                                                                         *)
(* The websocket client is reduced to what Run sees of it: it dials, it is *)
(* connected, it dials again, and it ends by signalling NotifyExpired.     *)
(***************************************************************************)
EXTENDS Integers

CONSTANTS
    MaxAttempts,  \* maxConnectAttempts
    MaxTries,     \* authorization requests of one createSession (6)
    MaxSessions,  \* bound: sessions ever created
    Events,       \* bound: events received, over all sessions
    Programs      \* who runs the session and receives from OutCh

ASSUME SessionAssumption ==
    /\ MaxAttempts \in Nat \ {0}
    /\ MaxTries \in Nat \ {0}
    /\ MaxSessions \in Nat \ {0}
    /\ Programs \subseteq {"listen", "logsTail", "Listen", "LogsTail"}

Sessions == 1..MaxSessions

(* The commands range over OutCh; the RPC service selects between it and its stream. *)
Ranging == {"listen", "logsTail"}
Selecting == {"Listen", "LogsTail"}

VARIABLES
    ctxDone,    \* the context is cancelled
    run,        \* where Proxy.Run is; "send..." while it sends to OutCh
    tries,      \* requests made by the current createSession that failed
    attempts,   \* nAttempts
    loaded,     \* the value nAttempts++ has read, until it is written
    warned,     \* the warning has been sent
    cur,        \* the session p.webSocketClient belongs to
    client,     \* the websocket client of each session
    ready,      \* the goroutine that waits for Connected, per session
    event,      \* the ProcessEvent goroutine of each event
    outClosed,  \* OutCh is closed
    consumer,   \* the program that receives from OutCh, or how it leaves
    crash,      \* how the process ended, if it did
    lost        \* history: the sessions whose reset of nAttempts did not count

sessionVars == <<tries, attempts, loaded, warned, cur, lost>>
goroutines == <<client, ready, event>>
vars == <<ctxDone, run, sessionVars, goroutines, outClosed, consumer, crash>>

Alive == crash = "none"

RunPC == {"sendLoading", "authorize", "authWait", "sendAuthError", "sendWarning",
          "launched", "incremented", "select", "sendDone", "sendReconnecting",
          "sendExpired", "returned"}

TypeOK ==
    /\ ctxDone \in BOOLEAN
    /\ run \in RunPC
    /\ tries \in 0..MaxTries
    /\ attempts \in 0..MaxAttempts
    /\ loaded \in 0..MaxAttempts
    /\ warned \in BOOLEAN
    /\ cur \in 0..MaxSessions
    /\ client \in [Sessions -> {"none", "dialing", "connected", "expiring", "gone"}]
    /\ ready \in [Sessions -> {"none", "polling", "connected", "sending", "done"}]
    /\ event \in [Events -> {"none", "sending", "done"}]
    /\ outClosed \in BOOLEAN
    /\ consumer \in Ranging \cup Selecting \cup {"exiting", "returning", "left"}
    /\ crash \in {"none", "exit", "sendOnClosedOutCh", "nilElement", "nilDeviceToken"}
    /\ lost \subseteq Sessions

Init ==
    /\ ctxDone = FALSE
    /\ run = "sendLoading"
    /\ tries = 0
    /\ attempts = 0
    /\ loaded = 0
    /\ warned = FALSE
    /\ cur = 0
    /\ client = [s \in Sessions |-> "none"]
    /\ ready = [s \in Sessions |-> "none"]
    /\ event = [e \in Events |-> "none"]
    /\ outClosed = FALSE
    /\ consumer \in Programs
    /\ crash = "none"
    /\ lost = {}

-----------------------------------------------------------------------------
(* createSession. *)

(* Run replaces the client and starts the goroutine that waits for it and the
   client itself. *)
Launch ==
    /\ cur' = cur + 1
    /\ client' = [client EXCEPT ![cur + 1] = "dialing"]
    /\ ready' = [ready EXCEPT ![cur + 1] = "polling"]
    /\ run' = "launched"

(* A session was authorized.  The tailer may have to say first that its account
   filter is not applied, which it says once; the listener stores the device token
   through a pointer that the Listen of the RPC service leaves nil. *)
AuthorizeSucceeds ==
    /\ Alive
    /\ run = "authorize"
    /\ ~ctxDone
    /\ cur < MaxSessions
    /\ tries' = 0
    /\ \/ consumer # "Listen" /\ Launch /\ UNCHANGED crash
       \/ /\ consumer = "Listen"
          /\ crash' = "nilDeviceToken"
          /\ UNCHANGED <<run, cur, client, ready>>
       \/ /\ consumer \notin {"listen", "Listen"}
          /\ ~warned
          /\ run' = "sendWarning"
          /\ UNCHANGED <<cur, client, ready, crash>>
    /\ UNCHANGED <<ctxDone, attempts, loaded, warned, lost, event, outClosed, consumer>>

(* A 4xx answer ends createSession; after any other error it waits a second,
   unless it was the last of its tries. *)
AuthorizeFails ==
    /\ Alive
    /\ run = "authorize"
    /\ tries' = tries + 1
    /\ \/ ~ctxDone /\ run' = "sendAuthError"
       \/ run' = "authWait"
    /\ UNCHANGED <<ctxDone, attempts, loaded, warned, cur, lost, goroutines, outClosed,
                   consumer, crash>>

AuthWaitElapsed ==
    /\ Alive
    /\ run = "authWait"
    /\ run' = IF tries < MaxTries THEN "authorize" ELSE "sendAuthError"
    /\ UNCHANGED <<ctxDone, sessionVars, goroutines, outClosed, consumer, crash>>

(* Mutant: a cancelled authorization is started over. *)
AuthWaitStartsOver ==
    /\ Alive
    /\ run = "authWait"
    /\ ctxDone
    /\ run' = "authorize"
    /\ tries' = 0
    /\ UNCHANGED <<ctxDone, attempts, loaded, warned, cur, lost, goroutines,
                   outClosed, consumer, crash>>

AuthWaitCancelled ==
    /\ Alive
    /\ run = "authWait"
    /\ ctxDone
    /\ run' = "sendAuthError"
    /\ UNCHANGED <<ctxDone, sessionVars, goroutines, outClosed, consumer, crash>>

-----------------------------------------------------------------------------
(* nAttempts++ and the select. *)

LoadAttempts ==
    /\ Alive
    /\ run = "launched"
    /\ loaded' = attempts
    /\ run' = "incremented"
    /\ UNCHANGED <<ctxDone, tries, attempts, warned, cur, lost, goroutines,
                   outClosed, consumer, crash>>

StoreAttempts ==
    /\ Alive
    /\ run = "incremented"
    /\ attempts' = loaded + 1
    /\ loaded' = 0
    /\ run' = "select"
    /\ UNCHANGED <<ctxDone, tries, warned, cur, lost, goroutines,
                   outClosed, consumer, crash>>

SelectCancelled ==
    /\ Alive
    /\ run = "select"
    /\ ctxDone
    /\ run' = "sendDone"
    /\ UNCHANGED <<ctxDone, sessionVars, goroutines, outClosed, consumer, crash>>

(* Mutants: the last expiry is not received; the client goes on after it. *)
SelectExpiredWhileAttempts ==
    /\ Alive
    /\ run = "select"
    /\ client[cur] = "expiring"
    /\ attempts < MaxAttempts
    /\ client' = [client EXCEPT ![cur] = "gone"]
    /\ run' = "sendReconnecting"
    /\ UNCHANGED <<ctxDone, sessionVars, ready, event, outClosed, consumer, crash>>

SelectExpiredClientStays ==
    /\ Alive
    /\ run = "select"
    /\ client[cur] = "expiring"
    /\ client' = [client EXCEPT ![cur] = "dialing"]
    /\ run' = IF attempts < MaxAttempts THEN "sendReconnecting" ELSE "sendExpired"
    /\ UNCHANGED <<ctxDone, sessionVars, ready, event, outClosed, consumer, crash>>

SelectExpired ==
    /\ Alive
    /\ run = "select"
    /\ client[cur] = "expiring"
    /\ client' = [client EXCEPT ![cur] = "gone"]
    /\ run' = IF attempts < MaxAttempts THEN "sendReconnecting" ELSE "sendExpired"
    /\ UNCHANGED <<ctxDone, sessionVars, ready, event, outClosed, consumer, crash>>

-----------------------------------------------------------------------------
(* OutCh: a send and the consumer's receive happen together. *)

Receiving == consumer \in Ranging \cup Selecting /\ ~outClosed

(* Loading and Reconnecting are followed by an authorization. *)
RunSendsState ==
    /\ Alive
    /\ Receiving
    /\ run \in {"sendLoading", "sendReconnecting"}
    /\ run' = "authorize"
    /\ tries' = 0
    /\ UNCHANGED <<ctxDone, attempts, loaded, warned, cur, lost, goroutines,
                   outClosed, consumer, crash>>

SendWarning ==
    /\ Alive
    /\ Receiving
    /\ run = "sendWarning"
    /\ warned' = TRUE
    /\ Launch
    /\ UNCHANGED <<ctxDone, tries, attempts, loaded, lost, event, outClosed,
                   consumer, crash>>

(* Mutant: the listener takes an error that ends Run for one about an event. *)
RunSendsLastUnheard ==
    /\ Alive
    /\ Receiving
    /\ run \in {"sendDone", "sendAuthError", "sendExpired"}
    /\ run' = "returned"
    /\ outClosed' = TRUE
    /\ UNCHANGED <<ctxDone, sessionVars, goroutines, consumer, crash>>

(* Run returns after Done or an error, closing OutCh; the consumer ends on an
   error that is not about one event. *)
RunSendsLast ==
    /\ Alive
    /\ Receiving
    /\ run \in {"sendDone", "sendAuthError", "sendExpired"}
    /\ run' = "returned"
    /\ outClosed' = TRUE
    /\ consumer' = CASE run = "sendDone" -> consumer
                    [] consumer \in Ranging -> "exiting"
                    [] OTHER -> "returning"
    /\ UNCHANGED <<ctxDone, sessionVars, goroutines, crash>>

(* stripe listen exits; Listen returns and its deferred cancel ends the context. *)
ConsumerEnds ==
    /\ Alive
    /\ \/ consumer = "exiting" /\ crash' = "exit" /\ UNCHANGED ctxDone
       \/ consumer = "returning" /\ ctxDone' = TRUE /\ UNCHANGED crash
    /\ consumer' = "left"
    /\ UNCHANGED <<run, sessionVars, goroutines, outClosed>>

(* stripe listen ranges over OutCh until it is closed; Listen selects between
   OutCh, from which it receives nil once it is closed, and its stream. *)
ConsumerSeesClose ==
    /\ Alive
    /\ outClosed
    /\ \/ consumer \in Ranging /\ consumer' = "left" /\ UNCHANGED crash
       \/ consumer \in Selecting /\ crash' = "nilElement" /\ UNCHANGED consumer
    /\ UNCHANGED <<ctxDone, run, sessionVars, goroutines, outClosed>>

ConsumerSeesStreamDone ==
    /\ Alive
    /\ consumer \in Selecting
    /\ ctxDone
    /\ consumer' = "left"
    /\ UNCHANGED <<ctxDone, run, sessionVars, goroutines, outClosed, crash>>

-----------------------------------------------------------------------------
(* The goroutine that waits for the connection.  Nothing orders its reset of
   nAttempts and the accesses of Run. *)

SeesConnected(s) ==
    /\ Alive
    /\ ready[s] = "polling"
    /\ client[s] = "connected"
    /\ ready' = [ready EXCEPT ![s] = "connected"]
    /\ UNCHANGED <<ctxDone, run, sessionVars, client, event, outClosed,
                   consumer, crash>>

(* Mutant: a connection does not reset the count. *)
ReadyWithoutReset(s) ==
    /\ Alive
    /\ ready[s] = "connected"
    /\ ready' = [ready EXCEPT ![s] = "sending"]
    /\ UNCHANGED <<ctxDone, run, sessionVars, client, event, outClosed,
                   consumer, crash>>

(* The reset does not count when it comes before the increment for its own
   session, when the increment that has begun overwrites it, or when Run has
   given up already. *)
ResetIsLost(s) ==
    \/ run = "launched" /\ s = cur
    \/ run = "incremented"
    \/ run = "sendExpired"

ResetAttempts(s) ==
    /\ Alive
    /\ ready[s] = "connected"
    /\ attempts' = 0
    /\ lost' = IF ResetIsLost(s) THEN lost \cup {s} ELSE lost
    /\ ready' = [ready EXCEPT ![s] = "sending"]
    /\ UNCHANGED <<ctxDone, run, tries, loaded, warned, cur, client, event,
                   outClosed, consumer, crash>>

SendReady(s) ==
    /\ Alive
    /\ ready[s] = "sending"
    /\ \/ Receiving /\ ready' = [ready EXCEPT ![s] = "done"] /\ UNCHANGED crash
       \/ outClosed /\ crash' = "sendOnClosedOutCh" /\ UNCHANGED ready
    /\ UNCHANGED <<ctxDone, run, sessionVars, client, event, outClosed, consumer>>

(* The websocket client, reduced to what SessionClient allows it.  A connection is
   polled until it is seen: isConnected stays true while the client closes it, for
   CloseDelayPeriod (1s), and the poll comes ten times a second. *)
ClientConnects(s) ==
    /\ Alive
    /\ client[s] = "dialing"
    /\ ~ctxDone
    /\ client' = [client EXCEPT ![s] = "connected"]
    /\ UNCHANGED <<ctxDone, run, sessionVars, ready, event, outClosed,
                   consumer, crash>>

ClientLosesConnection(s) ==
    /\ Alive
    /\ client[s] = "connected"
    /\ ready[s] # "polling"
    /\ client' = [client EXCEPT ![s] = "dialing"]
    /\ UNCHANGED <<ctxDone, run, sessionVars, ready, event, outClosed,
                   consumer, crash>>

ClientExpires(s) ==
    /\ Alive
    /\ client[s] = "dialing"
    /\ ~ctxDone
    /\ client' = [client EXCEPT ![s] = "expiring"]
    /\ UNCHANGED <<ctxDone, run, sessionVars, ready, event, outClosed,
                   consumer, crash>>

-----------------------------------------------------------------------------
(* An event arrives and is reported to OutCh. *)

EventArrives(s, e) ==
    /\ Alive
    /\ client[s] = "connected"
    /\ event[e] = "none"
    /\ event' = [event EXCEPT ![e] = "sending"]
    /\ UNCHANGED <<ctxDone, run, sessionVars, client, ready, outClosed,
                   consumer, crash>>

(* The RPC service may fail to convert what it is sent, and returns. *)
SendEvent(e) ==
    /\ Alive
    /\ event[e] = "sending"
    /\ \/ /\ Receiving
          /\ event' = [event EXCEPT ![e] = "done"]
          /\ \/ UNCHANGED consumer
             \/ consumer \in Selecting /\ consumer' = "returning"
          /\ UNCHANGED crash
       \/ outClosed /\ crash' = "sendOnClosedOutCh" /\ UNCHANGED <<event, consumer>>
    /\ UNCHANGED <<ctxDone, run, sessionVars, client, ready, outClosed>>

Cancel ==
    /\ Alive
    /\ ~ctxDone
    /\ ctxDone' = TRUE
    /\ UNCHANGED <<run, sessionVars, goroutines, outClosed, consumer, crash>>

(* Nothing more happens: Run has returned, or the consumer left it (and every
   other sender) blocked, or no bound is left for a new session. *)
AtRest ==
    \/ ~Alive
    \/ consumer = "left"
    \/ (run = "authorize" /\ cur = MaxSessions)

Resting == AtRest /\ UNCHANGED vars

RunStep ==
    \/ AuthorizeSucceeds \/ AuthorizeFails
    \/ AuthWaitElapsed \/ AuthWaitCancelled
    \/ LoadAttempts \/ StoreAttempts
    \/ SelectCancelled \/ SelectExpired
    \/ RunSendsState \/ SendWarning \/ RunSendsLast

ConsumerStep == ConsumerEnds \/ ConsumerSeesClose \/ ConsumerSeesStreamDone

ReadyStep(s) == SeesConnected(s) \/ ResetAttempts(s) \/ SendReady(s)

ClientStep(s) == ClientConnects(s) \/ ClientLosesConnection(s) \/ ClientExpires(s)

Next ==
    \/ RunStep
    \/ ConsumerStep
    \/ \E s \in Sessions : ReadyStep(s) \/ ClientStep(s)
    \/ \E e \in Events : (\E s \in Sessions : EventArrives(s, e)) \/ SendEvent(e)
    \/ Cancel
    \/ Resting

Spec == Init /\ [][Next]_vars

(* The goroutines of the program are scheduled; connections, expiry, events and
   cancellation come when they come.  AuthWaitCancelled is strong: its case of
   the select is ready at once, the timer takes a second. *)
Fairness ==
    /\ WF_vars(RunStep)
    /\ SF_vars(AuthWaitCancelled)
    /\ WF_vars(ConsumerStep)
    /\ \A s \in Sessions : WF_vars(ReadyStep(s))
    /\ \A e \in Events : WF_vars(SendEvent(e))

FairSpec == Spec /\ Fairness

-----------------------------------------------------------------------------
(* Properties. *)

(* A client that may still report an expiry has Run on its way to, or in, the
   select that hears it, unless the context is over: no session is left behind
   with nobody to renew it, whichever way Run leaves an authorization. *)
EveryClientIsHeard ==
    \A s \in Sessions :
        client[s] \in {"dialing", "connected", "expiring"} =>
            s = cur /\ (ctxDone \/ run \in {"launched", "incremented", "select"})

(* Run gives up only when each of the last MaxAttempts sessions expired without
   having connected, or connected and lost the race on nAttempts: its reset is
   still to come, or fell before or inside the increment, or came too late.  No
   connection is otherwise forgotten, and no session is counted twice. *)
GivesUpOnlyForLostResets ==
    run = "sendExpired" =>
        /\ cur >= MaxAttempts
        /\ \A s \in Sessions :
              s <= cur /\ s > cur - MaxAttempts =>
                  ready[s] \in {"polling", "connected"} \/ s \in lost

(* "session expired, terminating after %d failed attempts to reauthorize" says
   more: none of the last sessions has connected.  The race refutes it. *)
GivesUpOnlyAfterFailures ==
    run = "sendExpired" =>
        \A s \in Sessions : s <= cur /\ s > cur - MaxAttempts => ready[s] = "polling"

(* Cancelling the context ends Run wherever it waits: in an authorization or
   between two, for the session to expire, or for the consumer; unless the RPC
   listener has left, for which Run then waits for ever. *)
CancelEndsRun == ctxDone ~> (run = "returned" \/ ~Alive \/ consumer = "left")

(* The steps Run has left, at most, once the context is cancelled. *)
RunLeft ==
    CASE run = "returned" -> 0
      [] run \in {"sendDone", "sendAuthError", "sendExpired"} -> 1
      [] run = "authorize" -> 2 * (MaxTries - tries) + 1
      [] run = "authWait" -> 2 * (MaxTries - tries) + 2
      [] run \in {"sendLoading", "sendReconnecting"} -> 2 * MaxTries + 2
      [] run = "select" -> 2 * MaxTries + 3
      [] run = "incremented" -> 2 * MaxTries + 4
      [] run = "launched" -> 2 * MaxTries + 5
      [] run = "sendWarning" -> 2 * MaxTries + 6

(* After a cancellation Run only comes nearer to its end, never going round its
   loop or its tries again, and nobody else sets it back. *)
CancelledRunCountsDown ==
    [][ctxDone => IF run' = run THEN RunLeft' = RunLeft ELSE RunLeft' < RunLeft]_vars

(* A session that expires is acted on: a next one is created, or Run ends and
   says so.  (An expiry signalled to nobody would leave a deaf listener.) *)
ExpiryIsHandled ==
    \A s \in Sessions :
        client[s] = "expiring" ~>
            \/ cur > s \/ s = MaxSessions
            \/ run = "returned" \/ ~Alive \/ consumer = "left"

(* A session that cannot be authorized or renewed reaches the RPC client as the
   error it is: LogsTail and Listen meet the closed OutCh, and panic on the nil
   they receive from it, only when their stream is over. *)
ClosedOutChOnlyAtStreamEnd == crash = "nilElement" => ctxDone

(* The RPC service promises "Receive webhook events from the Stripe API to your
   local machine. Like `stripe listen`."  Its Listen does not survive the
   authorization of a session. *)
ListenIsServed == crash # "nilDeviceToken"
=============================================================================
