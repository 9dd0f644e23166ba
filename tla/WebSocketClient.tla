--------------------------- MODULE WebSocketClient ---------------------------
(***************************************************************************)
(* websocket.Client of pkg/websocket/client.go: the goroutine that runs    *)
(* Client.Run, the readPump and the writePump it starts for every          *)
(* connection, one EventHandler.ProcessEvent goroutine per incoming        *)
(* message (each answers with one SendMessage), the owner that waits on    *)
(* NotifyExpired, and the server and network as the environment.           *)
(*                                                                         *)
(* A Go panic ends the process: `crash' names it and nothing moves after.  *)
(***************************************************************************)
EXTENDS Naturals, Sequences, FiniteSets

CONSTANTS
    Msgs,        \* incoming messages, named like the answer each one gets
    Malformed,   \* those of them json.Unmarshal rejects
    Capacity,    \* buffer size of the send channel (10 in NewClient)
    MaxConn,     \* bound: how many connections are ever established
    NoMsg,       \* what a writePump holds when it holds no message
    OwnerMayStop \* the owner calls Client.Stop (only client_test.go does)

ASSUME ClientAssumption ==
    /\ Malformed \subseteq Msgs
    /\ Capacity \in Nat \ {0}
    /\ MaxConn \in Nat \ {0}
    /\ NoMsg \notin Msgs
    /\ OwnerMayStop \in BOOLEAN

Conns == 1..MaxConn

VARIABLES
    ctxDone,       \* the context given to Run is cancelled
    doneClosed,    \* Client.done
    run,           \* where the goroutine of Run is
    isConnected,   \* Client.isConnected
    conn,          \* the connection in Client.conn, 0 for nil
    link,          \* the state of that connection
    stopped,       \* stopReadPump and stopWritePump are closed
    notifyClose,   \* the one place of notifyClose: whose failure, 0 for empty
    rp,            \* where the readPump of each connection is
    wp,            \* where the writePump of each connection is
    held,          \* the message a writePump has taken from send
    send,          \* buffer of Client.send
    sendClosed,    \* Client.send is closed
    handler,       \* what became of each incoming message
    written,       \* messages WriteJSON has written without an error
    expiredClosed, \* Client.NotifyExpired is closed
    owner,         \* the goroutine that selects on NotifyExpired
    crash          \* the panic that ended the process, if any

runVars     == <<doneClosed, run, isConnected, expiredClosed>>
connVars    == <<conn, stopped>>
pumpVars    == <<rp, wp, held>>
sendVars    == <<send, sendClosed>>
envVars     == <<ctxDone, owner>>
vars == <<runVars, connVars, link, notifyClose, pumpVars, sendVars, handler,
          written, envVars, crash>>

Alive == crash = "none"

RunPC == {"dial", "retryWait", "expiredWait", "notifyExpired", "connected",
          "closeFrame", "closeConn", "wgWait", "returned"}

TypeOK ==
    /\ ctxDone \in BOOLEAN
    /\ doneClosed \in BOOLEAN
    /\ run \in RunPC
    /\ isConnected \in BOOLEAN
    /\ conn \in 0..MaxConn
    /\ link \in {"none", "up", "broken", "closeSent", "closed"}
    /\ stopped \in BOOLEAN
    /\ notifyClose \in 0..MaxConn
    /\ rp \in [Conns -> {"none", "read", "report", "exited"}]
    /\ wp \in [Conns -> {"none", "select", "write", "requeue", "report", "exited"}]
    /\ held \in [Conns -> Msgs \cup {NoMsg}]
    /\ send \in Seq(Msgs)
    /\ Len(send) <= Capacity
    /\ sendClosed \in BOOLEAN
    /\ handler \in [Msgs -> {"unread", "malformed", "sending", "accepted"}]
    /\ written \subseteq Msgs
    /\ expiredClosed \in BOOLEAN
    /\ owner \in {"waiting", "notified", "left"}
    /\ crash \in {"none", "closeOfClosedDone", "sendOnClosedSend"}

Init ==
    /\ ctxDone = FALSE
    /\ doneClosed = FALSE
    /\ run = "dial"
    /\ isConnected = FALSE
    /\ conn = 0
    /\ link = "none"
    /\ stopped = FALSE
    /\ notifyClose = 0
    /\ rp = [k \in Conns |-> "none"]
    /\ wp = [k \in Conns |-> "none"]
    /\ held = [k \in Conns |-> NoMsg]
    /\ send = <<>>
    /\ sendClosed = FALSE
    /\ handler = [m \in Msgs |-> "unread"]
    /\ written = {}
    /\ expiredClosed = FALSE
    /\ owner = "waiting"
    /\ crash = "none"

-----------------------------------------------------------------------------
(* The goroutine of Run. *)

(* Mutant of DialSucceeds: changeConnection keeps the old notifyClose. *)
DialKeepsNotifyClose ==
    /\ Alive
    /\ run = "dial"
    /\ ~ctxDone
    /\ conn < MaxConn
    /\ conn' = conn + 1
    /\ link' = "up"
    /\ stopped' = FALSE
    /\ isConnected' = TRUE
    /\ rp' = [rp EXCEPT ![conn + 1] = "read"]
    /\ wp' = [wp EXCEPT ![conn + 1] = "select"]
    /\ run' = "connected"
    /\ UNCHANGED <<doneClosed, expiredClosed, notifyClose, held, sendVars,
                   handler, written, envVars, crash>>

(* connect: a successful dial installs the connection with fresh channels and
   starts its two pumps.  A dial on a cancelled context fails. *)
DialSucceeds ==
    /\ Alive
    /\ run = "dial"
    /\ ~ctxDone
    /\ conn < MaxConn
    /\ conn' = conn + 1
    /\ link' = "up"
    /\ notifyClose' = 0
    /\ stopped' = FALSE
    /\ isConnected' = TRUE
    /\ rp' = [rp EXCEPT ![conn + 1] = "read"]
    /\ wp' = [wp EXCEPT ![conn + 1] = "select"]
    /\ run' = "connected"
    /\ UNCHANGED <<doneClosed, expiredClosed, held, sendVars, handler, written,
                   envVars, crash>>

(* connect returned an error; ErrUnknownID is the server's answer, so it needs a
   live context. *)
DialFails ==
    /\ Alive
    /\ run = "dial"
    /\ \/ run' = "retryWait"
       \/ ~ctxDone /\ run' = "expiredWait"
    /\ UNCHANGED <<doneClosed, isConnected, expiredClosed, connVars, link,
                   notifyClose, pumpVars, sendVars, handler, written, envVars,
                   crash>>

(* Stop: close(c.done), which panics the second time. *)
Stop ==
    IF doneClosed
    THEN crash' = "closeOfClosedDone" /\ UNCHANGED doneClosed
    ELSE doneClosed' = TRUE /\ UNCHANGED crash

(* The select after ErrUnknownID: its ctx.Done case stops and returns. *)
ExpiredWaitCancelled ==
    /\ Alive
    /\ run = "expiredWait"
    /\ ctxDone
    /\ Stop
    /\ run' = "returned"
    /\ UNCHANGED <<isConnected, expiredClosed, connVars, link, notifyClose,
                   pumpVars, sendVars, handler, written, envVars>>

(* Mutant of ExpiredWaitElapsed: the wait of an expired session leads back to
   the loop that dials. *)
ExpiredWaitRetries ==
    /\ Alive
    /\ run = "expiredWait"
    /\ run' = "dial"
    /\ UNCHANGED <<doneClosed, isConnected, expiredClosed, connVars, link,
                   notifyClose, pumpVars, sendVars, handler, written, envVars,
                   crash>>

ExpiredWaitElapsed ==
    /\ Alive
    /\ run = "expiredWait"
    /\ run' = "notifyExpired"
    /\ UNCHANGED <<doneClosed, isConnected, expiredClosed, connVars, link,
                   notifyClose, pumpVars, sendVars, handler, written, envVars,
                   crash>>

(* NotifyExpired is not buffered: Run returns once the owner takes the signal. *)
NotifyOwner ==
    /\ Alive
    /\ run = "notifyExpired"
    /\ owner = "waiting"
    /\ owner' = "notified"
    /\ run' = "returned"
    /\ UNCHANGED <<doneClosed, isConnected, expiredClosed, connVars, link,
                   notifyClose, pumpVars, sendVars, handler, written, ctxDone,
                   crash>>

(* Mutant of RetryWaitCancelled: the end of the context only ends the wait. *)
RetryWaitIgnoresCancel ==
    /\ Alive
    /\ run = "retryWait"
    /\ ctxDone
    /\ run' = "dial"
    /\ UNCHANGED <<doneClosed, isConnected, expiredClosed, connVars, link,
                   notifyClose, pumpVars, sendVars, handler, written, envVars,
                   crash>>

(* The select of the retry loop: its ctx.Done case calls Stop and goes on to the
   next attempt, it does not return. *)
RetryWaitCancelled ==
    /\ Alive
    /\ run = "retryWait"
    /\ ctxDone
    /\ Stop
    /\ run' = "dial"
    /\ UNCHANGED <<isConnected, expiredClosed, connVars, link, notifyClose,
                   pumpVars, sendVars, handler, written, envVars>>

RetryWaitElapsed ==
    /\ Alive
    /\ run = "retryWait"
    /\ run' = "dial"
    /\ UNCHANGED <<doneClosed, isConnected, expiredClosed, connVars, link,
                   notifyClose, pumpVars, sendVars, handler, written, envVars,
                   crash>>

(* Close, first part: closes the two stop channels of the connection. *)
BeginClose ==
    /\ stopped' = TRUE
    /\ run' = "closeFrame"
    /\ UNCHANGED <<conn, link, isConnected, pumpVars, send, handler, written,
                   envVars, crash>>

(* The four cases of the select on an established connection. *)
SeesCancel ==
    /\ Alive
    /\ run = "connected"
    /\ ctxDone
    /\ sendClosed' = TRUE
    /\ BeginClose
    /\ UNCHANGED <<doneClosed, expiredClosed, notifyClose>>

SeesDone ==
    /\ Alive
    /\ run = "connected"
    /\ doneClosed
    /\ sendClosed' = TRUE
    /\ expiredClosed' = TRUE
    /\ BeginClose
    /\ UNCHANGED <<doneClosed, notifyClose>>

(* Mutant of SeesNotifyClose: a lost connection closes send as well. *)
NotifyCloseClosesSend ==
    /\ Alive
    /\ run = "connected"
    /\ notifyClose # 0
    /\ notifyClose' = 0
    /\ sendClosed' = TRUE
    /\ BeginClose
    /\ UNCHANGED <<doneClosed, expiredClosed>>

SeesNotifyClose ==
    /\ Alive
    /\ run = "connected"
    /\ notifyClose # 0
    /\ notifyClose' = 0
    /\ BeginClose
    /\ UNCHANGED <<doneClosed, expiredClosed, sendClosed>>

(* ReconnectInterval elapsed; the bound keeps the last connection. *)
ResetElapsed ==
    /\ Alive
    /\ run = "connected"
    /\ conn < MaxConn
    /\ BeginClose
    /\ UNCHANGED <<doneClosed, expiredClosed, notifyClose, sendClosed>>

(* After a close frame no data frame can be written. *)
CloseFrameSent == IF link = "up" THEN "closeSent" ELSE link

WriteCloseFrame ==
    /\ Alive
    /\ run = "closeFrame"
    /\ run' = "closeConn"
    /\ link' = CloseFrameSent
    /\ UNCHANGED <<doneClosed, isConnected, expiredClosed, connVars,
                   notifyClose, pumpVars, sendVars, handler, written, envVars,
                   crash>>

(* After CloseDelayPeriod Close closes the connection.  The two branches that
   closed send return from Run, the two others wait for the pumps. *)
CloseConn ==
    /\ Alive
    /\ run = "closeConn"
    /\ link' = "closed"
    /\ run' = IF sendClosed THEN "returned" ELSE "wgWait"
    /\ UNCHANGED <<doneClosed, isConnected, expiredClosed, connVars,
                   notifyClose, pumpVars, sendVars, handler, written, envVars,
                   crash>>

(* Mutant of WgWaitReturns: the writePump is not counted in the wait group. *)
WgWaitsForReaderOnly ==
    /\ Alive
    /\ run = "wgWait"
    /\ rp[conn] = "exited"
    /\ isConnected' = FALSE
    /\ run' = "dial"
    /\ UNCHANGED <<doneClosed, expiredClosed, connVars, link, notifyClose,
                   pumpVars, sendVars, handler, written, envVars, crash>>

(* wg.Wait returns when both pumps of the connection have called wg.Done; the
   loop starts again with setIsConnected(false). *)
WgWaitReturns ==
    /\ Alive
    /\ run = "wgWait"
    /\ rp[conn] = "exited"
    /\ wp[conn] = "exited"
    /\ isConnected' = FALSE
    /\ run' = "dial"
    /\ UNCHANGED <<doneClosed, expiredClosed, connVars, link, notifyClose,
                   pumpVars, sendVars, handler, written, envVars, crash>>

RunStep ==
    \/ DialSucceeds \/ DialFails
    \/ ExpiredWaitCancelled \/ ExpiredWaitElapsed \/ NotifyOwner
    \/ RetryWaitCancelled \/ RetryWaitElapsed
    \/ SeesCancel \/ SeesDone \/ SeesNotifyClose \/ ResetElapsed
    \/ WriteCloseFrame \/ CloseConn \/ WgWaitReturns

-----------------------------------------------------------------------------
(* The pumps.  Both use c.conn, c.notifyClose and the stop channels, that is,
   those of the connection installed last. *)

(* ReadMessage returned data: a malformed message is skipped, any other gets a
   ProcessEvent goroutine. *)
ReadFrame(k, m) ==
    /\ Alive
    /\ rp[k] = "read"
    /\ link \in {"up", "closeSent"}
    /\ handler[m] = "unread"
    /\ handler' = [handler EXCEPT ![m] =
                      IF m \in Malformed THEN "malformed" ELSE "sending"]
    /\ UNCHANGED <<runVars, connVars, link, notifyClose, pumpVars, sendVars,
                   written, envVars, crash>>

(* ReadMessage fails: the connection is gone, or PongWait has passed in silence
   while writes still go through; the bound spares the last connection. *)
ReadFails(k) ==
    /\ Alive
    /\ rp[k] = "read"
    /\ link # "up" \/ conn < MaxConn
    /\ rp' = [rp EXCEPT ![k] = "report"]
    /\ UNCHANGED <<runVars, connVars, link, notifyClose, wp, held, sendVars,
                   handler, written, envVars, crash>>

(* Mutant of ReportFailure: the select has a default case. *)
ReportOrForget(k) ==
    \/ UNCHANGED notifyClose
    \/ notifyClose = 0 /\ notifyClose' = k

(* The select of a failed pump: the stop channel or a place in notifyClose. *)
ReportFailure(k) ==
    \/ stopped /\ UNCHANGED notifyClose
    \/ notifyClose = 0 /\ notifyClose' = k

ReadReport(k) ==
    /\ Alive
    /\ rp[k] = "report"
    /\ ReportFailure(k)
    /\ rp' = [rp EXCEPT ![k] = "exited"]
    /\ UNCHANGED <<runVars, connVars, link, wp, held, sendVars, handler,
                   written, envVars, crash>>

(* The select of writePump: a message, the closed channel, a ping, the stop. *)
TakeMessage(k) ==
    /\ Alive
    /\ wp[k] = "select"
    /\ send # <<>>
    /\ held' = [held EXCEPT ![k] = Head(send)]
    /\ send' = Tail(send)
    /\ wp' = [wp EXCEPT ![k] = "write"]
    /\ UNCHANGED <<runVars, connVars, link, notifyClose, rp, sendClosed,
                   handler, written, envVars, crash>>

(* The writePump finds send closed: it writes a close frame, as Close does. *)
WriterSeesClosedSend(k) ==
    /\ Alive
    /\ wp[k] = "select"
    /\ send = <<>>
    /\ sendClosed
    /\ link' = CloseFrameSent
    /\ wp' = [wp EXCEPT ![k] = "exited"]
    /\ UNCHANGED <<runVars, connVars, notifyClose, rp, held, sendVars, handler,
                   written, envVars, crash>>

PingFails(k) ==
    /\ Alive
    /\ wp[k] = "select"
    /\ link # "up"
    /\ wp' = [wp EXCEPT ![k] = "report"]
    /\ UNCHANGED <<runVars, connVars, link, notifyClose, rp, held, sendVars,
                   handler, written, envVars, crash>>

WriterSeesStop(k) ==
    /\ Alive
    /\ wp[k] = "select"
    /\ stopped
    /\ wp' = [wp EXCEPT ![k] = "exited"]
    /\ UNCHANGED <<runVars, connVars, link, notifyClose, rp, held, sendVars,
                   handler, written, envVars, crash>>

WriteSucceeds(k) ==
    /\ Alive
    /\ wp[k] = "write"
    /\ link = "up"
    /\ written' = written \cup {held[k]}
    /\ held' = [held EXCEPT ![k] = NoMsg]
    /\ wp' = [wp EXCEPT ![k] = "select"]
    /\ UNCHANGED <<runVars, connVars, link, notifyClose, rp, sendVars, handler,
                   envVars, crash>>

(* Mutants of WriteFails: the message is dropped; the pump tries again. *)
FailedWriteDrops(k) ==
    /\ Alive
    /\ wp[k] = "write"
    /\ link # "up"
    /\ held' = [held EXCEPT ![k] = NoMsg]
    /\ wp' = [wp EXCEPT ![k] = "report"]
    /\ UNCHANGED <<runVars, connVars, link, notifyClose, rp, sendVars, handler,
                   written, envVars, crash>>

FailedWriteRetries(k) ==
    /\ Alive
    /\ wp[k] = "write"
    /\ link # "up"
    /\ Len(send) < Capacity
    /\ send' = Append(send, held[k])
    /\ held' = [held EXCEPT ![k] = NoMsg]
    /\ wp' = [wp EXCEPT ![k] = "select"]
    /\ UNCHANGED <<runVars, connVars, link, notifyClose, rp, sendClosed,
                   handler, written, envVars, crash>>

WriteFails(k) ==
    /\ Alive
    /\ wp[k] = "write"
    /\ link # "up"
    /\ wp' = [wp EXCEPT ![k] = "requeue"]
    /\ UNCHANGED <<runVars, connVars, link, notifyClose, rp, held, sendVars,
                   handler, written, envVars, crash>>

(* The requeue is a plain channel send: it waits for room, and panics if Run has
   closed the channel meanwhile. *)
Requeue(k) ==
    /\ Alive
    /\ wp[k] = "requeue"
    /\ ~sendClosed
    /\ Len(send) < Capacity
    /\ send' = Append(send, held[k])
    /\ held' = [held EXCEPT ![k] = NoMsg]
    /\ wp' = [wp EXCEPT ![k] = "report"]
    /\ UNCHANGED <<runVars, connVars, link, notifyClose, rp, sendClosed,
                   handler, written, envVars, crash>>

RequeuePanics(k) ==
    /\ Alive
    /\ wp[k] = "requeue"
    /\ sendClosed
    /\ crash' = "sendOnClosedSend"
    /\ UNCHANGED <<runVars, connVars, link, notifyClose, pumpVars, sendVars,
                   handler, written, envVars>>

WriteReport(k) ==
    /\ Alive
    /\ wp[k] = "report"
    /\ ReportFailure(k)
    /\ wp' = [wp EXCEPT ![k] = "exited"]
    /\ UNCHANGED <<runVars, connVars, link, rp, held, sendVars, handler,
                   written, envVars, crash>>

ReadPump(k) == ReadFails(k) \/ ReadReport(k)

WritePump(k) ==
    \/ TakeMessage(k) \/ WriterSeesClosedSend(k) \/ PingFails(k)
    \/ WriterSeesStop(k) \/ WriteSucceeds(k) \/ WriteFails(k)
    \/ Requeue(k) \/ RequeuePanics(k) \/ WriteReport(k)

-----------------------------------------------------------------------------
(* SendMessage, called by the ProcessEvent goroutine of m. *)

SendMessage(m) ==
    /\ Alive
    /\ handler[m] = "sending"
    /\ ~sendClosed
    /\ Len(send) < Capacity
    /\ send' = Append(send, m)
    /\ handler' = [handler EXCEPT ![m] = "accepted"]
    /\ UNCHANGED <<runVars, connVars, link, notifyClose, pumpVars, sendClosed,
                   written, envVars, crash>>

SendMessagePanics(m) ==
    /\ Alive
    /\ handler[m] = "sending"
    /\ sendClosed
    /\ crash' = "sendOnClosedSend"
    /\ UNCHANGED <<runVars, connVars, link, notifyClose, pumpVars, sendVars,
                   handler, written, envVars>>

Handler(m) == SendMessage(m) \/ SendMessagePanics(m)

-----------------------------------------------------------------------------
(* The environment. *)

(* The peer or the network ends the connection; the bound spares the last one. *)
LinkBreaks ==
    /\ Alive
    /\ link \in {"up", "closeSent"}
    /\ conn < MaxConn
    /\ link' = "broken"
    /\ UNCHANGED <<runVars, connVars, notifyClose, pumpVars, sendVars, handler,
                   written, envVars, crash>>

Cancel ==
    /\ Alive
    /\ ~ctxDone
    /\ ctxDone' = TRUE
    /\ UNCHANGED <<runVars, connVars, link, notifyClose, pumpVars, sendVars,
                   handler, written, owner, crash>>

(* Proxy.Run and Tailer.Run leave their select when the context is done. *)
OwnerLeaves ==
    /\ Alive
    /\ ctxDone
    /\ owner = "waiting"
    /\ owner' = "left"
    /\ UNCHANGED <<runVars, connVars, link, notifyClose, pumpVars, sendVars,
                   handler, written, ctxDone, crash>>

(* A closed NotifyExpired reads as a signal. *)
OwnerSeesClosed ==
    /\ Alive
    /\ expiredClosed
    /\ owner = "waiting"
    /\ owner' = "notified"
    /\ UNCHANGED <<runVars, connVars, link, notifyClose, pumpVars, sendVars,
                   handler, written, ctxDone, crash>>

(* The exported Stop, called by the owner while the context is live. *)
OwnerStops ==
    /\ Alive
    /\ OwnerMayStop
    /\ ~ctxDone
    /\ ~doneClosed
    /\ doneClosed' = TRUE
    /\ UNCHANGED <<run, isConnected, expiredClosed, connVars, link, notifyClose,
                   pumpVars, sendVars, handler, written, envVars, crash>>

OwnerStep == OwnerLeaves \/ OwnerSeesClosed

-----------------------------------------------------------------------------

(* Everything has come to rest: Run has returned (or waits for an owner that
   left), the pumps of the last connection are gone and no handler runs. *)
AtRest ==
    /\ \/ run = "returned"
       \/ run = "notifyExpired" /\ owner = "left"
    /\ \A k \in Conns : rp[k] \in {"none", "exited"}
    /\ \A k \in Conns : wp[k] \in {"none", "exited"}

Step ==
    \/ RunStep
    \/ \E k \in Conns : ReadPump(k) \/ WritePump(k)
    \/ \E k \in Conns, m \in Msgs : ReadFrame(k, m)
    \/ \E m \in Msgs : Handler(m)
    \/ LinkBreaks \/ Cancel \/ OwnerStep \/ OwnerStops

Resting == (~Alive \/ AtRest) /\ UNCHANGED vars

Next == Step \/ Resting

Spec == Init /\ [][Next]_vars

(* Every goroutine that can take a step takes one: the Go scheduler is weakly
   fair.  A server that keeps being dialled accepts in the end (strong, because
   the failed attempts in between disable the dial).  A cancelled context makes a
   case of the retry loop's select ready at once, its timer needs
   ConnectAttemptWait each time: the timer does not win for ever.  Nothing is
   assumed of cancellation, resets, incoming messages or failures. *)
Fairness ==
    /\ WF_vars(RunStep)
    /\ SF_vars(DialSucceeds)
    /\ SF_vars(RetryWaitCancelled)
    /\ \A k \in Conns : WF_vars(ReadPump(k))
    /\ \A k \in Conns : WF_vars(WritePump(k))
    /\ \A m \in Msgs : WF_vars(Handler(m))
    /\ WF_vars(OwnerStep)

FairSpec == Spec /\ Fairness

-----------------------------------------------------------------------------
(* Properties. *)

Queued == {send[i] : i \in DOMAIN send}
Held == {held[k] : k \in Conns} \ {NoMsg}

(* client.go:355 and 445, "at most one reader on a connection", "at most one
   writer to a connection": a pump of an earlier connection, which would use
   the connection of its successor, is never alive. *)
OneReaderOneWriter ==
    \A k \in Conns \ {conn} :
        rp[k] \in {"none", "exited"} /\ wp[k] \in {"none", "exited"}

(* A message SendMessage has accepted is waiting, in the hands of the writePump,
   or written: failed writes, resets and shutdown included, none disappears
   and none is in two places, from where it would be written twice. *)
NothingLostOrDoubled ==
    /\ {m \in Msgs : handler[m] = "accepted"} = Queued \cup Held \cup written
    /\ written \cap (Queued \cup Held) = {}
    /\ Queued \cap Held = {}
    /\ \A i, j \in DOMAIN send : send[i] = send[j] => i = j

(* Run never sits on a connection one of whose pumps has gone without having
   the failure in notifyClose: the loss of a connection is not noticed only
   when ReconnectInterval elapses. *)
FailureIsSignalled ==
    run = "connected" /\ (rp[conn] = "exited" \/ wp[conn] = "exited")
        => notifyClose # 0

(* What Run finds in notifyClose was put there by a pump of the connection it
   then closes: the failure of an old connection cannot tear down a new one. *)
CloseCauseIsCurrent ==
    notifyClose # 0 => notifyClose = conn

(* client.go:497, "Requeue the message to be processed when writePump restarts":
   Run is not waiting for a writePump that waits for a place in a buffer only
   a later writePump would empty. *)
RequeueCanFinish ==
    ~(run = "wgWait" /\ wp[conn] = "requeue" /\ Len(send) = Capacity)

(* What it takes to refute it: one more answer outstanding, accepted and not
   written, than the buffer has room for. *)
Unwritten == {m \in Msgs : handler[m] = "accepted"} \ written
Overloaded == Cardinality(Unwritten) = Capacity + 1

(* The two panics the client can die of belong to its end: until the context
   ends or Stop is called, no order of failures, resets and answers reaches
   one. *)
PanicOnlyAtShutdown == ~ctxDone /\ ~doneClosed => Alive

(* The client as the outbox it is for the goroutines that answer events. *)
Outbox == INSTANCE MessageOutbox
    WITH pending <- Queued \cup Held,
         delivered <- written,
         open <- /\ Alive /\ ~ctxDone /\ ~doneClosed
                 /\ run \notin {"expiredWait", "notifyExpired", "returned"}

OutboxSpec == Outbox!Spec

(* The client as the session it is for Proxy.Run and Tailer.Run, which learn of
   its end from NotifyExpired only. *)
Session == INSTANCE SessionClient
    WITH phase <- IF owner = "notified" THEN "gone"
                  ELSE IF isConnected THEN "connected"
                  ELSE IF run \in {"dial", "retryWait"} THEN "dialing"
                  ELSE "expiring",
         live <- ~ctxDone,
         stopped <- doneClosed

(* An expired session is reported to its owner once and never dialled again;
   without an expiry or a Stop the owner hears nothing. *)
SessionSpec == Session!Spec

(* A reset or a lost connection is always followed by a new attempt to connect:
   the wait for the two pumps ends. *)
ResetEnds == (run = "wgWait" /\ Alive) ~> (run # "wgWait")

(* The steps the two pumps of the connection have left once it is closed. *)
PumpsLeft ==
    (CASE rp[conn] = "read" -> 2 [] rp[conn] = "report" -> 1 [] OTHER -> 0)
    + (CASE wp[conn] = "select" -> 4 [] wp[conn] = "write" -> 3
         [] wp[conn] = "requeue" -> 2 [] wp[conn] = "report" -> 1 [] OTHER -> 0)

(* While Run waits for the pumps nothing but them changes where they are, and
   each step of theirs brings them nearer to wg.Done: none goes back to read,
   to write or to its select again, whatever is queued and whatever fails. *)
WaitCountsDown ==
    [][run = "wgWait" /\ run' = "wgWait" =>
          UNCHANGED <<conn, rp[conn], wp[conn]>> \/ PumpsLeft' < PumpsLeft]_vars

(* After the end of the context Run returns.  Two ends that the code has
   besides are allowed here: a panic (PanicOnlyAtShutdown), and waiting
   for ever to notify an owner that left for the same reason. *)
CancelEndsRun ==
    ctxDone ~> \/ run = "returned" \/ ~Alive
               \/ run = "notifyExpired" /\ owner = "left"
=============================================================================
