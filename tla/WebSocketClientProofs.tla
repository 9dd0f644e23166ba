------------------------ MODULE WebSocketClientProofs ------------------------
(***************************************************************************)
(* What holds of WebSocketClient for every set of messages, every buffer   *)
(* size and every number of connections.  The inductive invariant IInv     *)
(* says where the pumps of past, present and future connections are        *)
(* (PumpsInv), which writePump holds a message (HeldInv), and what a       *)
(* closed channel implies about Run (ShutdownInv); the safety invariants   *)
(* of the runs follow from these, conjunct by conjunct.  CloseInv: while   *)
(* Run waits for the pumps of a connection it is closed, so that they only *)
(* come nearer to their end.                                               *)
(***************************************************************************)
EXTENDS WebSocketClient, TLAPS, FiniteSetTheorems, SequenceTheorems

PumpsInv ==
    /\ \A k \in Conns : k > conn => rp[k] = "none" /\ wp[k] = "none"
    /\ \A k \in Conns : k < conn => rp[k] = "exited" /\ wp[k] = "exited"
    /\ conn # 0 => rp[conn] # "none" /\ wp[conn] # "none"
    /\ run \in {"dial", "retryWait", "expiredWait", "notifyExpired"} /\ conn # 0
          => rp[conn] = "exited" /\ wp[conn] = "exited"
    /\ run \in {"connected", "closeFrame", "closeConn", "wgWait"} => conn # 0

HeldInv ==
    \A k \in Conns : held[k] # NoMsg <=> wp[k] \in {"write", "requeue"}

ShutdownInv ==
    /\ run = "connected" => ~stopped
    /\ sendClosed => /\ run \in {"closeFrame", "closeConn", "returned"}
                     /\ ctxDone \/ doneClosed
    /\ crash # "none" => ctxDone \/ doneClosed

(* A message is answered only if it was well formed. *)
AnsweredInv == \A m \in Malformed : handler[m] \in {"unread", "malformed"}

IInv ==
    /\ TypeOK
    /\ PumpsInv
    /\ HeldInv
    /\ ShutdownInv
    /\ AnsweredInv
    /\ FailureIsSignalled
    /\ CloseCauseIsCurrent
    /\ NothingLostOrDoubled

-----------------------------------------------------------------------------
(* One step of Next, taken apart. *)

LEMMA StepCases ==
    ASSUME [Next]_vars
    PROVE  \/ RunStep
           \/ \E k \in Conns : ReadPump(k) \/ WritePump(k)
           \/ \E k \in Conns, m \in Msgs : ReadFrame(k, m)
           \/ \E m \in Msgs : Handler(m)
           \/ LinkBreaks \/ Cancel \/ OwnerStep \/ OwnerStops
           \/ UNCHANGED vars
BY DEF Next, Step, Resting

-----------------------------------------------------------------------------
(* Types. *)

LEMMA TypeInit == Init => TypeOK
<1> SUFFICES ASSUME Init PROVE TypeOK
    OBVIOUS
<1>1. send \in Seq(Msgs) /\ Len(send) = 0
    BY EmptySeq DEF Init
<1>2. rp \in [Conns -> {"none", "read", "report", "exited"}]
    BY DEF Init
<1>3. wp \in [Conns -> {"none", "select", "write", "requeue", "report", "exited"}]
    BY DEF Init
<1>4. held \in [Conns -> Msgs \cup {NoMsg}]
    BY DEF Init
<1>5. handler \in [Msgs -> {"unread", "malformed", "sending", "accepted"}]
    BY DEF Init
<1>6. /\ ctxDone \in BOOLEAN /\ doneClosed \in BOOLEAN /\ isConnected \in BOOLEAN
      /\ stopped \in BOOLEAN /\ sendClosed \in BOOLEAN /\ expiredClosed \in BOOLEAN
    BY DEF Init
<1>7. /\ run \in RunPC /\ owner \in {"waiting", "notified", "left"}
      /\ link \in {"none", "up", "broken", "closeSent", "closed"}
      /\ crash \in {"none", "closeOfClosedDone", "sendOnClosedSend"}
    BY DEF Init, RunPC
<1>8. /\ conn \in 0..MaxConn /\ notifyClose \in 0..MaxConn
      /\ Len(send) <= Capacity /\ written \subseteq Msgs
    BY <1>1, ClientAssumption DEF Init
<1> QED
    BY <1>1, <1>2, <1>3, <1>4, <1>5, <1>6, <1>7, <1>8 DEF TypeOK

LEMMA TypeStep == TypeOK /\ HeldInv /\ [Next]_vars => TypeOK'
<1> SUFFICES ASSUME TypeOK, HeldInv, [Next]_vars PROVE TypeOK'
    OBVIOUS
<1> USE ClientAssumption DEF Conns, RunPC
<1>1. CASE RunStep
    <2>1. CASE DialSucceeds
        <3>1. /\ conn + 1 \in Conns
              /\ rp' \in [Conns -> {"none", "read", "report", "exited"}]
              /\ wp' \in [Conns -> {"none", "select", "write", "requeue", "report", "exited"}]
            BY <2>1 DEF DialSucceeds, TypeOK
        <3>2. /\ ctxDone' \in BOOLEAN /\ doneClosed' \in BOOLEAN
              /\ isConnected' \in BOOLEAN /\ stopped' \in BOOLEAN
              /\ sendClosed' \in BOOLEAN /\ expiredClosed' \in BOOLEAN
            BY <2>1 DEF DialSucceeds, TypeOK, sendVars, envVars
        <3>3. /\ run' \in RunPC /\ owner' \in {"waiting", "notified", "left"}
              /\ link' \in {"none", "up", "broken", "closeSent", "closed"}
              /\ crash' \in {"none", "closeOfClosedDone", "sendOnClosedSend"}
              /\ conn' \in 0..MaxConn /\ notifyClose' \in 0..MaxConn
            BY <2>1 DEF DialSucceeds, TypeOK, envVars
        <3>4. UNCHANGED <<held, send, handler, written>>
            BY <2>1 DEF DialSucceeds, sendVars
        <3> QED  BY <3>1, <3>2, <3>3, <3>4 DEF TypeOK
    <2>2. CASE DialFails
        BY <2>2 DEF DialFails, TypeOK,
            runVars, connVars, pumpVars, sendVars, envVars
    <2>3. CASE ExpiredWaitCancelled
        BY <2>3 DEF ExpiredWaitCancelled, TypeOK, Stop,
            runVars, connVars, pumpVars, sendVars, envVars
    <2>4. CASE ExpiredWaitElapsed
        BY <2>4 DEF ExpiredWaitElapsed, TypeOK,
            runVars, connVars, pumpVars, sendVars, envVars
    <2>5. CASE NotifyOwner
        BY <2>5 DEF NotifyOwner, TypeOK,
            runVars, connVars, pumpVars, sendVars, envVars
    <2>6. CASE RetryWaitCancelled
        BY <2>6 DEF RetryWaitCancelled, TypeOK, Stop,
            runVars, connVars, pumpVars, sendVars, envVars
    <2>7. CASE RetryWaitElapsed
        BY <2>7 DEF RetryWaitElapsed, TypeOK,
            runVars, connVars, pumpVars, sendVars, envVars
    <2>8. CASE SeesCancel
        BY <2>8 DEF SeesCancel, TypeOK, BeginClose,
            runVars, connVars, pumpVars, sendVars, envVars
    <2>9. CASE SeesDone
        BY <2>9 DEF SeesDone, TypeOK, BeginClose,
            runVars, connVars, pumpVars, sendVars, envVars
    <2>10. CASE SeesNotifyClose
        BY <2>10 DEF SeesNotifyClose, TypeOK, BeginClose,
            runVars, connVars, pumpVars, sendVars, envVars
    <2>11. CASE ResetElapsed
        BY <2>11 DEF ResetElapsed, TypeOK, BeginClose,
            runVars, connVars, pumpVars, sendVars, envVars
    <2>12. CASE WriteCloseFrame
        BY <2>12 DEF WriteCloseFrame, CloseFrameSent, TypeOK,
            runVars, connVars, pumpVars, sendVars, envVars
    <2>13. CASE CloseConn
        BY <2>13 DEF CloseConn, TypeOK,
            runVars, connVars, pumpVars, sendVars, envVars
    <2>14. CASE WgWaitReturns
        BY <2>14 DEF WgWaitReturns, TypeOK,
            runVars, connVars, pumpVars, sendVars, envVars
    <2> QED  BY <1>1, <2>1, <2>2, <2>3, <2>4, <2>5, <2>6, <2>7, <2>8, <2>9, <2>10, <2>11, <2>12, <2>13, <2>14 DEF RunStep
<1>2. ASSUME NEW k \in Conns, ReadPump(k) PROVE TypeOK'
    <2>1. CASE ReadFails(k)
        BY <2>1 DEF ReadFails, TypeOK,
            runVars, connVars, pumpVars, sendVars, envVars
    <2>2. CASE ReadReport(k)
        BY <2>2 DEF ReadReport, TypeOK, ReportFailure,
            runVars, connVars, pumpVars, sendVars, envVars
    <2> QED  BY <1>2, <2>1, <2>2 DEF ReadPump
<1>3. ASSUME NEW k \in Conns, WritePump(k) PROVE TypeOK'
    <2>1. CASE TakeMessage(k)
        BY <2>1 DEF TakeMessage, TypeOK,
            runVars, connVars, pumpVars, sendVars, envVars
    <2>2. CASE WriterSeesClosedSend(k)
        BY <2>2 DEF WriterSeesClosedSend, CloseFrameSent, TypeOK,
            runVars, connVars, pumpVars, sendVars, envVars
    <2>3. CASE PingFails(k)
        BY <2>3 DEF PingFails, TypeOK,
            runVars, connVars, pumpVars, sendVars, envVars
    <2>4. CASE WriterSeesStop(k)
        BY <2>4 DEF WriterSeesStop, TypeOK,
            runVars, connVars, pumpVars, sendVars, envVars
    <2>5. CASE WriteSucceeds(k)
        BY <2>5 DEF WriteSucceeds, TypeOK, HeldInv,
            runVars, connVars, pumpVars, sendVars, envVars
    <2>6. CASE WriteFails(k)
        BY <2>6 DEF WriteFails, TypeOK,
            runVars, connVars, pumpVars, sendVars, envVars
    <2>7. CASE Requeue(k)
        BY <2>7 DEF Requeue, TypeOK, HeldInv,
            runVars, connVars, pumpVars, sendVars, envVars
    <2>8. CASE RequeuePanics(k)
        BY <2>8 DEF RequeuePanics, TypeOK,
            runVars, connVars, pumpVars, sendVars, envVars
    <2>9. CASE WriteReport(k)
        BY <2>9 DEF WriteReport, TypeOK, ReportFailure,
            runVars, connVars, pumpVars, sendVars, envVars
    <2> QED  BY <1>3, <2>1, <2>2, <2>3, <2>4, <2>5, <2>6, <2>7, <2>8, <2>9 DEF WritePump
<1>4. ASSUME NEW k \in Conns, NEW m \in Msgs, ReadFrame(k, m) PROVE TypeOK'
    BY <1>4 DEF ReadFrame, TypeOK,
            runVars, connVars, pumpVars, sendVars, envVars
<1>5. ASSUME NEW m \in Msgs, Handler(m) PROVE TypeOK'
    <2>1. CASE SendMessage(m)
        BY <2>1, SMTT(60) DEF SendMessage, TypeOK,
            runVars, connVars, pumpVars, sendVars, envVars
    <2>2. CASE SendMessagePanics(m)
        BY <2>2 DEF SendMessagePanics, TypeOK,
            runVars, connVars, pumpVars, sendVars, envVars
    <2> QED  BY <1>5, <2>1, <2>2 DEF Handler
<1>6. CASE LinkBreaks \/ Cancel \/ OwnerStep \/ OwnerStops
    <2>1. CASE LinkBreaks
        BY <2>1 DEF LinkBreaks, TypeOK,
            runVars, connVars, pumpVars, sendVars, envVars
    <2>2. CASE Cancel
        BY <2>2 DEF Cancel, TypeOK,
            runVars, connVars, pumpVars, sendVars, envVars
    <2>3. CASE OwnerStep
        BY <2>3 DEF OwnerStep, OwnerLeaves, OwnerSeesClosed, TypeOK, runVars, connVars, pumpVars, sendVars, envVars
    <2>4. CASE OwnerStops
        BY <2>4 DEF OwnerStops, TypeOK,
            runVars, connVars, pumpVars, sendVars, envVars
    <2> QED  BY <1>6, <2>1, <2>2, <2>3, <2>4
<1>7. CASE UNCHANGED vars
    BY <1>7 DEF TypeOK, vars, runVars, connVars, pumpVars, sendVars, envVars
<1> QED  BY StepCases, <1>1, <1>2, <1>3, <1>4, <1>5, <1>6, <1>7

-----------------------------------------------------------------------------
(* The conjuncts of IInv, one lemma each. *)

LEMMA PumpsStep == TypeOK /\ PumpsInv /\ [Next]_vars => PumpsInv'
<1> SUFFICES ASSUME TypeOK, PumpsInv, [Next]_vars PROVE PumpsInv'
    OBVIOUS
<1> USE ClientAssumption DEF TypeOK, Conns, PumpsInv
<1>1. CASE RunStep
    BY <1>1 DEF RunStep, DialSucceeds, DialFails, ExpiredWaitCancelled, ExpiredWaitElapsed,
        NotifyOwner, RetryWaitCancelled, RetryWaitElapsed, SeesCancel, SeesDone,
        SeesNotifyClose, ResetElapsed, WriteCloseFrame, CloseConn,
        WgWaitReturns, Stop, BeginClose, runVars, connVars, pumpVars, sendVars,
        envVars
<1>2. ASSUME NEW k \in Conns, ReadPump(k) PROVE PumpsInv'
    BY <1>2 DEF ReadPump, ReadFails, ReadReport, ReportFailure, runVars, connVars, pumpVars, sendVars,
        envVars
<1>3. ASSUME NEW k \in Conns, WritePump(k) PROVE PumpsInv'
    <2>1. CASE TakeMessage(k) \/ PingFails(k) \/ WriterSeesStop(k) \/ WriteSucceeds(k)
        BY <2>1 DEF TakeMessage, PingFails, WriterSeesStop, WriteSucceeds,
            runVars, connVars, pumpVars, sendVars, envVars
    <2>2. CASE WriterSeesClosedSend(k)
        BY <2>2 DEF WriterSeesClosedSend, runVars, connVars, pumpVars, sendVars, envVars
    <2>3. CASE WriteFails(k) \/ Requeue(k) \/ RequeuePanics(k) \/ WriteReport(k)
        BY <2>3 DEF WriteFails, Requeue, RequeuePanics, WriteReport, ReportFailure,
            runVars, connVars, pumpVars, sendVars, envVars
    <2> QED  BY <1>3, <2>1, <2>2, <2>3 DEF WritePump
<1>4. ASSUME NEW k \in Conns, NEW m \in Msgs, ReadFrame(k, m) PROVE PumpsInv'
    BY <1>4 DEF ReadFrame, runVars, connVars, pumpVars, sendVars,
        envVars
<1>5. ASSUME NEW m \in Msgs, Handler(m) PROVE PumpsInv'
    BY <1>5 DEF Handler, SendMessage, SendMessagePanics, runVars, connVars, pumpVars, sendVars,
        envVars
<1>6. CASE LinkBreaks \/ Cancel \/ OwnerStep \/ OwnerStops \/ UNCHANGED vars
    BY <1>6 DEF LinkBreaks, Cancel, OwnerStep, OwnerLeaves, OwnerSeesClosed,
        OwnerStops, vars, runVars, connVars, pumpVars, sendVars,
        envVars
<1> QED  BY StepCases, <1>1, <1>2, <1>3, <1>4, <1>5, <1>6

LEMMA HeldStep == TypeOK /\ PumpsInv /\ HeldInv /\ [Next]_vars => HeldInv'
<1> SUFFICES ASSUME TypeOK, PumpsInv, HeldInv, [Next]_vars PROVE HeldInv'
    OBVIOUS
<1> USE ClientAssumption DEF TypeOK, Conns, PumpsInv, HeldInv
<1>1. CASE RunStep
    BY <1>1 DEF RunStep, DialSucceeds, DialFails, ExpiredWaitCancelled, ExpiredWaitElapsed,
        NotifyOwner, RetryWaitCancelled, RetryWaitElapsed, SeesCancel, SeesDone,
        SeesNotifyClose, ResetElapsed, WriteCloseFrame, CloseConn,
        WgWaitReturns, Stop, BeginClose, runVars, connVars, pumpVars, sendVars,
        envVars
<1>2. ASSUME NEW k \in Conns, ReadPump(k) PROVE HeldInv'
    BY <1>2 DEF ReadPump, ReadFails, ReadReport, ReportFailure, runVars, connVars, pumpVars, sendVars,
        envVars
<1>3. ASSUME NEW k \in Conns, WritePump(k) PROVE HeldInv'
    BY <1>3 DEF WritePump, TakeMessage, WriterSeesClosedSend, PingFails, WriterSeesStop,
        WriteSucceeds, WriteFails, Requeue, RequeuePanics, WriteReport,
        ReportFailure, runVars, connVars, pumpVars, sendVars,
        envVars
<1>4. ASSUME NEW k \in Conns, NEW m \in Msgs, ReadFrame(k, m) PROVE HeldInv'
    BY <1>4 DEF ReadFrame, runVars, connVars, pumpVars, sendVars,
        envVars
<1>5. ASSUME NEW m \in Msgs, Handler(m) PROVE HeldInv'
    BY <1>5 DEF Handler, SendMessage, SendMessagePanics, runVars, connVars, pumpVars, sendVars,
        envVars
<1>6. CASE LinkBreaks \/ Cancel \/ OwnerStep \/ OwnerStops \/ UNCHANGED vars
    BY <1>6 DEF LinkBreaks, Cancel, OwnerStep, OwnerLeaves, OwnerSeesClosed,
        OwnerStops, vars, runVars, connVars, pumpVars, sendVars,
        envVars
<1> QED  BY StepCases, <1>1, <1>2, <1>3, <1>4, <1>5, <1>6

LEMMA ShutdownStep == TypeOK /\ ShutdownInv /\ [Next]_vars => ShutdownInv'
<1> SUFFICES ASSUME TypeOK, ShutdownInv, [Next]_vars PROVE ShutdownInv'
    OBVIOUS
<1> USE ClientAssumption DEF TypeOK, Conns, ShutdownInv, Alive
<1>1. CASE RunStep
    BY <1>1 DEF RunStep, DialSucceeds, DialFails, ExpiredWaitCancelled, ExpiredWaitElapsed,
        NotifyOwner, RetryWaitCancelled, RetryWaitElapsed, SeesCancel, SeesDone,
        SeesNotifyClose, ResetElapsed, WriteCloseFrame, CloseConn,
        WgWaitReturns, Stop, BeginClose, runVars, connVars, pumpVars, sendVars,
        envVars
<1>2. ASSUME NEW k \in Conns, ReadPump(k) PROVE ShutdownInv'
    BY <1>2 DEF ReadPump, ReadFails, ReadReport, ReportFailure, runVars, connVars, pumpVars, sendVars,
        envVars
<1>3. ASSUME NEW k \in Conns, WritePump(k) PROVE ShutdownInv'
    BY <1>3 DEF WritePump, TakeMessage, WriterSeesClosedSend, PingFails, WriterSeesStop,
        WriteSucceeds, WriteFails, Requeue, RequeuePanics, WriteReport,
        ReportFailure, runVars, connVars, pumpVars, sendVars,
        envVars
<1>4. ASSUME NEW k \in Conns, NEW m \in Msgs, ReadFrame(k, m) PROVE ShutdownInv'
    BY <1>4 DEF ReadFrame, runVars, connVars, pumpVars, sendVars,
        envVars
<1>5. ASSUME NEW m \in Msgs, Handler(m) PROVE ShutdownInv'
    BY <1>5 DEF Handler, SendMessage, SendMessagePanics, runVars, connVars, pumpVars, sendVars,
        envVars
<1>6. CASE LinkBreaks \/ Cancel \/ OwnerStep \/ OwnerStops \/ UNCHANGED vars
    BY <1>6 DEF LinkBreaks, Cancel, OwnerStep, OwnerLeaves, OwnerSeesClosed,
        OwnerStops, vars, runVars, connVars, pumpVars, sendVars,
        envVars
<1> QED  BY StepCases, <1>1, <1>2, <1>3, <1>4, <1>5, <1>6

LEMMA AnsweredStep == TypeOK /\ AnsweredInv /\ [Next]_vars => AnsweredInv'
<1> SUFFICES ASSUME TypeOK, AnsweredInv, [Next]_vars PROVE AnsweredInv'
    OBVIOUS
<1> USE ClientAssumption DEF TypeOK, Conns, AnsweredInv
<1>1. CASE RunStep
    BY <1>1 DEF RunStep, DialSucceeds, DialFails, ExpiredWaitCancelled, ExpiredWaitElapsed,
        NotifyOwner, RetryWaitCancelled, RetryWaitElapsed, SeesCancel, SeesDone,
        SeesNotifyClose, ResetElapsed, WriteCloseFrame, CloseConn,
        WgWaitReturns, Stop, BeginClose, runVars, connVars, pumpVars, sendVars,
        envVars
<1>2. ASSUME NEW k \in Conns, ReadPump(k) PROVE AnsweredInv'
    BY <1>2 DEF ReadPump, ReadFails, ReadReport, ReportFailure, runVars, connVars, pumpVars, sendVars,
        envVars
<1>3. ASSUME NEW k \in Conns, WritePump(k) PROVE AnsweredInv'
    BY <1>3 DEF WritePump, TakeMessage, WriterSeesClosedSend, PingFails, WriterSeesStop,
        WriteSucceeds, WriteFails, Requeue, RequeuePanics, WriteReport,
        ReportFailure, runVars, connVars, pumpVars, sendVars,
        envVars
<1>4. ASSUME NEW k \in Conns, NEW m \in Msgs, ReadFrame(k, m) PROVE AnsweredInv'
    BY <1>4 DEF ReadFrame, runVars, connVars, pumpVars, sendVars,
        envVars
<1>5. ASSUME NEW m \in Msgs, Handler(m) PROVE AnsweredInv'
    BY <1>5 DEF Handler, SendMessage, SendMessagePanics, runVars, connVars, pumpVars, sendVars,
        envVars
<1>6. CASE LinkBreaks \/ Cancel \/ OwnerStep \/ OwnerStops \/ UNCHANGED vars
    BY <1>6 DEF LinkBreaks, Cancel, OwnerStep, OwnerLeaves, OwnerSeesClosed,
        OwnerStops, vars, runVars, connVars, pumpVars, sendVars,
        envVars
<1> QED  BY StepCases, <1>1, <1>2, <1>3, <1>4, <1>5, <1>6

LEMMA SignalStep == TypeOK /\ PumpsInv /\ ShutdownInv /\ FailureIsSignalled /\ [Next]_vars => FailureIsSignalled'
<1> SUFFICES ASSUME TypeOK, PumpsInv, ShutdownInv, FailureIsSignalled, [Next]_vars PROVE FailureIsSignalled'
    OBVIOUS
<1> USE ClientAssumption DEF TypeOK, Conns, PumpsInv, ShutdownInv, FailureIsSignalled
<1>1. CASE RunStep
    BY <1>1 DEF RunStep, DialSucceeds, DialFails, ExpiredWaitCancelled, ExpiredWaitElapsed,
        NotifyOwner, RetryWaitCancelled, RetryWaitElapsed, SeesCancel, SeesDone,
        SeesNotifyClose, ResetElapsed, WriteCloseFrame, CloseConn,
        WgWaitReturns, Stop, BeginClose, runVars, connVars, pumpVars, sendVars,
        envVars
<1>2. ASSUME NEW k \in Conns, ReadPump(k) PROVE FailureIsSignalled'
    BY <1>2 DEF ReadPump, ReadFails, ReadReport, ReportFailure, runVars, connVars, pumpVars, sendVars,
        envVars
<1>3. ASSUME NEW k \in Conns, WritePump(k) PROVE FailureIsSignalled'
    BY <1>3 DEF WritePump, TakeMessage, WriterSeesClosedSend, PingFails, WriterSeesStop,
        WriteSucceeds, WriteFails, Requeue, RequeuePanics, WriteReport,
        ReportFailure, runVars, connVars, pumpVars, sendVars,
        envVars
<1>4. ASSUME NEW k \in Conns, NEW m \in Msgs, ReadFrame(k, m) PROVE FailureIsSignalled'
    BY <1>4 DEF ReadFrame, runVars, connVars, pumpVars, sendVars,
        envVars
<1>5. ASSUME NEW m \in Msgs, Handler(m) PROVE FailureIsSignalled'
    BY <1>5 DEF Handler, SendMessage, SendMessagePanics, runVars, connVars, pumpVars, sendVars,
        envVars
<1>6. CASE LinkBreaks \/ Cancel \/ OwnerStep \/ OwnerStops \/ UNCHANGED vars
    BY <1>6 DEF LinkBreaks, Cancel, OwnerStep, OwnerLeaves, OwnerSeesClosed,
        OwnerStops, vars, runVars, connVars, pumpVars, sendVars,
        envVars
<1> QED  BY StepCases, <1>1, <1>2, <1>3, <1>4, <1>5, <1>6

LEMMA CauseStep == TypeOK /\ PumpsInv /\ CloseCauseIsCurrent /\ [Next]_vars => CloseCauseIsCurrent'
<1> SUFFICES ASSUME TypeOK, PumpsInv, CloseCauseIsCurrent, [Next]_vars PROVE CloseCauseIsCurrent'
    OBVIOUS
<1> USE ClientAssumption DEF TypeOK, Conns, PumpsInv, CloseCauseIsCurrent
<1>1. CASE RunStep
    BY <1>1 DEF RunStep, DialSucceeds, DialFails, ExpiredWaitCancelled, ExpiredWaitElapsed,
        NotifyOwner, RetryWaitCancelled, RetryWaitElapsed, SeesCancel, SeesDone,
        SeesNotifyClose, ResetElapsed, WriteCloseFrame, CloseConn,
        WgWaitReturns, Stop, BeginClose, runVars, connVars, pumpVars, sendVars,
        envVars
<1>2. ASSUME NEW k \in Conns, ReadPump(k) PROVE CloseCauseIsCurrent'
    BY <1>2 DEF ReadPump, ReadFails, ReadReport, ReportFailure, runVars, connVars, pumpVars, sendVars,
        envVars
<1>3. ASSUME NEW k \in Conns, WritePump(k) PROVE CloseCauseIsCurrent'
    BY <1>3 DEF WritePump, TakeMessage, WriterSeesClosedSend, PingFails, WriterSeesStop,
        WriteSucceeds, WriteFails, Requeue, RequeuePanics, WriteReport,
        ReportFailure, runVars, connVars, pumpVars, sendVars,
        envVars
<1>4. ASSUME NEW k \in Conns, NEW m \in Msgs, ReadFrame(k, m) PROVE CloseCauseIsCurrent'
    BY <1>4 DEF ReadFrame, runVars, connVars, pumpVars, sendVars,
        envVars
<1>5. ASSUME NEW m \in Msgs, Handler(m) PROVE CloseCauseIsCurrent'
    BY <1>5 DEF Handler, SendMessage, SendMessagePanics, runVars, connVars, pumpVars, sendVars,
        envVars
<1>6. CASE LinkBreaks \/ Cancel \/ OwnerStep \/ OwnerStops \/ UNCHANGED vars
    BY <1>6 DEF LinkBreaks, Cancel, OwnerStep, OwnerLeaves, OwnerSeesClosed,
        OwnerStops, vars, runVars, connVars, pumpVars, sendVars,
        envVars
<1> QED  BY StepCases, <1>1, <1>2, <1>3, <1>4, <1>5, <1>6

-----------------------------------------------------------------------------
(* Conservation of messages.  Only five actions move a message; the others keep
   Queued, Held, written and the accepted messages as they are. *)

Accepted == {m \in Msgs : handler[m] = "accepted"}

LEMMA HeldOf ==
    ASSUME NEW h \in [Conns -> Msgs \cup {NoMsg}], NEW c \in Conns,
           \A k \in Conns \ {c} : h[k] = NoMsg
    PROVE  {h[k] : k \in Conns} \ {NoMsg} = {h[c]} \ {NoMsg}
OBVIOUS

LEMMA ActiveWriter ==
    ASSUME TypeOK, PumpsInv, HeldInv,
           NEW k \in Conns, wp[k] \notin {"none", "exited"}
    PROVE  /\ k = conn
           /\ \A j \in Conns \ {k} : held[j] = NoMsg
           /\ Held = {held[k]} \ {NoMsg}
<1>1. k = conn
    BY DEF TypeOK, PumpsInv, Conns
<1>2. \A j \in Conns \ {k} : held[j] = NoMsg
    BY <1>1 DEF TypeOK, PumpsInv, HeldInv, Conns
<1> QED  BY <1>1, <1>2, HeldOf DEF TypeOK, Held

LEMMA WriterMoves ==
    ASSUME TypeOK, PumpsInv, HeldInv,
           NEW k \in Conns, wp[k] \notin {"none", "exited"},
           NEW x \in Msgs \cup {NoMsg}, held' = [held EXCEPT ![k] = x]
    PROVE  Held' = {x} \ {NoMsg}
<1>1. held' \in [Conns -> Msgs \cup {NoMsg}] /\ held'[k] = x
    BY DEF TypeOK
<1>2. \A j \in Conns \ {k} : held'[j] = NoMsg
    BY ActiveWriter DEF TypeOK
<1> QED  BY <1>1, <1>2, HeldOf DEF Held

LEMMA QueuedAppend ==
    ASSUME NEW q \in Seq(Msgs), NEW m \in Msgs,
           \A i, j \in DOMAIN q : q[i] = q[j] => i = j,
           \A i \in DOMAIN q : q[i] # m
    PROVE  /\ {Append(q, m)[i] : i \in DOMAIN Append(q, m)}
                 = {q[i] : i \in DOMAIN q} \cup {m}
           /\ \A i, j \in DOMAIN Append(q, m) :
                 Append(q, m)[i] = Append(q, m)[j] => i = j
<1>1. /\ Append(q, m) \in Seq(Msgs)
      /\ Len(Append(q, m)) = Len(q) + 1
      /\ \A i \in 1..Len(q) : Append(q, m)[i] = q[i]
      /\ Append(q, m)[Len(q) + 1] = m
    OBVIOUS
<1>2. DOMAIN Append(q, m) = DOMAIN q \cup {Len(q) + 1}
    BY <1>1, LenProperties
<1>3. DOMAIN q = 1..Len(q) /\ Len(q) \in Nat
    BY LenProperties
<1> QED  BY <1>1, <1>2, <1>3

LEMMA QueuedTail ==
    ASSUME NEW q \in Seq(Msgs), q # <<>>,
           \A i, j \in DOMAIN q : q[i] = q[j] => i = j
    PROVE  /\ {Tail(q)[i] : i \in DOMAIN Tail(q)} = {q[i] : i \in DOMAIN q} \ {Head(q)}
           /\ Head(q) \in {q[i] : i \in DOMAIN q}
           /\ \A i, j \in DOMAIN Tail(q) : Tail(q)[i] = Tail(q)[j] => i = j
<1>1. /\ Tail(q) \in Seq(Msgs)
      /\ Len(Tail(q)) = Len(q) - 1
      /\ \A i \in 1..Len(Tail(q)) : Tail(q)[i] = q[i + 1]
    BY HeadTailProperties
<1>2. Len(q) \in Nat \ {0} /\ Head(q) = q[1]
    BY EmptySeq
<1>3. DOMAIN q = 1..Len(q) /\ DOMAIN Tail(q) = 1..(Len(q) - 1)
    BY <1>1, LenProperties
<1>4. \A i \in DOMAIN Tail(q) : i + 1 \in DOMAIN q /\ Tail(q)[i] = q[i + 1]
    BY <1>1, <1>2, <1>3
<1>5. \A i \in DOMAIN q : i # 1 => i - 1 \in DOMAIN Tail(q) /\ Tail(q)[i - 1] = q[i]
    BY <1>1, <1>2, <1>3
<1>6. 1 \in DOMAIN q
    BY <1>2, <1>3
<1>7. {Tail(q)[i] : i \in DOMAIN Tail(q)} \subseteq {q[i] : i \in DOMAIN q} \ {Head(q)}
    <2>1. ASSUME NEW i \in DOMAIN Tail(q) PROVE Tail(q)[i] # Head(q)
        BY <1>2, <1>3, <1>4, <1>6, <2>1
    <2> QED  BY <2>1, <1>4
<1>8. {q[i] : i \in DOMAIN q} \ {Head(q)} \subseteq {Tail(q)[i] : i \in DOMAIN Tail(q)}
    <2>1. ASSUME NEW i \in DOMAIN q, q[i] # Head(q)
          PROVE  q[i] \in {Tail(q)[j] : j \in DOMAIN Tail(q)}
        BY <1>2, <1>5, <2>1
    <2> QED  BY <2>1
<1>9. \A i, j \in DOMAIN Tail(q) : Tail(q)[i] = Tail(q)[j] => i = j
    BY <1>3, <1>4
<1> QED  BY <1>2, <1>6, <1>7, <1>8, <1>9

(* What each of the moving actions does to Queued, Held and written. *)

LEMMA SendEffect ==
    ASSUME TypeOK, NothingLostOrDoubled, NEW m \in Msgs, SendMessage(m)
    PROVE  /\ Accepted' = Accepted \cup {m} /\ m \notin Accepted
           /\ m \notin Queued \cup Held \cup written
           /\ Queued' = Queued \cup {m} /\ Held' = Held /\ written' = written
           /\ \A i, j \in DOMAIN send' : send'[i] = send'[j] => i = j
<1>1. Accepted' = Accepted \cup {m} /\ m \notin Accepted
    BY DEF SendMessage, Accepted, TypeOK
<1>2. UNCHANGED <<held, written>> /\ send' = Append(send, m)
    BY DEF SendMessage, pumpVars
<1>3. m \notin Queued \cup Held \cup written
    BY <1>1 DEF NothingLostOrDoubled, Accepted
<1>4. /\ Queued' = Queued \cup {m}
      /\ \A i, j \in DOMAIN send' : send'[i] = send'[j] => i = j
    <2>1. /\ send \in Seq(Msgs) /\ \A i \in DOMAIN send : send[i] # m
          /\ \A i, j \in DOMAIN send : send[i] = send[j] => i = j
        BY <1>3 DEF Queued, TypeOK, NothingLostOrDoubled
    <2>2. /\ {Append(send, m)[i] : i \in DOMAIN Append(send, m)}
                = {send[i] : i \in DOMAIN send} \cup {m}
          /\ \A i, j \in DOMAIN Append(send, m) :
                Append(send, m)[i] = Append(send, m)[j] => i = j
        BY <2>1, QueuedAppend, Zenon
    <2> QED  BY <1>2, <2>2, Zenon DEF Queued
<1> QED  BY <1>1, <1>2, <1>3, <1>4 DEF Held

LEMMA TakeEffect ==
    ASSUME TypeOK, PumpsInv, HeldInv, NothingLostOrDoubled,
           NEW k \in Conns, TakeMessage(k)
    PROVE  /\ Accepted' = Accepted /\ written' = written
           /\ Held = {} /\ Held' = {Head(send)} /\ Head(send) \in Queued
           /\ Queued' = Queued \ {Head(send)}
           /\ \A i, j \in DOMAIN send' : send'[i] = send'[j] => i = j
<1>1. /\ send # <<>> /\ send' = Tail(send) /\ UNCHANGED <<handler, written>>
      /\ held' = [held EXCEPT ![k] = Head(send)] /\ wp[k] = "select"
    BY DEF TakeMessage
<1>2. Head(send) \in Msgs /\ Head(send) # NoMsg
    BY <1>1, HeadTailProperties, ClientAssumption DEF TypeOK
<1>3. Held = {}
    BY <1>1, ActiveWriter DEF HeldInv
<1>4. Held' = {Head(send)}
    BY <1>1, <1>2, WriterMoves
<1>5. send \in Seq(Msgs) /\ \A i, j \in DOMAIN send : send[i] = send[j] => i = j
    BY DEF TypeOK, NothingLostOrDoubled
<1>6. /\ {Tail(send)[i] : i \in DOMAIN Tail(send)}
            = {send[i] : i \in DOMAIN send} \ {Head(send)}
      /\ Head(send) \in {send[i] : i \in DOMAIN send}
      /\ \A i, j \in DOMAIN Tail(send) : Tail(send)[i] = Tail(send)[j] => i = j
    BY <1>1, <1>5, QueuedTail, Zenon
<1>7. Queued' = {Tail(send)[i] : i \in DOMAIN Tail(send)}
    BY <1>1 DEF Queued
<1>8. /\ Queued' = Queued \ {Head(send)} /\ Head(send) \in Queued
      /\ \A i, j \in DOMAIN send' : send'[i] = send'[j] => i = j
    BY <1>1, <1>6, <1>7, Zenon DEF Queued
<1> QED  BY <1>1, <1>3, <1>4, <1>8 DEF Accepted

LEMMA WriteEffect ==
    ASSUME TypeOK, PumpsInv, HeldInv, NEW k \in Conns, WriteSucceeds(k)
    PROVE  /\ Accepted' = Accepted /\ send' = send /\ Queued' = Queued
           /\ held[k] \in Msgs /\ Held = {held[k]} /\ Held' = {}
           /\ written' = written \cup {held[k]}
<1>1. /\ UNCHANGED <<handler, send>> /\ written' = written \cup {held[k]}
      /\ held' = [held EXCEPT ![k] = NoMsg] /\ wp[k] = "write"
    BY DEF WriteSucceeds, sendVars
<1>2. Held = {held[k]} /\ Held' = {} /\ held[k] \in Msgs
    <2>1. held[k] \in Msgs /\ held[k] # NoMsg
        BY <1>1 DEF HeldInv, TypeOK
    <2>2. Held = {held[k]} \ {NoMsg}
        BY <1>1, ActiveWriter
    <2>3. Held' = {NoMsg} \ {NoMsg}
        BY <1>1, WriterMoves
    <2> QED  BY <2>1, <2>2, <2>3
<1> QED  BY <1>1, <1>2 DEF Accepted, Queued

LEMMA RequeueEffect ==
    ASSUME TypeOK, PumpsInv, HeldInv, NothingLostOrDoubled,
           NEW k \in Conns, Requeue(k)
    PROVE  /\ Accepted' = Accepted /\ written' = written
           /\ Held = {held[k]} /\ Held' = {}
           /\ Queued' = Queued \cup {held[k]}
           /\ \A i, j \in DOMAIN send' : send'[i] = send'[j] => i = j
<1>1. /\ UNCHANGED <<handler, written>> /\ send' = Append(send, held[k])
      /\ held' = [held EXCEPT ![k] = NoMsg] /\ wp[k] = "requeue"
    BY DEF Requeue
<1>2. Held = {held[k]} /\ Held' = {} /\ held[k] \in Msgs
    <2>1. held[k] \in Msgs /\ held[k] # NoMsg
        BY <1>1 DEF HeldInv, TypeOK
    <2>2. Held = {held[k]} \ {NoMsg}
        BY <1>1, ActiveWriter
    <2>3. Held' = {NoMsg} \ {NoMsg}
        BY <1>1, WriterMoves
    <2> QED  BY <2>1, <2>2, <2>3
<1>3. held[k] \notin Queued
    BY <1>2 DEF NothingLostOrDoubled
<1>4. send \in Seq(Msgs) /\ \A i, j \in DOMAIN send : send[i] = send[j] => i = j
    BY DEF TypeOK, NothingLostOrDoubled
<1>5. \A i \in DOMAIN send : send[i] # held[k]
    BY <1>3 DEF Queued
<1>6. /\ Queued' = Queued \cup {held[k]}
      /\ \A i, j \in DOMAIN send' : send'[i] = send'[j] => i = j
    <2>1. /\ {Append(send, held[k])[i] : i \in DOMAIN Append(send, held[k])}
                = {send[i] : i \in DOMAIN send} \cup {held[k]}
          /\ \A i, j \in DOMAIN Append(send, held[k]) :
                Append(send, held[k])[i] = Append(send, held[k])[j] => i = j
        BY <1>2, <1>4, <1>5, QueuedAppend, Zenon
    <2> QED  BY <1>1, <2>1, Zenon DEF Queued
<1> QED  BY <1>1, <1>2, <1>6 DEF Accepted

(* Every other step leaves the messages where they are. *)
LEMMA OtherEffect ==
    ASSUME [Next]_vars
    PROVE  \/ UNCHANGED <<handler, send, held, written>>
           \/ \E k \in Conns, m \in Msgs : ReadFrame(k, m)
           \/ \E m \in Msgs : SendMessage(m)
           \/ \E k \in Conns : TakeMessage(k) \/ WriteSucceeds(k) \/ Requeue(k)
<1> USE DEF pumpVars, sendVars
<1>1. CASE RunStep
    BY <1>1 DEF RunStep, DialSucceeds, DialFails, ExpiredWaitCancelled,
        ExpiredWaitElapsed, NotifyOwner, RetryWaitCancelled, RetryWaitElapsed,
        SeesCancel, SeesDone, SeesNotifyClose, ResetElapsed, WriteCloseFrame,
        CloseConn, WgWaitReturns, BeginClose
<1>2. ASSUME NEW k \in Conns, ReadPump(k)
      PROVE  UNCHANGED <<handler, send, held, written>>
    BY <1>2 DEF ReadPump, ReadFails, ReadReport
<1>3. ASSUME NEW k \in Conns, WritePump(k)
      PROVE  \/ UNCHANGED <<handler, send, held, written>>
             \/ TakeMessage(k) \/ WriteSucceeds(k) \/ Requeue(k)
    BY <1>3 DEF WritePump, WriterSeesClosedSend, PingFails, WriterSeesStop,
        WriteFails, RequeuePanics, WriteReport
<1>4. ASSUME NEW m \in Msgs, Handler(m)
      PROVE  UNCHANGED <<handler, send, held, written>> \/ SendMessage(m)
    BY <1>4 DEF Handler, SendMessagePanics
<1>5. CASE LinkBreaks \/ Cancel \/ OwnerStep \/ OwnerStops \/ UNCHANGED vars
    BY <1>5 DEF LinkBreaks, Cancel, OwnerStep, OwnerLeaves, OwnerSeesClosed,
        OwnerStops, vars
<1> QED  BY StepCases, <1>1, <1>2, <1>3, <1>4, <1>5

LEMMA ConservationStep ==
    TypeOK /\ PumpsInv /\ HeldInv /\ NothingLostOrDoubled /\ [Next]_vars
        => NothingLostOrDoubled'
<1> SUFFICES ASSUME TypeOK, PumpsInv, HeldInv, NothingLostOrDoubled, [Next]_vars
             PROVE  NothingLostOrDoubled'
    OBVIOUS
<1>1. CASE UNCHANGED <<handler, send, held, written>>
    BY <1>1 DEF NothingLostOrDoubled, Queued, Held
<1>2. ASSUME NEW k \in Conns, NEW m \in Msgs, ReadFrame(k, m)
      PROVE  NothingLostOrDoubled'
    <2>1. Accepted' = Accepted
        BY <1>2 DEF ReadFrame, Accepted, TypeOK
    <2>2. UNCHANGED <<send, held, written>>
        BY <1>2 DEF ReadFrame, pumpVars, sendVars
    <2> QED  BY <2>1, <2>2 DEF NothingLostOrDoubled, Accepted, Queued, Held
<1>3. ASSUME NEW m \in Msgs, SendMessage(m)
      PROVE  NothingLostOrDoubled'
    BY <1>3, SendEffect DEF NothingLostOrDoubled, Accepted
<1>4. ASSUME NEW k \in Conns, TakeMessage(k)
      PROVE  NothingLostOrDoubled'
    BY <1>4, TakeEffect DEF NothingLostOrDoubled, Accepted
<1>5. ASSUME NEW k \in Conns, WriteSucceeds(k)
      PROVE  NothingLostOrDoubled'
    BY <1>5, WriteEffect DEF NothingLostOrDoubled, Accepted
<1>6. ASSUME NEW k \in Conns, Requeue(k)
      PROVE  NothingLostOrDoubled'
    BY <1>6, RequeueEffect DEF NothingLostOrDoubled, Accepted
<1> QED  BY OtherEffect, <1>1, <1>2, <1>3, <1>4, <1>5, <1>6

-----------------------------------------------------------------------------
(* The inductive invariant and what follows from it. *)

LEMMA InductiveInit == Init => IInv
<1> SUFFICES ASSUME Init PROVE IInv
    OBVIOUS
<1>1. TypeOK
    BY TypeInit
<1>2. PumpsInv /\ HeldInv /\ ShutdownInv /\ AnsweredInv
    BY ClientAssumption DEF Init, PumpsInv, HeldInv, ShutdownInv, AnsweredInv, Conns
<1>3. FailureIsSignalled /\ CloseCauseIsCurrent
    BY DEF Init, FailureIsSignalled, CloseCauseIsCurrent
<1>4. Queued = {} /\ Held = {} /\ DOMAIN send = {}
    BY EmptySeq DEF Init, Queued, Held
<1>5. NothingLostOrDoubled
    BY <1>4 DEF Init, NothingLostOrDoubled
<1> QED  BY <1>1, <1>2, <1>3, <1>5 DEF IInv

LEMMA InductiveStep == IInv /\ [Next]_vars => IInv'
BY TypeStep, PumpsStep, HeldStep, ShutdownStep, AnsweredStep, SignalStep,
   CauseStep, ConservationStep DEF IInv

THEOREM Inductive == Spec => []IInv
BY InductiveInit, InductiveStep, PTL DEF Spec

(* Every variable keeps its type; in particular the send buffer never holds more
   than Capacity messages, and only real messages are written. *)
THEOREM TypeCorrect == Spec => []TypeOK
<1>1. IInv => TypeOK
    BY DEF IInv
<1> QED  BY <1>1, Inductive, PTL

(* client.go:355 and 445: at most one reader and one writer use a connection,
   however many times the client reconnects. *)
THEOREM PumpsNeverOverlap == Spec => []OneReaderOneWriter
<1>1. IInv => OneReaderOneWriter
    BY DEF IInv, PumpsInv, TypeOK, Conns, OneReaderOneWriter
<1> QED  BY <1>1, Inductive, PTL

(* No accepted message is lost, held twice or written twice, through failed
   writes, requeues, resets and shutdown. *)
THEOREM MessagesAreConserved == Spec => []NothingLostOrDoubled
<1>1. IInv => NothingLostOrDoubled
    BY DEF IInv
<1> QED  BY <1>1, Inductive, PTL

(* A pump that dies leaves its failure for Run to find, in every connection. *)
THEOREM FailuresReachRun == Spec => []FailureIsSignalled
<1>1. IInv => FailureIsSignalled
    BY DEF IInv
<1> QED  BY <1>1, Inductive, PTL

(* What Run finds in notifyClose comes from the connection it then closes. *)
THEOREM ResetsOwnConnection == Spec => []CloseCauseIsCurrent
<1>1. IInv => CloseCauseIsCurrent
    BY DEF IInv
<1> QED  BY <1>1, Inductive, PTL

(* No panic before the context ends or Stop is called. *)
THEOREM NoPanicWhileOpen == Spec => []PanicOnlyAtShutdown
<1>1. IInv => PanicOnlyAtShutdown
    BY DEF IInv, ShutdownInv, PanicOnlyAtShutdown, Alive
<1> QED  BY <1>1, Inductive, PTL

-----------------------------------------------------------------------------
(* The requeue. *)

(* The wedge at client.go:498, which the run websocket_requeue exhibits, needs
   exactly one more answer accepted and unwritten than the buffer holds, whatever
   failed and was reset before: with the buffer of NewClient, eleven. *)
THEOREM WedgeNeedsOverload == Spec => [](RequeueCanFinish \/ Overloaded)
<1>1. ASSUME IInv, run = "wgWait", wp[conn] = "requeue", Len(send) = Capacity
      PROVE  Overloaded
    <2>1. /\ conn \in Conns /\ held[conn] \in Held
          /\ send \in [1..Capacity -> Msgs] /\ DOMAIN send = 1..Capacity
        BY <1>1, LenProperties DEF IInv, TypeOK, PumpsInv, HeldInv, Conns, Held
    <2>2. ASSUME NEW k \in Conns, k # conn PROVE held[k] = NoMsg
        <3>1. wp[k] \in {"none", "exited"}
            BY <1>1, <2>1, <2>2 DEF IInv, TypeOK, PumpsInv, Conns
        <3> QED  BY <1>1, <3>1 DEF IInv, HeldInv
    <2>3. Held = {held[conn]}
        BY <2>1, <2>2 DEF Held
    <2>4. Unwritten = Queued \cup {held[conn]} /\ held[conn] \notin Queued
        BY <1>1, <2>3 DEF IInv, NothingLostOrDoubled, Unwritten
    <2>5. send \in Bijection(1..Capacity, Queued)
        <3>1. /\ \A i \in 1..Capacity : send[i] \in Queued
              /\ \A m \in Queued : \E i \in 1..Capacity : send[i] = m
              /\ \A i, j \in 1..Capacity : send[i] = send[j] => i = j
            BY <1>1, <2>1 DEF Queued, IInv, NothingLostOrDoubled
        <3> QED
            BY <2>1, <3>1 DEF Bijection, Injection, IsInjective, Surjection
    <2>6. IsFiniteSet(1..Capacity) /\ Cardinality(1..Capacity) = Capacity
        <3>1. 1 \in Int /\ Capacity \in Int /\ Capacity >= 1
            BY ClientAssumption
        <3>2. /\ IsFiniteSet(1..Capacity)
              /\ Cardinality(1..Capacity)
                    = IF 1 > Capacity THEN 0 ELSE Capacity - 1 + 1
            BY <3>1, FS_Interval, Zenon
        <3> QED  BY <3>1, <3>2
    <2>7. IsFiniteSet(Queued) /\ Cardinality(Queued) = Capacity
        BY <2>5, <2>6, FS_Bijection DEF ExistsBijection
    <2> QED  BY <2>4, <2>7, FS_AddElement DEF Overloaded
<1>2. IInv => RequeueCanFinish \/ Overloaded
    BY <1>1 DEF RequeueCanFinish
<1> QED  BY <1>2, Inductive, PTL

-----------------------------------------------------------------------------
(* The wait for the pumps.  Close has done its work before it begins. *)
CloseInv ==
    /\ run \in {"closeFrame", "closeConn", "wgWait"} => stopped
    /\ run = "wgWait" => link = "closed" /\ ~sendClosed

LEMMA CloseStep == CloseInv /\ [Next]_vars => CloseInv'
<1> SUFFICES ASSUME CloseInv, [Next]_vars PROVE CloseInv'
    OBVIOUS
<1> USE DEF CloseInv, runVars, connVars, sendVars, envVars
<1>1. CASE RunStep
    BY <1>1 DEF RunStep, DialSucceeds, DialFails, ExpiredWaitCancelled,
        ExpiredWaitElapsed, NotifyOwner, RetryWaitCancelled, RetryWaitElapsed,
        SeesCancel, SeesDone, SeesNotifyClose, ResetElapsed, WriteCloseFrame,
        CloseConn, WgWaitReturns, BeginClose, Stop
<1>2. ASSUME NEW k \in Conns, ReadPump(k) PROVE CloseInv'
    BY <1>2 DEF ReadPump, ReadFails, ReadReport
<1>3. ASSUME NEW k \in Conns, WritePump(k) PROVE CloseInv'
    BY <1>3 DEF WritePump, TakeMessage, WriterSeesClosedSend, PingFails,
        WriterSeesStop, WriteSucceeds, WriteFails, Requeue, RequeuePanics,
        WriteReport
<1>4. ASSUME NEW k \in Conns, NEW m \in Msgs, ReadFrame(k, m) PROVE CloseInv'
    BY <1>4 DEF ReadFrame
<1>5. ASSUME NEW m \in Msgs, Handler(m) PROVE CloseInv'
    BY <1>5 DEF Handler, SendMessage, SendMessagePanics
<1>6. CASE LinkBreaks \/ Cancel \/ OwnerStep \/ OwnerStops \/ UNCHANGED vars
    BY <1>6 DEF LinkBreaks, Cancel, OwnerStep, OwnerLeaves, OwnerSeesClosed,
        OwnerStops, vars
<1> QED  BY StepCases, <1>1, <1>2, <1>3, <1>4, <1>5, <1>6

(* Each pump has a case of its select, or a failure, to go on with: what the two
   guards of ReadPump and WritePump ask for is there whenever Run waits, but for
   the room of the requeue (WedgeNeedsOverload says when that is missing). *)
THEOREM WaitFindsConnectionClosed ==
    Spec => [](run = "wgWait" => stopped /\ link = "closed" /\ ~sendClosed)
<1>1. Init => CloseInv
    BY DEF Init, CloseInv
<1>2. CloseInv => (run = "wgWait" => stopped /\ link = "closed" /\ ~sendClosed)
    BY DEF CloseInv
<1> QED  BY <1>1, <1>2, CloseStep, PTL DEF Spec

(* On a closed connection a pump only goes forward. *)
LEMMA ReaderAdvances ==
    ASSUME TypeOK, NEW k \in Conns, ReadPump(k)
    PROVE  /\ \/ rp[k] = "read" /\ rp' = [rp EXCEPT ![k] = "report"]
              \/ rp[k] = "report" /\ rp' = [rp EXCEPT ![k] = "exited"]
           /\ UNCHANGED <<conn, wp>>
BY DEF ReadPump, ReadFails, ReadReport, connVars

LEMMA WriterAdvances ==
    ASSUME TypeOK, link = "closed", NEW k \in Conns, WritePump(k)
    PROVE  /\ \/ wp[k] = "select" /\ wp' = [wp EXCEPT ![k] = "write"]
              \/ wp[k] = "select" /\ wp' = [wp EXCEPT ![k] = "report"]
              \/ wp[k] = "select" /\ wp' = [wp EXCEPT ![k] = "exited"]
              \/ wp[k] = "write" /\ wp' = [wp EXCEPT ![k] = "requeue"]
              \/ wp[k] = "requeue" /\ wp' = [wp EXCEPT ![k] = "report"]
              \/ wp[k] = "report" /\ wp' = [wp EXCEPT ![k] = "exited"]
              \/ wp' = wp
           /\ UNCHANGED <<conn, rp>>
BY DEF WritePump, TakeMessage, WriterSeesClosedSend, PingFails, WriterSeesStop,
    WriteSucceeds, WriteFails, Requeue, RequeuePanics, WriteReport, connVars, pumpVars

(* Run waits for the pumps through at most PumpsLeft, that is six, steps of
   theirs: what ResetEnds says without the fairness that makes them take them. *)
THEOREM WaitIsBounded == Spec => WaitCountsDown
<1>1. ASSUME IInv, CloseInv, [Next]_vars, run = "wgWait", run' = "wgWait"
      PROVE  UNCHANGED <<conn, rp[conn], wp[conn]>> \/ PumpsLeft' < PumpsLeft
    <2>0. link = "closed" /\ TypeOK /\ conn \in Conns
        BY <1>1 DEF CloseInv, IInv, PumpsInv, TypeOK, Conns
    <2> USE DEF runVars, connVars, pumpVars
    <2>1. CASE RunStep
        BY <1>1, <2>1 DEF RunStep, DialSucceeds, DialFails, ExpiredWaitCancelled,
            ExpiredWaitElapsed, NotifyOwner, RetryWaitCancelled, RetryWaitElapsed,
            SeesCancel, SeesDone, SeesNotifyClose, ResetElapsed, WriteCloseFrame,
            CloseConn, WgWaitReturns, BeginClose
    <2>2. ASSUME NEW k \in Conns, ReadPump(k)
          PROVE  UNCHANGED <<conn, rp[conn], wp[conn]>> \/ PumpsLeft' < PumpsLeft
        BY <2>0, <2>2, ReaderAdvances DEF PumpsLeft, TypeOK
    <2>3. ASSUME NEW k \in Conns, WritePump(k)
          PROVE  UNCHANGED <<conn, rp[conn], wp[conn]>> \/ PumpsLeft' < PumpsLeft
        BY <2>0, <2>3, WriterAdvances DEF PumpsLeft, TypeOK
    <2>4. ASSUME NEW k \in Conns, NEW m \in Msgs, ReadFrame(k, m)
          PROVE  UNCHANGED <<conn, rp, wp>>
        BY <2>4 DEF ReadFrame
    <2>5. ASSUME NEW m \in Msgs, Handler(m)
          PROVE  UNCHANGED <<conn, rp, wp>>
        BY <2>5 DEF Handler, SendMessage, SendMessagePanics
    <2>6. CASE LinkBreaks \/ Cancel \/ OwnerStep \/ OwnerStops \/ UNCHANGED vars
        BY <2>6 DEF LinkBreaks, Cancel, OwnerStep, OwnerLeaves, OwnerSeesClosed,
            OwnerStops, vars
    <2> QED  BY <1>1, StepCases, <2>1, <2>2, <2>3, <2>4, <2>5, <2>6
<1>2. Init => CloseInv
    BY DEF Init, CloseInv
<1>3. IInv /\ CloseInv /\ [Next]_vars =>
        [run = "wgWait" /\ run' = "wgWait" =>
            UNCHANGED <<conn, rp[conn], wp[conn]>> \/ PumpsLeft' < PumpsLeft]_vars
    BY <1>1
<1> QED
    BY <1>2, <1>3, CloseStep, Inductive, PTL DEF Spec, WaitCountsDown

-----------------------------------------------------------------------------
(* Refinement. *)

LEMMA OpenStaysShut ==
    ASSUME [Next]_vars,
           \/ ~Alive \/ ctxDone \/ doneClosed
           \/ run \in {"expiredWait", "notifyExpired", "returned"}
    PROVE  \/ ~Alive' \/ ctxDone' \/ doneClosed'
           \/ run' \in {"expiredWait", "notifyExpired", "returned"}
<1> USE DEF runVars, envVars, Alive
<1>1. CASE RunStep
    BY <1>1 DEF RunStep, DialSucceeds, DialFails, ExpiredWaitCancelled,
        ExpiredWaitElapsed, NotifyOwner, RetryWaitCancelled,
        RetryWaitElapsed, SeesCancel, SeesDone, SeesNotifyClose,
        ResetElapsed, WriteCloseFrame, CloseConn, WgWaitReturns, BeginClose,
        Stop
<1>2. ASSUME NEW k \in Conns, ReadPump(k)
      PROVE  UNCHANGED <<crash, ctxDone, doneClosed, run>>
    BY <1>2 DEF ReadPump, ReadFails, ReadReport
<1>3. ASSUME NEW k \in Conns, WritePump(k)
      PROVE  ~Alive' \/ UNCHANGED <<crash, ctxDone, doneClosed, run>>
    BY <1>3 DEF WritePump, TakeMessage, WriterSeesClosedSend, PingFails,
        WriterSeesStop, WriteSucceeds, WriteFails, Requeue, RequeuePanics,
        WriteReport
<1>4. ASSUME NEW k \in Conns, NEW m \in Msgs, ReadFrame(k, m)
      PROVE  UNCHANGED <<crash, ctxDone, doneClosed, run>>
    BY <1>4 DEF ReadFrame
<1>5. ASSUME NEW m \in Msgs, Handler(m)
      PROVE  ~Alive' \/ UNCHANGED <<crash, ctxDone, doneClosed, run>>
    BY <1>5 DEF Handler, SendMessage, SendMessagePanics
<1>6. CASE LinkBreaks \/ Cancel \/ OwnerStep \/ OwnerStops \/ UNCHANGED vars
    BY <1>6 DEF LinkBreaks, Cancel, OwnerStep, OwnerLeaves, OwnerSeesClosed,
        OwnerStops, vars
<1> QED  BY StepCases, <1>1, <1>2, <1>3, <1>4, <1>5, <1>6

(* Every step of the client is a step of the outbox its callers see, or leaves
   it alone: accepting and writing are the only things that happen to a
   message, whatever happens to connections.  (That an open outbox delivers is
   checked by TLC.) *)
THEOREM ImplementsOutbox == Spec => Outbox!SafeSpec
<1> DEFINE pending == Queued \cup Held
           open == /\ Alive /\ ~ctxDone /\ ~doneClosed
                   /\ run \notin {"expiredWait", "notifyExpired", "returned"}
<1>1. Init => Outbox!Init
    <2>1. Init => Queued = {} /\ Held = {}
        BY EmptySeq DEF Init, Queued, Held
    <2> QED  BY <2>1 DEF Init, Outbox!Init, Alive
<1>2. ASSUME IInv, [Next]_vars
      PROVE  [Outbox!Next]_(Outbox!outboxVars)
    <2> USE <1>2 DEF Outbox!outboxVars, Outbox!Next
    <2>1. TypeOK /\ PumpsInv /\ HeldInv /\ NothingLostOrDoubled
        BY DEF IInv
    <2>2. open' => open
        BY OpenStaysShut
    <2>3. CASE UNCHANGED <<handler, send, held, written>>
        <3>1. UNCHANGED <<pending, written>>
            BY <2>3 DEF Queued, Held
        <3> QED  BY <2>2, <3>1 DEF Outbox!Shut
    <2>4. ASSUME NEW k \in Conns, NEW m \in Msgs, ReadFrame(k, m)
          PROVE  UNCHANGED <<pending, written, open>>
        BY <2>4 DEF ReadFrame, pumpVars, sendVars, runVars, envVars, Queued,
            Held, Alive
    <2>5. ASSUME NEW m \in Msgs, SendMessage(m)
          PROVE  Outbox!Accept(m)
        <3>1. UNCHANGED open
            BY <2>5 DEF SendMessage, runVars, envVars, Alive
        <3> QED  BY <2>1, <2>5, <3>1, SendEffect DEF Outbox!Accept
    <2>6. ASSUME NEW k \in Conns, TakeMessage(k)
          PROVE  UNCHANGED <<pending, written, open>>
        <3>1. UNCHANGED open
            BY <2>6 DEF TakeMessage, runVars, envVars, Alive
        <3> QED  BY <2>1, <2>6, <3>1, TakeEffect
    <2>7. ASSUME NEW k \in Conns, WriteSucceeds(k)
          PROVE  \E m \in Msgs : Outbox!Deliver(m)
        <3>1. UNCHANGED open
            BY <2>7 DEF WriteSucceeds, runVars, envVars, Alive
        <3>2. held[k] \notin Queued
            BY <2>1, <2>7, WriteEffect DEF NothingLostOrDoubled
        <3>3. Outbox!Deliver(held[k]) /\ held[k] \in Msgs
            BY <2>1, <2>7, <3>1, <3>2, WriteEffect DEF Outbox!Deliver
        <3> QED  BY <3>3
    <2>8. ASSUME NEW k \in Conns, Requeue(k)
          PROVE  UNCHANGED <<pending, written, open>>
        <3>1. UNCHANGED open
            BY <2>8 DEF Requeue, runVars, envVars, Alive
        <3> QED  BY <2>1, <2>8, <3>1, RequeueEffect
    <2> QED  BY OtherEffect, <2>3, <2>4, <2>5, <2>6, <2>7, <2>8
<1> QED  BY <1>1, <1>2, Inductive, PTL DEF Spec, Outbox!SafeSpec

(* Where the goroutine of Run may be, given what its owner sees of the client. *)
SessionInv ==
    /\ run \in {"connected", "closeFrame", "closeConn", "wgWait"} => isConnected
    /\ run \in {"dial", "retryWait", "expiredWait", "notifyExpired"}
          => ~isConnected /\ owner # "notified"
    /\ expiredClosed => /\ doneClosed /\ isConnected /\ sendClosed
                        /\ run \in {"closeFrame", "closeConn", "returned"}
    /\ owner = "notified" => run = "returned" \/ expiredClosed

LEMMA SessionInit == Init => SessionInv
BY DEF Init, SessionInv

LEMMA SessionStep == TypeOK /\ SessionInv /\ [Next]_vars => SessionInv'
<1> SUFFICES ASSUME TypeOK, SessionInv, [Next]_vars PROVE SessionInv'
    OBVIOUS
<1> USE DEF SessionInv, TypeOK, RunPC, runVars, connVars, sendVars, envVars
<1>1. CASE RunStep
    BY <1>1 DEF RunStep, DialSucceeds, DialFails, ExpiredWaitCancelled,
        ExpiredWaitElapsed, NotifyOwner, RetryWaitCancelled,
        RetryWaitElapsed, SeesCancel, SeesDone, SeesNotifyClose,
        ResetElapsed, WriteCloseFrame, CloseConn, WgWaitReturns, BeginClose,
        Stop
<1>2. ASSUME NEW k \in Conns, ReadPump(k) PROVE SessionInv'
    BY <1>2 DEF ReadPump, ReadFails, ReadReport
<1>3. ASSUME NEW k \in Conns, WritePump(k) PROVE SessionInv'
    BY <1>3 DEF WritePump, TakeMessage, WriterSeesClosedSend, PingFails,
        WriterSeesStop, WriteSucceeds, WriteFails, Requeue, RequeuePanics,
        WriteReport
<1>4. ASSUME NEW k \in Conns, NEW m \in Msgs, ReadFrame(k, m) PROVE SessionInv'
    BY <1>4 DEF ReadFrame
<1>5. ASSUME NEW m \in Msgs, Handler(m) PROVE SessionInv'
    BY <1>5 DEF Handler, SendMessage, SendMessagePanics
<1>6. CASE LinkBreaks \/ Cancel \/ OwnerStep \/ OwnerStops \/ UNCHANGED vars
    BY <1>6 DEF LinkBreaks, Cancel, OwnerStep, OwnerLeaves, OwnerSeesClosed,
        OwnerStops, vars
<1> QED  BY StepCases, <1>1, <1>2, <1>3, <1>4, <1>5, <1>6

(* Proxy.Run and Tailer.Run may take the client for the session it is: an
   expired session is never dialled again and is reported at most once, and a
   report comes of an expiry or of Stop only.  (That an expiry is reported in
   the end is checked by TLC.) *)
THEOREM ImplementsSession == Spec => Session!SafeSpec
<1>1. Init => Session!Init
    BY DEF Init, Session!Init
<1>2. ASSUME TypeOK, SessionInv, [Next]_vars
      PROVE  [Session!Next]_(Session!sessionVars)
    <2> USE <1>2 DEF Session!sessionVars, Session!Next, SessionInv, TypeOK,
        RunPC, runVars, envVars
    <2>1. CASE RunStep
        <3>1. CASE DialSucceeds
            BY <3>1 DEF DialSucceeds, Session!Connect
        <3>2. CASE DialFails
            BY <3>2 DEF DialFails, Session!Expire
        <3>3. CASE NotifyOwner
            BY <3>3 DEF NotifyOwner, Session!Signal
        <3>4. CASE ExpiredWaitCancelled \/ RetryWaitCancelled
            BY <3>4 DEF ExpiredWaitCancelled, RetryWaitCancelled, Stop,
                Session!Stop
        <3>5. CASE WgWaitReturns
            BY <3>5 DEF WgWaitReturns, Session!Lose
        <3>6. CASE \/ ExpiredWaitElapsed \/ RetryWaitElapsed
                   \/ SeesCancel \/ SeesDone \/ SeesNotifyClose \/ ResetElapsed
                   \/ WriteCloseFrame \/ CloseConn
            BY <3>6 DEF ExpiredWaitElapsed, RetryWaitElapsed, SeesCancel,
                SeesDone, SeesNotifyClose, ResetElapsed, WriteCloseFrame,
                CloseConn, BeginClose
        <3> QED  BY <2>1, <3>1, <3>2, <3>3, <3>4, <3>5, <3>6 DEF RunStep
    <2>2. ASSUME NEW k \in Conns, ReadPump(k) \/ WritePump(k)
          PROVE  UNCHANGED <<owner, isConnected, run, ctxDone, doneClosed>>
        BY <2>2 DEF ReadPump, ReadFails, ReadReport, WritePump, TakeMessage,
            WriterSeesClosedSend, PingFails, WriterSeesStop, WriteSucceeds,
            WriteFails, Requeue, RequeuePanics, WriteReport
    <2>3. ASSUME NEW k \in Conns, NEW m \in Msgs, ReadFrame(k, m)
          PROVE  UNCHANGED <<owner, isConnected, run, ctxDone, doneClosed>>
        BY <2>3 DEF ReadFrame
    <2>4. ASSUME NEW m \in Msgs, Handler(m)
          PROVE  UNCHANGED <<owner, isConnected, run, ctxDone, doneClosed>>
        BY <2>4 DEF Handler, SendMessage, SendMessagePanics
    <2>5. CASE Cancel
        BY <2>5 DEF Cancel, Session!Cancel
    <2>6. CASE OwnerStep
        BY <2>6 DEF OwnerStep, OwnerLeaves, OwnerSeesClosed, Session!Release
    <2>7. CASE OwnerStops
        BY <2>7 DEF OwnerStops, Session!Stop
    <2>8. CASE LinkBreaks \/ UNCHANGED vars
        BY <2>8 DEF LinkBreaks, vars
    <2> QED  BY StepCases, <2>1, <2>2, <2>3, <2>4, <2>5, <2>6, <2>7, <2>8
<1>3. TypeOK /\ SessionInv /\ [Next]_vars => SessionInv'
    BY SessionStep
<1> QED
    BY <1>1, <1>2, <1>3, SessionInit, TypeCorrect, PTL DEF Spec, Session!SafeSpec

=============================================================================
