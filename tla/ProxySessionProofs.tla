------------------------- MODULE ProxySessionProofs -------------------------
(***************************************************************************)
(* What holds of ProxySession for every number of attempts, tries,         *)
(* sessions and events, and for both consumers.  ClientsInv says which     *)
(* clients exist, CountInv bounds nAttempts, and FailedInv relates         *)
(* nAttempts to the sessions it counts, however its accesses interleave.   *)
(* RunLeft, the number of moves that Run has left once cancelled, only     *)
(* falls.                                                                  *)
(***************************************************************************)
EXTENDS ProxySession, TLAPS

(* The sessions nAttempts counts are the last ones, or those before the last while
   it is being incremented. *)
Counted == IF run \in {"launched", "incremented"} THEN cur - 1 ELSE cur

(* A session that was not seen to connect, or whose reset did not count. *)
Unheeded(s) == ready[s] \in {"polling", "connected"} \/ s \in lost

ClientsInv ==
    /\ \A s \in Sessions : s > cur => client[s] = "none" /\ ready[s] = "none"
    /\ \A s \in Sessions : s < cur => client[s] = "gone"
    /\ run \in {"sendLoading", "authorize", "authWait", "sendWarning", "sendReconnecting",
                "sendExpired", "sendAuthError"} /\ cur # 0 => client[cur] = "gone"
    /\ run = "sendDone" => ctxDone
    /\ run = "returned" /\ cur # 0 => ctxDone \/ client[cur] = "gone"
    /\ run = "sendWarning" => cur < MaxSessions
    /\ run \in {"launched", "incremented", "select", "sendExpired"} => cur # 0

CountInv ==
    /\ run = "authorize" => tries < MaxTries
    /\ run \in {"sendLoading", "authorize", "authWait", "sendWarning",
                "sendReconnecting", "launched"} => attempts < MaxAttempts
    /\ run = "incremented" => loaded < MaxAttempts

FailedInv ==
    /\ run \in {"launched", "incremented"} => Unheeded(cur)
    /\ attempts <= Counted
    /\ \A s \in Sessions : s <= Counted /\ s > Counted - attempts => Unheeded(s)
    /\ run = "incremented" =>
          /\ loaded < cur
          /\ \A s \in Sessions : s < cur /\ s >= cur - loaded => Unheeded(s)
    /\ run = "sendExpired" =>
          /\ cur >= MaxAttempts
          /\ \A s \in Sessions : s <= cur /\ s > cur - MaxAttempts => Unheeded(s)

IInv == TypeOK /\ ClientsInv /\ CountInv /\ FailedInv
-----------------------------------------------------------------------------
LEMMA StepCases ==
    ASSUME [Next]_vars
    PROVE  \/ RunStep \/ ConsumerStep \/ Cancel \/ UNCHANGED vars
           \/ \E s \in Sessions : ReadyStep(s) \/ ClientStep(s)
           \/ \E e \in Events, s \in Sessions : EventArrives(s, e)
           \/ \E e \in Events : SendEvent(e)
BY DEF Next, Resting

(* Types. *)
LEMMA TypeInit == Init => TypeOK
<1> SUFFICES ASSUME Init PROVE TypeOK
    OBVIOUS
<1> USE SessionAssumption DEF Init, Sessions
<1>1. ctxDone \in BOOLEAN /\ run \in RunPC
    BY DEF RunPC
<1>0. tries \in 0..MaxTries
    OBVIOUS
<1>2. attempts \in 0..MaxAttempts /\ loaded \in 0..MaxAttempts /\ cur \in 0..MaxSessions
    OBVIOUS
<1>3. /\ client \in [Sessions -> {"none", "dialing", "connected", "expiring", "gone"}]
      /\ ready \in [Sessions -> {"none", "polling", "connected", "sending", "done"}]
      /\ event \in [Events -> {"none", "sending", "done"}]
    OBVIOUS
<1>4. /\ outClosed \in BOOLEAN
      /\ consumer \in Ranging \cup Selecting \cup {"exiting", "returning", "left"}
      /\ crash \in {"none", "exit", "sendOnClosedOutCh", "nilElement", "nilDeviceToken"}
      /\ lost \subseteq Sessions
    BY DEF Ranging, Selecting
<1> QED
    BY <1>0, <1>1, <1>2, <1>3, <1>4 DEF TypeOK

(* Every action keeps the types; nAttempts needs CountInv. *)
LEMMA TypeStep ==
    ASSUME TypeOK, CountInv, ClientsInv, [Next]_vars
    PROVE  TypeOK'
<1> USE SessionAssumption DEF TypeOK, RunPC, Sessions, Alive, CountInv, ClientsInv, Ranging,
        Selecting
<1>1. CASE AuthorizeSucceeds
    BY <1>1 DEF AuthorizeSucceeds, Launch, goroutines, sessionVars
<1>2. CASE AuthorizeFails
    BY <1>2 DEF AuthorizeFails, goroutines, sessionVars
<1>3. CASE AuthWaitElapsed
    BY <1>3 DEF AuthWaitElapsed, goroutines, sessionVars
<1>4. CASE AuthWaitCancelled
    BY <1>4 DEF AuthWaitCancelled, goroutines, sessionVars
<1>5. CASE LoadAttempts
    BY <1>5 DEF LoadAttempts, goroutines, sessionVars
<1>6. CASE StoreAttempts
    BY <1>6 DEF StoreAttempts, goroutines, sessionVars
<1>7. CASE SelectCancelled
    BY <1>7 DEF SelectCancelled, goroutines, sessionVars
<1>8. CASE SelectExpired
    BY <1>8 DEF SelectExpired, goroutines, sessionVars
<1>9. CASE RunSendsState
    BY <1>9 DEF RunSendsState, goroutines, sessionVars
<1>10. CASE RunSendsLast
    BY <1>10 DEF RunSendsLast, goroutines, sessionVars
<1>17. CASE SendWarning
    BY <1>17 DEF SendWarning, Launch, goroutines, sessionVars
<1>11. CASE ConsumerStep
    BY <1>11 DEF ConsumerStep, ConsumerEnds, ConsumerSeesClose, ConsumerSeesStreamDone, goroutines, sessionVars
<1>12. CASE Cancel \/ UNCHANGED vars
    <2>1. CASE Cancel
        BY <2>1 DEF Cancel, goroutines, sessionVars
    <2>2. CASE UNCHANGED vars
        BY <2>2 DEF vars, goroutines, sessionVars
    <2> QED  BY <1>12, <2>1, <2>2
<1>13. ASSUME NEW s \in Sessions, ReadyStep(s) PROVE TypeOK'
    <2>1. CASE SeesConnected(s)
        BY <2>1 DEF SeesConnected, goroutines, sessionVars
    <2>2. CASE ResetAttempts(s)
        BY <2>2 DEF ResetAttempts, goroutines, sessionVars
    <2>3. CASE SendReady(s)
        BY <2>3 DEF SendReady, goroutines, sessionVars
    <2> QED  BY <1>13, <2>1, <2>2, <2>3 DEF ReadyStep
<1>14. ASSUME NEW s \in Sessions, ClientStep(s) PROVE TypeOK'
    <2>1. CASE ClientConnects(s)
        BY <2>1 DEF ClientConnects, goroutines, sessionVars
    <2>2. CASE ClientLosesConnection(s)
        BY <2>2 DEF ClientLosesConnection, goroutines, sessionVars
    <2>3. CASE ClientExpires(s)
        BY <2>3 DEF ClientExpires, goroutines, sessionVars
    <2> QED  BY <1>14, <2>1, <2>2, <2>3 DEF ClientStep
<1>15. ASSUME NEW s \in Sessions, NEW e \in Events, EventArrives(s, e)
      PROVE  TypeOK'
    BY <1>15 DEF EventArrives, goroutines, sessionVars
<1>16. ASSUME NEW e \in Events, SendEvent(e) PROVE TypeOK'
    BY <1>16 DEF SendEvent, goroutines, sessionVars
<1> HIDE DEF TypeOK, RunPC, Sessions, Alive, CountInv, ClientsInv
<1> QED
    BY StepCases, <1>1, <1>2, <1>3, <1>4, <1>5, <1>6, <1>7, <1>8, <1>9, <1>10, <1>11, <1>12, <1>13, <1>14, <1>15, <1>16, <1>17 DEF RunStep

(* A client is created only when the former one is gone. *)
LEMMA ClientsStep ==
    ASSUME TypeOK, ClientsInv, [Next]_vars
    PROVE  ClientsInv'
<1> USE SessionAssumption DEF TypeOK, RunPC, Sessions, Alive, ClientsInv
<1>1. CASE AuthorizeSucceeds
    BY <1>1 DEF AuthorizeSucceeds, Launch, goroutines, sessionVars
<1>2. CASE AuthorizeFails
    BY <1>2 DEF AuthorizeFails, goroutines, sessionVars
<1>3. CASE AuthWaitElapsed
    BY <1>3 DEF AuthWaitElapsed, goroutines, sessionVars
<1>4. CASE AuthWaitCancelled
    BY <1>4 DEF AuthWaitCancelled, goroutines, sessionVars
<1>5. CASE LoadAttempts
    BY <1>5 DEF LoadAttempts, goroutines, sessionVars
<1>6. CASE StoreAttempts
    BY <1>6 DEF StoreAttempts, goroutines, sessionVars
<1>7. CASE SelectCancelled
    BY <1>7 DEF SelectCancelled, goroutines, sessionVars
<1>8. CASE SelectExpired
    BY <1>8 DEF SelectExpired, goroutines, sessionVars
<1>9. CASE RunSendsState
    BY <1>9 DEF RunSendsState, goroutines, sessionVars
<1>10. CASE RunSendsLast
    BY <1>10 DEF RunSendsLast, goroutines, sessionVars
<1>17. CASE SendWarning
    BY <1>17 DEF SendWarning, Launch, goroutines, sessionVars
<1>11. CASE ConsumerStep
    BY <1>11 DEF ConsumerStep, ConsumerEnds, ConsumerSeesClose, ConsumerSeesStreamDone, goroutines, sessionVars
<1>12. CASE Cancel \/ UNCHANGED vars
    BY <1>12 DEF Cancel, vars, goroutines, sessionVars
<1>13. ASSUME NEW s \in Sessions, ReadyStep(s) PROVE ClientsInv'
    <2>1. CASE SeesConnected(s)
        BY <2>1 DEF SeesConnected, goroutines, sessionVars
    <2>2. CASE ResetAttempts(s)
        BY <2>2 DEF ResetAttempts, goroutines, sessionVars
    <2>3. CASE SendReady(s)
        BY <2>3 DEF SendReady, goroutines, sessionVars
    <2> QED  BY <1>13, <2>1, <2>2, <2>3 DEF ReadyStep
<1>14. ASSUME NEW s \in Sessions, ClientStep(s) PROVE ClientsInv'
    <2>1. CASE ClientConnects(s)
        BY <2>1 DEF ClientConnects, goroutines, sessionVars
    <2>2. CASE ClientLosesConnection(s)
        BY <2>2 DEF ClientLosesConnection, goroutines, sessionVars
    <2>3. CASE ClientExpires(s)
        BY <2>3 DEF ClientExpires, goroutines, sessionVars
    <2> QED  BY <1>14, <2>1, <2>2, <2>3 DEF ClientStep
<1>15. ASSUME NEW s \in Sessions, NEW e \in Events, EventArrives(s, e)
      PROVE  ClientsInv'
    BY <1>15 DEF EventArrives, goroutines, sessionVars
<1>16. ASSUME NEW e \in Events, SendEvent(e) PROVE ClientsInv'
    BY <1>16 DEF SendEvent, goroutines, sessionVars
<1> HIDE DEF TypeOK, RunPC, Sessions, Alive, ClientsInv
<1> QED
    BY StepCases, <1>1, <1>2, <1>3, <1>4, <1>5, <1>6, <1>7, <1>8, <1>9, <1>10, <1>11, <1>12, <1>13, <1>14, <1>15, <1>16, <1>17 DEF RunStep

(* Run starts an authorization only below MaxAttempts. *)
LEMMA CountStep ==
    ASSUME TypeOK, CountInv, [Next]_vars
    PROVE  CountInv'
<1> USE SessionAssumption DEF TypeOK, RunPC, Sessions, Alive, CountInv
<1>1. CASE AuthorizeSucceeds
    BY <1>1 DEF AuthorizeSucceeds, Launch, goroutines, sessionVars
<1>2. CASE AuthorizeFails
    BY <1>2 DEF AuthorizeFails, goroutines, sessionVars
<1>3. CASE AuthWaitElapsed
    BY <1>3 DEF AuthWaitElapsed, goroutines, sessionVars
<1>4. CASE AuthWaitCancelled
    BY <1>4 DEF AuthWaitCancelled, goroutines, sessionVars
<1>5. CASE LoadAttempts
    BY <1>5 DEF LoadAttempts, goroutines, sessionVars
<1>6. CASE StoreAttempts
    BY <1>6 DEF StoreAttempts, goroutines, sessionVars
<1>7. CASE SelectCancelled
    BY <1>7 DEF SelectCancelled, goroutines, sessionVars
<1>8. CASE SelectExpired
    BY <1>8 DEF SelectExpired, goroutines, sessionVars
<1>9. CASE RunSendsState
    BY <1>9 DEF RunSendsState, goroutines, sessionVars
<1>10. CASE RunSendsLast
    BY <1>10 DEF RunSendsLast, goroutines, sessionVars
<1>17. CASE SendWarning
    BY <1>17 DEF SendWarning, Launch, goroutines, sessionVars
<1>11. CASE ConsumerStep
    BY <1>11 DEF ConsumerStep, ConsumerEnds, ConsumerSeesClose, ConsumerSeesStreamDone, goroutines, sessionVars
<1>12. CASE Cancel \/ UNCHANGED vars
    BY <1>12 DEF Cancel, vars, goroutines, sessionVars
<1>13. ASSUME NEW s \in Sessions, ReadyStep(s) PROVE CountInv'
    <2>1. CASE SeesConnected(s)
        BY <2>1 DEF SeesConnected, goroutines, sessionVars
    <2>2. CASE ResetAttempts(s)
        BY <2>2 DEF ResetAttempts, goroutines, sessionVars
    <2>3. CASE SendReady(s)
        BY <2>3 DEF SendReady, goroutines, sessionVars
    <2> QED  BY <1>13, <2>1, <2>2, <2>3 DEF ReadyStep
<1>14. ASSUME NEW s \in Sessions, ClientStep(s) PROVE CountInv'
    <2>1. CASE ClientConnects(s)
        BY <2>1 DEF ClientConnects, goroutines, sessionVars
    <2>2. CASE ClientLosesConnection(s)
        BY <2>2 DEF ClientLosesConnection, goroutines, sessionVars
    <2>3. CASE ClientExpires(s)
        BY <2>3 DEF ClientExpires, goroutines, sessionVars
    <2> QED  BY <1>14, <2>1, <2>2, <2>3 DEF ClientStep
<1>15. ASSUME NEW s \in Sessions, NEW e \in Events, EventArrives(s, e)
      PROVE  CountInv'
    BY <1>15 DEF EventArrives, goroutines, sessionVars
<1>16. ASSUME NEW e \in Events, SendEvent(e) PROVE CountInv'
    BY <1>16 DEF SendEvent, goroutines, sessionVars
<1> HIDE DEF TypeOK, RunPC, Sessions, Alive, CountInv
<1> QED
    BY StepCases, <1>1, <1>2, <1>3, <1>4, <1>5, <1>6, <1>7, <1>8, <1>9, <1>10, <1>11, <1>12, <1>13, <1>14, <1>15, <1>16, <1>17 DEF RunStep

(* The sessions counted have not connected, or their reset did not count. *)
LEMMA FailedStep ==
    ASSUME TypeOK, ClientsInv, CountInv, FailedInv, [Next]_vars
    PROVE  FailedInv'
<1> USE SessionAssumption DEF TypeOK, RunPC, Sessions, Alive, ClientsInv, CountInv, FailedInv, Counted,
        Unheeded
<1>1. CASE AuthorizeSucceeds
    BY <1>1 DEF AuthorizeSucceeds, Launch, goroutines, sessionVars
<1>2. CASE AuthorizeFails
    BY <1>2 DEF AuthorizeFails, goroutines, sessionVars
<1>3. CASE AuthWaitElapsed
    BY <1>3 DEF AuthWaitElapsed, goroutines, sessionVars
<1>4. CASE AuthWaitCancelled
    BY <1>4 DEF AuthWaitCancelled, goroutines, sessionVars
<1>5. CASE LoadAttempts
    BY <1>5 DEF LoadAttempts, goroutines, sessionVars
<1>6. CASE StoreAttempts
    BY <1>6 DEF StoreAttempts, goroutines, sessionVars
<1>7. CASE SelectCancelled
    BY <1>7 DEF SelectCancelled, goroutines, sessionVars
<1>8. CASE SelectExpired
    BY <1>8 DEF SelectExpired, goroutines, sessionVars
<1>9. CASE RunSendsState
    BY <1>9 DEF RunSendsState, goroutines, sessionVars
<1>10. CASE RunSendsLast
    BY <1>10 DEF RunSendsLast, goroutines, sessionVars
<1>17. CASE SendWarning
    BY <1>17 DEF SendWarning, Launch, goroutines, sessionVars
<1>11. CASE ConsumerStep
    BY <1>11 DEF ConsumerStep, ConsumerEnds, ConsumerSeesClose, ConsumerSeesStreamDone, goroutines, sessionVars
<1>12. CASE Cancel \/ UNCHANGED vars
    BY <1>12 DEF Cancel, vars, goroutines, sessionVars
<1>13. ASSUME NEW s \in Sessions, ReadyStep(s) PROVE FailedInv'
    <2>1. CASE SeesConnected(s)
        BY <2>1 DEF SeesConnected, goroutines, sessionVars
    <2>2. CASE ResetAttempts(s)
        <3>1. UNCHANGED <<run, cur, loaded>> /\ attempts' = 0
            BY <2>2 DEF ResetAttempts
        <3> HIDE DEF Unheeded
        <3>2. ASSUME NEW t \in Sessions, Unheeded(t), t # s \/ ResetIsLost(s)
              PROVE  Unheeded(t)'
            BY <2>2, <3>2 DEF ResetAttempts, Unheeded
        <3>3. CASE run \in {"incremented", "sendExpired"}
            BY <3>1, <3>2, <3>3 DEF ResetIsLost
        <3>4. CASE run = "launched"
            BY <3>1, <3>2, <3>4 DEF ResetIsLost
        <3>5. CASE run \notin {"launched", "incremented", "sendExpired"}
            BY <3>1, <3>5
        <3> QED  BY <3>3, <3>4, <3>5
    <2>3. CASE SendReady(s)
        BY <2>3 DEF SendReady, goroutines, sessionVars
    <2> QED  BY <1>13, <2>1, <2>2, <2>3 DEF ReadyStep
<1>14. ASSUME NEW s \in Sessions, ClientStep(s) PROVE FailedInv'
    <2>1. CASE ClientConnects(s)
        BY <2>1 DEF ClientConnects, goroutines, sessionVars
    <2>2. CASE ClientLosesConnection(s)
        BY <2>2 DEF ClientLosesConnection, goroutines, sessionVars
    <2>3. CASE ClientExpires(s)
        BY <2>3 DEF ClientExpires, goroutines, sessionVars
    <2> QED  BY <1>14, <2>1, <2>2, <2>3 DEF ClientStep
<1>15. ASSUME NEW s \in Sessions, NEW e \in Events, EventArrives(s, e)
      PROVE  FailedInv'
    BY <1>15 DEF EventArrives, goroutines, sessionVars
<1>16. ASSUME NEW e \in Events, SendEvent(e) PROVE FailedInv'
    BY <1>16 DEF SendEvent, goroutines, sessionVars
<1> HIDE DEF TypeOK, RunPC, Sessions, Alive, ClientsInv, CountInv, FailedInv, Counted, Unheeded
<1> QED
    BY StepCases, <1>1, <1>2, <1>3, <1>4, <1>5, <1>6, <1>7, <1>8, <1>9, <1>10, <1>11, <1>12, <1>13, <1>14, <1>15, <1>16, <1>17 DEF RunStep

-----------------------------------------------------------------------------
(* IInv is inductive. *)
THEOREM Inductive == Spec => []IInv
<1>1. Init => IInv
    BY TypeInit, SessionAssumption
    DEF Init, IInv, ClientsInv, CountInv, FailedInv, Counted, Sessions
<1>2. IInv /\ [Next]_vars => IInv'
    BY TypeStep, ClientsStep, CountStep, FailedStep DEF IInv
<1> QED
    BY <1>1, <1>2, PTL DEF Spec

(* Type correctness: in particular nAttempts never exceeds maxConnectAttempts,
   whether or not its accesses interleave. *)
THEOREM TypeCorrect == Spec => []TypeOK
BY Inductive, PTL DEF IInv

(* No client is left to expire unheard, however Run leaves its loop. *)
THEOREM NoDeafSession == Spec => []EveryClientIsHeard
<1>1. IInv => EveryClientIsHeard
    BY SessionAssumption DEF IInv, TypeOK, RunPC, ClientsInv, EveryClientIsHeard, Sessions
<1> QED
    BY <1>1, Inductive, PTL

(* Run gives up only after MaxAttempts sessions of which none connected, or whose
   resets of nAttempts were lost in the race, for every interleaving of the two
   goroutines and any number of attempts. *)
THEOREM TerminatesOnlyForLostResets == Spec => []GivesUpOnlyForLostResets
<1>1. IInv => GivesUpOnlyForLostResets
    BY DEF IInv, FailedInv, Unheeded, GivesUpOnlyForLostResets
<1> QED
    BY <1>1, Inductive, PTL

-----------------------------------------------------------------------------
(* The end of Run.  A step leaves Run where it is, or is one of its own. *)
LEMMA RunLeftIsNatural == TypeOK => RunLeft \in Nat
BY SessionAssumption DEF TypeOK, RunPC, RunLeft

LEMMA OthersLeaveRun ==
    ASSUME [Next]_vars
    PROVE  RunStep \/ UNCHANGED <<run, tries>>
<1>1. CASE ConsumerStep \/ Cancel \/ UNCHANGED vars
    BY <1>1 DEF ConsumerStep, ConsumerEnds, ConsumerSeesClose, ConsumerSeesStreamDone,
                Cancel, vars, sessionVars
<1>2. ASSUME NEW s \in Sessions, ReadyStep(s) \/ ClientStep(s) PROVE UNCHANGED <<run, tries>>
    BY <1>2 DEF ReadyStep, SeesConnected, ResetAttempts, SendReady, ClientStep,
                ClientConnects, ClientLosesConnection, ClientExpires, sessionVars
<1>3. ASSUME NEW e \in Events, NEW s \in Sessions, EventArrives(s, e)
      PROVE  UNCHANGED <<run, tries>>
    BY <1>3 DEF EventArrives, sessionVars
<1>4. ASSUME NEW e \in Events, SendEvent(e) PROVE UNCHANGED <<run, tries>>
    BY <1>4 DEF SendEvent, sessionVars
<1> QED
    BY StepCases, <1>1, <1>2, <1>3, <1>4

LEMMA CancelledRunStep ==
    ASSUME TypeOK, CountInv, ctxDone, RunStep
    PROVE  run' # run /\ RunLeft' < RunLeft
<1>0. MaxTries \in Nat /\ tries \in 0..MaxTries
    BY SessionAssumption DEF TypeOK
<1>a. /\ run = "authorize" => RunLeft = 2 * (MaxTries - tries) + 1
      /\ run = "authWait" => RunLeft = 2 * (MaxTries - tries) + 2
      /\ run \in {"sendLoading", "sendReconnecting"} => RunLeft = 2 * MaxTries + 2
      /\ run = "select" => RunLeft = 2 * MaxTries + 3
      /\ run = "incremented" => RunLeft = 2 * MaxTries + 4
      /\ run = "launched" => RunLeft = 2 * MaxTries + 5
      /\ run = "sendWarning" => RunLeft = 2 * MaxTries + 6
      /\ run \in {"sendDone", "sendAuthError", "sendExpired"} => RunLeft = 1
    BY DEF RunLeft
<1>b. /\ run' = "authorize" => RunLeft' = 2 * (MaxTries - tries') + 1
      /\ run' = "authWait" => RunLeft' = 2 * (MaxTries - tries') + 2
      /\ run' \in {"sendLoading", "sendReconnecting"} => RunLeft' = 2 * MaxTries + 2
      /\ run' = "select" => RunLeft' = 2 * MaxTries + 3
      /\ run' = "incremented" => RunLeft' = 2 * MaxTries + 4
      /\ run' = "launched" => RunLeft' = 2 * MaxTries + 5
      /\ run' \in {"sendDone", "sendAuthError", "sendExpired"} => RunLeft' = 1
      /\ run' = "returned" => RunLeft' = 0
    BY DEF RunLeft
<1>1. CASE AuthorizeSucceeds
    BY <1>1 DEF AuthorizeSucceeds
<1>2. CASE AuthorizeFails
    BY <1>0, <1>a, <1>b, <1>2 DEF AuthorizeFails, CountInv
<1>3. CASE AuthWaitElapsed \/ AuthWaitCancelled
    <2>1. /\ run = "authWait" /\ tries' = tries
          /\ \/ run' = "sendAuthError"
             \/ run' = "authorize"
        BY <1>3 DEF AuthWaitElapsed, AuthWaitCancelled, sessionVars
    <2> QED
        BY <1>0, <1>a, <1>b, <2>1
<1>4. CASE LoadAttempts \/ StoreAttempts
    <2>1. \/ run = "launched" /\ run' = "incremented"
          \/ run = "incremented" /\ run' = "select"
        BY <1>4 DEF LoadAttempts, StoreAttempts
    <2> QED
        BY <1>0, <1>a, <1>b, <2>1
<1>5. CASE SelectCancelled \/ SelectExpired
    <2>1. run = "select" /\ run' \in {"sendDone", "sendReconnecting", "sendExpired"}
        BY <1>5 DEF SelectCancelled, SelectExpired
    <2> QED
        BY <1>0, <1>a, <1>b, <2>1
<1>6. CASE RunSendsState
    BY <1>0, <1>a, <1>b, <1>6 DEF RunSendsState
<1>7. CASE SendWarning \/ RunSendsLast
    <2>1. \/ run = "sendWarning" /\ run' = "launched"
          \/ run \in {"sendDone", "sendAuthError", "sendExpired"} /\ run' = "returned"
        BY <1>7 DEF SendWarning, Launch, RunSendsLast
    <2> QED
        BY <1>0, <1>a, <1>b, <2>1
<1> QED
    BY <1>1, <1>2, <1>3, <1>4, <1>5, <1>6, <1>7 DEF RunStep

(* A cancelled Run ends within RunLeft, a natural number, of its own steps: what
   CancelEndsRun says without the fairness that makes it take them. *)
THEOREM CancelledRunIsBounded == Spec => CancelledRunCountsDown
<1>1. ASSUME IInv, [Next]_vars, ctxDone
      PROVE  IF run' = run THEN RunLeft' = RunLeft ELSE RunLeft' < RunLeft
    <2>1. CASE RunStep
        BY <1>1, <2>1, CancelledRunStep DEF IInv
    <2>2. CASE UNCHANGED <<run, tries>>
        BY <2>2 DEF RunLeft
    <2> QED
        BY <1>1, <2>1, <2>2, OthersLeaveRun
<1>2. IInv /\ [Next]_vars =>
        [ctxDone => IF run' = run THEN RunLeft' = RunLeft ELSE RunLeft' < RunLeft]_vars
    BY <1>1
<1> QED
    BY <1>2, Inductive, PTL DEF Spec, CancelledRunCountsDown

(* And while it sends, somebody receives: the loop of a command stays until Run has
   returned and closed OutCh.  The RPC service leaves before only when its stream
   is over, or when it cannot convert an event, and then cancels the context. *)
ConsumerStays ==
    run # "returned" =>
        /\ ~outClosed
        /\ \/ consumer \in Programs
           \/ /\ Programs \cap Selecting # {}
              /\ consumer = "returning" \/ (consumer = "left" /\ ctxDone)

LEMMA ConsumerStaysStep == ConsumerStays /\ [Next]_vars => ConsumerStays'
<1> SUFFICES ASSUME ConsumerStays, [Next]_vars PROVE ConsumerStays'
    OBVIOUS
<1> USE SessionAssumption DEF ConsumerStays, Ranging, Selecting
<1>1. CASE AuthorizeSucceeds \/ AuthorizeFails \/ AuthWaitElapsed \/ AuthWaitCancelled
    BY <1>1 DEF AuthorizeSucceeds, Launch, AuthorizeFails, AuthWaitElapsed, AuthWaitCancelled
<1>2. CASE LoadAttempts \/ StoreAttempts \/ SelectCancelled \/ SelectExpired
    BY <1>2 DEF LoadAttempts, StoreAttempts, SelectCancelled, SelectExpired
<1>3. CASE RunSendsState \/ SendWarning \/ RunSendsLast
    BY <1>3 DEF RunSendsState, SendWarning, Launch, RunSendsLast
<1>4. CASE ConsumerStep
    BY <1>4 DEF ConsumerStep, ConsumerEnds, ConsumerSeesClose, ConsumerSeesStreamDone
<1>5. CASE Cancel \/ UNCHANGED vars
    BY <1>5 DEF Cancel, vars
<1>6. ASSUME NEW s \in Sessions, ReadyStep(s) \/ ClientStep(s) PROVE ConsumerStays'
    BY <1>6 DEF ReadyStep, SeesConnected, ResetAttempts, SendReady,
                ClientStep, ClientConnects, ClientLosesConnection, ClientExpires
<1>7. ASSUME NEW e \in Events, NEW s \in Sessions, EventArrives(s, e) PROVE ConsumerStays'
    BY <1>7 DEF EventArrives
<1>8. ASSUME NEW e \in Events, SendEvent(e) PROVE ConsumerStays'
    BY <1>8 DEF SendEvent
<1> QED
    BY StepCases, <1>1, <1>2, <1>3, <1>4, <1>5, <1>6, <1>7, <1>8 DEF RunStep

THEOREM ConsumerOutlastsRun == Spec => []ConsumerStays
<1>1. Init => ConsumerStays
    BY SessionAssumption DEF Init, ConsumerStays
<1> QED
    BY <1>1, ConsumerStaysStep, PTL DEF Spec

-----------------------------------------------------------------------------
(* The end of the RPC listener.  Run closes OutCh under a consumer that goes on
   to select only after Done, which it sends only for a cancelled context. *)
ClosingInv ==
    /\ run = "sendDone" => ctxDone
    /\ outClosed /\ consumer \in Selecting => ctxDone
    /\ ClosedOutChOnlyAtStreamEnd

LEMMA ClosingStep == ClosingInv /\ [Next]_vars => ClosingInv'
<1> SUFFICES ASSUME ClosingInv, [Next]_vars PROVE ClosingInv'
    OBVIOUS
<1> USE DEF ClosingInv, ClosedOutChOnlyAtStreamEnd, Alive, Ranging, Selecting
<1>1. CASE AuthorizeSucceeds \/ AuthorizeFails \/ AuthWaitElapsed \/ AuthWaitCancelled
    BY <1>1 DEF AuthorizeSucceeds, Launch, AuthorizeFails, AuthWaitElapsed, AuthWaitCancelled
<1>2. CASE LoadAttempts \/ StoreAttempts \/ SelectCancelled \/ SelectExpired
    BY <1>2 DEF LoadAttempts, StoreAttempts, SelectCancelled, SelectExpired
<1>3. CASE RunSendsState \/ SendWarning \/ RunSendsLast
    BY <1>3 DEF RunSendsState, SendWarning, Launch, RunSendsLast
<1>4. CASE ConsumerStep
    BY <1>4 DEF ConsumerStep, ConsumerEnds, ConsumerSeesClose, ConsumerSeesStreamDone
<1>5. CASE Cancel \/ UNCHANGED vars
    BY <1>5 DEF Cancel, vars
<1>6. ASSUME NEW s \in Sessions, ReadyStep(s) \/ ClientStep(s) PROVE ClosingInv'
    BY <1>6 DEF ReadyStep, SeesConnected, ResetAttempts, SendReady,
                ClientStep, ClientConnects, ClientLosesConnection, ClientExpires
<1>7. ASSUME NEW e \in Events, NEW s \in Sessions, EventArrives(s, e) PROVE ClosingInv'
    BY <1>7 DEF EventArrives
<1>8. ASSUME NEW e \in Events, SendEvent(e) PROVE ClosingInv'
    BY <1>8 DEF SendEvent
<1> QED
    BY StepCases, <1>1, <1>2, <1>3, <1>4, <1>5, <1>6, <1>7, <1>8 DEF RunStep

(* The RPC service meets the closed OutCh, and panics on it, only when its own
   stream is over: an error that ends Run always reaches its client. *)
THEOREM ClosedOutChMetAtStreamEnd == Spec => []ClosedOutChOnlyAtStreamEnd
<1>1. Init => ClosingInv
    BY DEF Init, ClosingInv, ClosedOutChOnlyAtStreamEnd
<1>2. ClosingInv => ClosedOutChOnlyAtStreamEnd
    BY DEF ClosingInv
<1> QED
    BY <1>1, <1>2, ClosingStep, PTL DEF Spec
=============================================================================
