------------------------- MODULE OAuthSessionProofs -------------------------
(***************************************************************************)
(* What holds of OAuthSession for any number of processes, requests and    *)
(* tokens.  At most one thread is between an exchange and the saving of    *)
(* its refresh token (SavingInv); until then nobody else can make an       *)
(* exchange.  What it saves is p.UAT as it then is, which other threads of *)
(* its process may have cleared (SavedInv), and what a thread that clears  *)
(* the session writes is p.UAT as well (TurnsInv, LatestInv).  Then the    *)
(* mutex: with every fault (HolderInv), and while the API honours tokens   *)
(* to their expiry, when who refreshes holds it (MutexInv), so the tokens  *)
(* in the keyring are the last ones except to that thread (SurvivalInv).   *)
(***************************************************************************)
EXTENDS OAuthSession, TLAPS

Saving(t) == pc[t] \in {"saveUAT", "saveRefresh"}

SavingInv ==
    /\ \A t \in Threads : Saving(t) => held[t] = issued /\ store.refresh < issued
    /\ \A s, t \in Threads : Saving(s) /\ Saving(t) => s = t
    /\ \A s, t \in Threads : Saving(s) /\ pc[t] = "exchange" => held[t] # issued

(* p.UAT is that of the exchange being saved, or it was cleared by another thread
   of the process meanwhile. *)
SavedInv ==
    /\ \A t \in Threads : Saving(t) => profile[ProcOf[t]] \in {0, held[t]}
    /\ \A t \in Threads : pc[t] = "saveRefresh" => store.uat \in {0, held[t]}

OneThreadPerProcess ==
    \A s, t \in Threads : ProcOf[s] = ProcOf[t] => s = t

OneProcess ==
    \A s, t \in Threads : ProcOf[s] = ProcOf[t]

(* Where the threads of a process take turns, p.UAT is empty while clearing. *)
TurnsInv ==
    \A t \in Threads : pc[t] = "clearUAT" => profile[ProcOf[t]] = 0

(* Where there is one process, its p.UAT is not behind the keyring. *)
LatestInv ==
    \A t \in Threads : profile[ProcOf[t]] # 0 =>
        /\ profile[ProcOf[t]] >= store.uat
        /\ profile[ProcOf[t]] >= store.refresh

-----------------------------------------------------------------------------
LEMMA StepCases ==
    ASSUME [Next]_vars
    PROVE  \/ \E t \in Threads : Step(t)
           \/ Expire \/ Reject
           \/ \E p \in Procs : Crash(p)
           \/ UNCHANGED vars
BY DEF Next

(* Types. *)
LEMMA TypeInit == Init => TypeOK
BY SessionAssumption DEF Init, TypeOK, Token, PC

(* Every action keeps the types: no token is stored that was not issued. *)
LEMMA TypeStep ==
    ASSUME TypeOK, [Next]_vars
    PROVE  TypeOK'
<1> USE SessionAssumption DEF TypeOK, Token, PC, Goto, server
<1>1. ASSUME NEW t \in Threads, Step(t) PROVE TypeOK'
    <2>1. CASE ReadUAT(t)
        BY <2>1 DEF ReadUAT
    <2>2. CASE CheckExpiry(t)
        BY <2>2 DEF CheckExpiry, AboutToExpire
    <2>3. CASE Lock(t)
        BY <2>3 DEF Lock
    <2>4. CASE Recheck(t)
        BY <2>4 DEF Recheck, AboutToExpire
    <2>5. CASE ReadRefresh(t)
        BY <2>5 DEF ReadRefresh, FailRefresh
    <2>6. CASE ExchangeSucceeds(t)
        BY <2>6 DEF ExchangeSucceeds
    <2>7. CASE ExchangeInvalid(t)
        BY <2>7 DEF ExchangeInvalid
    <2>8. CASE ExchangeFails(t)
        BY <2>8 DEF ExchangeFails, FailRefresh
    <2>9. CASE SaveUAT(t)
        BY <2>9 DEF SaveUAT
    <2>10. CASE SaveRefresh(t)
        BY <2>10 DEF SaveRefresh
    <2>11. CASE SaveExpiry(t)
        BY <2>11 DEF SaveExpiry
    <2>12. CASE KeyringFails(t)
        BY <2>12 DEF KeyringFails, FailRefresh
    <2>13. CASE ClearUAT(t)
        BY <2>13 DEF ClearUAT
    <2>14. CASE ClearRefresh(t)
        BY <2>14 DEF ClearRefresh
    <2>15. CASE ClearContext(t)
        BY <2>15 DEF ClearContext
    <2>16. CASE ClearExpiry(t)
        BY <2>16 DEF ClearExpiry, FailRefresh
    <2>17. CASE SendAccepted(t)
        BY <2>17 DEF SendAccepted
    <2>18. CASE SendUnauthorized(t)
        BY <2>18 DEF SendUnauthorized
    <2>19. CASE RefreshAndRetry(t)
        BY <2>19 DEF RefreshAndRetry
    <2> QED
        BY <1>1, <2>1, <2>2, <2>3, <2>4, <2>5, <2>6, <2>7, <2>8, <2>9, <2>10, <2>11, <2>12, <2>13, <2>14, <2>15, <2>16, <2>17, <2>18, <2>19
        DEF Step, ResolveStep, RefreshStep, RequestStep
<1>2. CASE Expire
    BY <1>2 DEF Expire
<1>3. CASE Reject
    BY <1>3 DEF Reject
<1>4. ASSUME NEW p \in Procs, Crash(p) PROVE TypeOK'
    BY <1>4 DEF Crash, Ended
<1>5. CASE UNCHANGED vars
    BY <1>5 DEF vars
<1> HIDE DEF TypeOK, Token, PC, Goto, server
<1> QED
    BY StepCases, <1>1, <1>2, <1>3, <1>4, <1>5

(* An exchange leaves nobody else with the refresh token last issued. *)
LEMMA SavingStep ==
    ASSUME TypeOK, SavingInv, [Next]_vars
    PROVE  SavingInv'
<1> USE SessionAssumption DEF TypeOK, Token, PC, Goto, server, SavingInv, Saving
<1>1. ASSUME NEW t \in Threads, Step(t) PROVE SavingInv'
    <2>1. CASE ReadUAT(t)
        BY <2>1 DEF ReadUAT
    <2>2. CASE CheckExpiry(t)
        BY <2>2 DEF CheckExpiry, AboutToExpire
    <2>3. CASE Lock(t)
        BY <2>3 DEF Lock
    <2>4. CASE Recheck(t)
        BY <2>4 DEF Recheck, AboutToExpire
    <2>5. CASE ReadRefresh(t)
        BY <2>5 DEF ReadRefresh, FailRefresh
    <2>6. CASE ExchangeSucceeds(t)
        BY <2>6 DEF ExchangeSucceeds
    <2>7. CASE ExchangeInvalid(t)
        BY <2>7 DEF ExchangeInvalid
    <2>8. CASE ExchangeFails(t)
        BY <2>8 DEF ExchangeFails, FailRefresh
    <2>9. CASE SaveUAT(t)
        BY <2>9 DEF SaveUAT
    <2>10. CASE SaveRefresh(t)
        BY <2>10 DEF SaveRefresh
    <2>11. CASE SaveExpiry(t)
        BY <2>11 DEF SaveExpiry
    <2>12. CASE KeyringFails(t)
        BY <2>12 DEF KeyringFails, FailRefresh
    <2>13. CASE ClearUAT(t)
        BY <2>13 DEF ClearUAT
    <2>14. CASE ClearRefresh(t)
        BY <2>14 DEF ClearRefresh
    <2>15. CASE ClearContext(t)
        BY <2>15 DEF ClearContext
    <2>16. CASE ClearExpiry(t)
        BY <2>16 DEF ClearExpiry, FailRefresh
    <2>17. CASE SendAccepted(t)
        BY <2>17 DEF SendAccepted
    <2>18. CASE SendUnauthorized(t)
        BY <2>18 DEF SendUnauthorized
    <2>19. CASE RefreshAndRetry(t)
        BY <2>19 DEF RefreshAndRetry
    <2> QED
        BY <1>1, <2>1, <2>2, <2>3, <2>4, <2>5, <2>6, <2>7, <2>8, <2>9, <2>10, <2>11, <2>12, <2>13, <2>14, <2>15, <2>16, <2>17, <2>18, <2>19
        DEF Step, ResolveStep, RefreshStep, RequestStep
<1>2. CASE Expire
    BY <1>2 DEF Expire
<1>3. CASE Reject
    BY <1>3 DEF Reject
<1>4. ASSUME NEW p \in Procs, Crash(p) PROVE SavingInv'
    BY <1>4 DEF Crash, Ended
<1>5. CASE UNCHANGED vars
    BY <1>5 DEF vars
<1> HIDE DEF TypeOK, Token, PC, Goto, server, SavingInv, Saving
<1> QED
    BY StepCases, <1>1, <1>2, <1>3, <1>4, <1>5

(* The API honours access tokens to their expiry, so that only the refresh under
   the mutex is used. *)
Accepting == ~Rejects /\ ~Unauthorized

UnderMutex(t) == pc[t] = "recheck" \/ Exchanging(t) \/ Clearing(t)

MutexInv ==
    /\ rejected = {}
    /\ \A t \in Threads :
          /\ pc[t] # "unauthorized" /\ caller[t] = "resolve"
          /\ UnderMutex(t) => mutex[ProcOf[t]] = t

(* Who refreshes holds the mutex, and only its holder releases it. *)
LEMMA MutexStep ==
    ASSUME Accepting, TypeOK, MutexInv, [Next]_vars
    PROVE  MutexInv'
<1> USE SessionAssumption DEF TypeOK, Token, PC, Goto, server, Accepting, MutexInv, UnderMutex, Exchanging, Clearing
<1>1. ASSUME NEW t \in Threads, Step(t) PROVE MutexInv'
    <2>1. CASE ReadUAT(t)
        BY <2>1 DEF ReadUAT
    <2>2. CASE CheckExpiry(t)
        BY <2>2 DEF CheckExpiry, AboutToExpire
    <2>3. CASE Lock(t)
        BY <2>3 DEF Lock
    <2>4. CASE Recheck(t)
        BY <2>4 DEF Recheck, AboutToExpire
    <2>5. CASE ReadRefresh(t)
        BY <2>5 DEF ReadRefresh, FailRefresh
    <2>6. CASE ExchangeSucceeds(t)
        BY <2>6 DEF ExchangeSucceeds
    <2>7. CASE ExchangeInvalid(t)
        BY <2>7 DEF ExchangeInvalid
    <2>8. CASE ExchangeFails(t)
        BY <2>8 DEF ExchangeFails, FailRefresh
    <2>9. CASE SaveUAT(t)
        BY <2>9 DEF SaveUAT
    <2>10. CASE SaveRefresh(t)
        BY <2>10 DEF SaveRefresh
    <2>11. CASE SaveExpiry(t)
        BY <2>11 DEF SaveExpiry
    <2>12. CASE KeyringFails(t)
        BY <2>12 DEF KeyringFails, FailRefresh
    <2>13. CASE ClearUAT(t)
        BY <2>13 DEF ClearUAT
    <2>14. CASE ClearRefresh(t)
        BY <2>14 DEF ClearRefresh
    <2>15. CASE ClearContext(t)
        BY <2>15 DEF ClearContext
    <2>16. CASE ClearExpiry(t)
        BY <2>16 DEF ClearExpiry, FailRefresh
    <2>17. CASE SendAccepted(t)
        BY <2>17 DEF SendAccepted
    <2>18. CASE SendUnauthorized(t)
        BY <2>18 DEF SendUnauthorized
    <2>19. CASE RefreshAndRetry(t)
        BY <2>19 DEF RefreshAndRetry
    <2> QED
        BY <1>1, <2>1, <2>2, <2>3, <2>4, <2>5, <2>6, <2>7, <2>8, <2>9, <2>10, <2>11, <2>12, <2>13, <2>14, <2>15, <2>16, <2>17, <2>18, <2>19
        DEF Step, ResolveStep, RefreshStep, RequestStep
<1>2. CASE Expire
    BY <1>2 DEF Expire
<1>3. CASE Reject
    BY <1>3 DEF Reject
<1>4. ASSUME NEW p \in Procs, Crash(p) PROVE MutexInv'
    BY <1>4 DEF Crash, Ended
<1>5. CASE UNCHANGED vars
    BY <1>5 DEF vars
<1> HIDE DEF TypeOK, Token, PC, Goto, server, Accepting, MutexInv, UnderMutex, Exchanging, Clearing
<1> QED
    BY StepCases, <1>1, <1>2, <1>3, <1>4, <1>5

(* p.UAT of a process is written by the thread that refreshes, if there is one. *)
SoleWriter ==
    \A s, t \in Threads : ProcOf[s] = ProcOf[t] /\ UnderMutex(s) /\ UnderMutex(t) => s = t

(* The steps that touch neither the keyring nor p.UAT, nor begin to save or clear. *)
Quiet(t) ==
    \/ ResolveStep(t) \/ RequestStep(t)
    \/ ReadRefresh(t) \/ ExchangeFails(t) \/ KeyringFails(t)

Elsewhere == Expire \/ Reject \/ (\E p \in Procs : Crash(p)) \/ UNCHANGED vars

LEMMA QuietStep ==
    ASSUME TypeOK, Elsewhere \/ \E t \in Threads : Quiet(t)
    PROVE  /\ UNCHANGED <<store, profile>> /\ issued' >= issued
           /\ \A t \in Threads :
                 pc'[t] \in {"saveUAT", "saveRefresh", "clearUAT"} => pc[t] = pc'[t] /\ held'[t] = held[t]
<1> USE SessionAssumption DEF TypeOK, Token, Goto, server, FailRefresh
<1>1. ASSUME NEW t \in Threads, ResolveStep(t) \/ RequestStep(t)
      PROVE  /\ UNCHANGED <<store, profile, held, issued>>
             /\ \A s \in Threads :
                   pc'[s] \in {"saveUAT", "saveRefresh", "clearUAT"} => pc[s] = pc'[s]
    BY <1>1 DEF ResolveStep, RequestStep, ReadUAT, CheckExpiry, Lock, Recheck, SendAccepted,
                SendUnauthorized, RefreshAndRetry
<1>2. ASSUME NEW t \in Threads, ReadRefresh(t)
      PROVE  /\ UNCHANGED <<store, profile, issued>>
             /\ \A s \in Threads :
                   pc'[s] \in {"saveUAT", "saveRefresh", "clearUAT"} => pc[s] = pc'[s] /\ held'[s] = held[s]
    BY <1>2 DEF ReadRefresh
<1>3. ASSUME NEW t \in Threads, ExchangeFails(t) \/ KeyringFails(t)
      PROVE  /\ UNCHANGED <<store, profile, held>> /\ issued' >= issued
             /\ \A s \in Threads :
                   pc'[s] \in {"saveUAT", "saveRefresh", "clearUAT"} => pc[s] = pc'[s]
    BY <1>3 DEF ExchangeFails, KeyringFails
<1>4. ASSUME Elsewhere
      PROVE  /\ UNCHANGED <<store, profile, held, issued>>
             /\ \A s \in Threads :
                   pc'[s] \in {"saveUAT", "saveRefresh", "clearUAT"} => pc[s] = pc'[s]
    BY <1>4 DEF Elsewhere, Expire, Reject, Crash, Ended, vars
<1> QED
    BY <1>1, <1>2, <1>3, <1>4 DEF Quiet

LEMMA LoudCases ==
    ASSUME [Next]_vars
    PROVE  \/ Elsewhere \/ \E t \in Threads : Quiet(t)
           \/ \E t \in Threads :
                 \/ ExchangeSucceeds(t) \/ ExchangeInvalid(t)
                 \/ SaveUAT(t) \/ SaveRefresh(t) \/ SaveExpiry(t)
                 \/ ClearUAT(t) \/ ClearRefresh(t) \/ ClearContext(t) \/ ClearExpiry(t)
BY StepCases DEF Step, RefreshStep, Quiet, Elsewhere

(* A refresh saves what it got or nothing. *)
LEMMA SavedStep ==
    ASSUME OneProcess \/ TurnsInv, TypeOK, SavingInv, SavedInv, [Next]_vars
    PROVE  SavedInv'
<1> USE SessionAssumption DEF TypeOK, Token, Goto, server, SavingInv, SavedInv, Saving, FailRefresh
<1>1. CASE Elsewhere \/ \E t \in Threads : Quiet(t)
    BY <1>1, QuietStep
<1>2. ASSUME NEW t \in Threads, ExchangeSucceeds(t) \/ ExchangeInvalid(t) PROVE SavedInv'
    BY <1>2 DEF ExchangeSucceeds, ExchangeInvalid
<1>3. ASSUME NEW t \in Threads, SaveUAT(t) \/ SaveRefresh(t) \/ SaveExpiry(t) PROVE SavedInv'
    BY <1>3 DEF SaveUAT, SaveRefresh, SaveExpiry
<1>4. ASSUME NEW t \in Threads, ClearUAT(t) PROVE SavedInv'
    BY <1>4 DEF ClearUAT, OneProcess, TurnsInv
<1>5. ASSUME NEW t \in Threads, ClearRefresh(t) \/ ClearContext(t) \/ ClearExpiry(t) PROVE SavedInv'
    BY <1>5 DEF ClearRefresh, ClearContext, ClearExpiry
<1> HIDE DEF TypeOK, Token, Goto, server, SavingInv, SavedInv, Saving, FailRefresh
<1> QED
    BY LoudCases, <1>1, <1>2, <1>3, <1>4, <1>5

(* No other thread of the process sets p.UAT between its clearing and the
   keyring's. *)
LEMMA TurnsStep ==
    ASSUME SoleWriter, TypeOK, TurnsInv, [Next]_vars
    PROVE  TurnsInv'
<1> USE SessionAssumption DEF TypeOK, Goto, server, TurnsInv, FailRefresh
<1>1. CASE Elsewhere \/ \E t \in Threads : Quiet(t)
    BY <1>1, QuietStep
<1>2. ASSUME NEW t \in Threads, ExchangeSucceeds(t) \/ ExchangeInvalid(t) PROVE TurnsInv'
    BY <1>2 DEF ExchangeSucceeds, ExchangeInvalid, SoleWriter, UnderMutex, Exchanging, Clearing
<1>3. ASSUME NEW t \in Threads, SaveUAT(t) \/ SaveRefresh(t) \/ SaveExpiry(t) PROVE TurnsInv'
    BY <1>3 DEF SaveUAT, SaveRefresh, SaveExpiry
<1>4. ASSUME NEW t \in Threads,
             ClearUAT(t) \/ ClearRefresh(t) \/ ClearContext(t) \/ ClearExpiry(t)
      PROVE  TurnsInv'
    BY <1>4 DEF ClearUAT, ClearRefresh, ClearContext, ClearExpiry
<1> HIDE DEF TypeOK, Goto, server, TurnsInv, FailRefresh
<1> QED
    BY LoudCases, <1>1, <1>2, <1>3, <1>4

(* Every exchange of the only process is in its p.UAT before it is in the keyring. *)
LEMMA LatestStep ==
    ASSUME OneProcess, TypeOK, SavingInv, SavedInv, LatestInv, [Next]_vars
    PROVE  LatestInv'
<1> USE SessionAssumption DEF TypeOK, Token, Goto, server, LatestInv, OneProcess, FailRefresh
<1>1. CASE Elsewhere \/ \E t \in Threads : Quiet(t)
    BY <1>1, QuietStep
<1>2. ASSUME NEW t \in Threads, ExchangeSucceeds(t) \/ ExchangeInvalid(t) PROVE LatestInv'
    BY <1>2 DEF ExchangeSucceeds, ExchangeInvalid
<1>3. ASSUME NEW t \in Threads, SaveUAT(t) \/ SaveRefresh(t) \/ SaveExpiry(t) PROVE LatestInv'
    BY <1>3 DEF SaveUAT, SaveRefresh, SaveExpiry, SavingInv, SavedInv, Saving
<1>4. ASSUME NEW t \in Threads,
             ClearUAT(t) \/ ClearRefresh(t) \/ ClearContext(t) \/ ClearExpiry(t)
      PROVE  LatestInv'
    BY <1>4 DEF ClearUAT, ClearRefresh, ClearContext, ClearExpiry
<1> HIDE DEF TypeOK, Token, Goto, server, LatestInv, OneProcess, FailRefresh
<1> QED
    BY LoudCases, <1>1, <1>2, <1>3, <1>4

(* The access token is in the keyring before the refresh token. *)
LEMMA AccessStep ==
    ASSUME (OneProcess /\ LatestInv) \/ TurnsInv,
           TypeOK, SavingInv, SavedInv, AccessSavedFirst, [Next]_vars
    PROVE  AccessSavedFirst'
<1> USE SessionAssumption DEF TypeOK, Token, Goto, server, SavingInv, SavedInv, Saving, AccessSavedFirst
<1>1. CASE Elsewhere \/ \E t \in Threads : Quiet(t)
    BY <1>1, QuietStep
<1>2. ASSUME NEW t \in Threads, ExchangeSucceeds(t) \/ ExchangeInvalid(t) PROVE AccessSavedFirst'
    BY <1>2 DEF ExchangeSucceeds, ExchangeInvalid
<1>3. ASSUME NEW t \in Threads, SaveUAT(t) \/ SaveRefresh(t) \/ SaveExpiry(t) PROVE AccessSavedFirst'
    BY <1>3 DEF SaveUAT, SaveRefresh, SaveExpiry
<1>4. ASSUME NEW t \in Threads, ClearUAT(t) PROVE AccessSavedFirst'
    BY <1>4 DEF ClearUAT, LatestInv, TurnsInv
<1>5. ASSUME NEW t \in Threads, ClearRefresh(t) \/ ClearContext(t) \/ ClearExpiry(t)
      PROVE  AccessSavedFirst'
    BY <1>5 DEF ClearRefresh, ClearContext, ClearExpiry
<1> HIDE DEF TypeOK, Token, Goto, server, SavingInv, SavedInv, Saving, AccessSavedFirst
<1> QED
    BY LoudCases, <1>1, <1>2, <1>3, <1>4, <1>5

-----------------------------------------------------------------------------
IInv ==
    /\ TypeOK
    /\ SavingInv
    /\ SavedInv
    /\ Accepting => MutexInv
    /\ Accepting \/ OneThreadPerProcess => TurnsInv
    /\ OneProcess => LatestInv
    /\ AccessSavedFirst

(* The constellations in which p.UAT is what its process exchanged last: threads
   take turns in refreshOAuthToken by the mutex, as long as no access token is
   refused before its expiry; or each process has one thread; or there is one
   process.  Outside these a second thread may set p.UAT between the clearing of
   the first thread and its write, and another process move on meanwhile. *)
ProfileIsOwn == Accepting \/ OneThreadPerProcess \/ OneProcess

(* IInv is inductive. *)
THEOREM Inductive ==
    ASSUME ProfileIsOwn
    PROVE  Spec => []IInv
<1>1. Init => IInv
    BY TypeInit, SessionAssumption
    DEF Init, IInv, SavingInv, SavedInv, TurnsInv, LatestInv, Saving, AccessSavedFirst, MutexInv,
        UnderMutex, Exchanging, Clearing
<1>2. ASSUME IInv, Accepting \/ OneThreadPerProcess
      PROVE  SoleWriter
    BY <1>2 DEF OneThreadPerProcess, IInv, MutexInv, SoleWriter
<1>3. ASSUME IInv, [Next]_vars PROVE IInv'
    <2>1. (OneProcess /\ LatestInv) \/ TurnsInv
        BY <1>3, ProfileIsOwn DEF ProfileIsOwn, IInv
    <2>2. TypeOK' /\ SavingInv' /\ SavedInv' /\ AccessSavedFirst'
        BY <1>3, <2>1, TypeStep, SavingStep, SavedStep, AccessStep DEF IInv
    <2>3. Accepting => MutexInv'
        BY <1>3, MutexStep DEF IInv
    <2>4. Accepting \/ OneThreadPerProcess => TurnsInv'
        BY <1>2, <1>3, TurnsStep DEF IInv
    <2>5. OneProcess => LatestInv'
        BY <1>3, LatestStep DEF IInv
    <2>6. (Accepting' <=> Accepting) /\ (OneThreadPerProcess' <=> OneThreadPerProcess) /\ (OneProcess' <=> OneProcess)
        BY DEF Accepting, OneThreadPerProcess, OneProcess
    <2> QED
        BY <2>2, <2>3, <2>4, <2>5, <2>6 DEF IInv
<1> QED
    BY <1>1, <1>3, PTL DEF Spec

(* No token is stored or presented that the server has not issued, with any
   number of threads in a process. *)
THEOREM TypeCorrect == Spec => []TypeOK
BY TypeInit, TypeStep, PTL DEF Spec

(* The keyring never holds a refresh token later than its access token, with any
   number of processes, crashes and failed writes. *)
THEOREM AccessBeforeRefresh ==
    ASSUME ProfileIsOwn
    PROVE  Spec => []AccessSavedFirst
<1>1. IInv => AccessSavedFirst
    BY DEF IInv
<1> QED
    BY <1>1, Inductive, PTL

(* Whatever fails, crashes or runs in another process, an access token is only
   ever replaced by a later one, or removed. *)
THEOREM TokensOnlyMoveForward ==
    ASSUME ProfileIsOwn
    PROVE  Spec => TokensMoveForward
<1> DEFINE Forward == store'.uat = 0 \/ store'.uat >= store.uat
<1>1. IInv /\ [Next]_vars => [Forward]_vars
    <2> SUFFICES ASSUME IInv, [Next]_vars PROVE Forward
        OBVIOUS
    <2> USE DEF IInv, TypeOK
    <2>1. CASE Elsewhere \/ \E t \in Threads : Quiet(t)
        BY <2>1, QuietStep
    <2>2. ASSUME NEW t \in Threads, SaveUAT(t) PROVE Forward
        BY <2>2 DEF SaveUAT, SavingInv, SavedInv, Saving
    <2>3. ASSUME NEW t \in Threads, ClearUAT(t) PROVE Forward
        BY <2>3, ProfileIsOwn DEF ProfileIsOwn, ClearUAT, TurnsInv, LatestInv
    <2>4. ASSUME NEW t \in Threads,
                 \/ ExchangeSucceeds(t) \/ ExchangeInvalid(t) \/ SaveRefresh(t) \/ SaveExpiry(t)
                 \/ ClearRefresh(t) \/ ClearContext(t) \/ ClearExpiry(t)
          PROVE  Forward
        BY <2>4 DEF ExchangeSucceeds, ExchangeInvalid, SaveRefresh, SaveExpiry, ClearRefresh,
                    ClearContext, ClearExpiry
    <2> QED
        BY LoudCases, <2>1, <2>2, <2>3, <2>4
<1> QED
    BY <1>1, Inductive, PTL DEF Spec, TokensMoveForward

-----------------------------------------------------------------------------
(* The threads of one process. *)

(* One process, a server that answers in full, and no faults. *)
Alone ==
    /\ Accepting /\ ~Terse /\ ~Faults
    /\ OneProcess

Refreshing(t) == pc[t] \in {"saveUAT", "saveRefresh", "saveExpiry"}

(* The keyring has the last tokens, those that the one thread that refreshes has
   not come to yet excepted. *)
SurvivalInv ==
    /\ store.uat # 0 /\ store.refresh # 0 /\ store.context
    /\ issued # 0 /\ old \subseteq 1..(MaxToken - 1)
    /\ \A t \in Threads :
          /\ pc[t] \notin {"clearUAT", "clearRefresh", "clearContext", "clearExpiry", "failed"}
          /\ pc[t] \in {"readRefresh", "exchange"} => store.expiry \in old
          /\ pc[t] = "exchange" => held[t] = store.refresh
          /\ Refreshing(t) => held[t] = issued /\ profile[ProcOf[t]] = issued
          /\ pc[t] = "saveExpiry" => store.refresh = issued
    /\ (\A t \in Threads : ~Refreshing(t)) => store.refresh = issued /\ store.expiry = issued

LEMMA SurvivalStep ==
    ASSUME Alone, TypeOK, MutexInv, SurvivalInv, [Next]_vars
    PROVE  SurvivalInv'
<1> USE SessionAssumption DEF TypeOK, Token, PC, Goto, server, Alone, OneProcess, MutexInv, UnderMutex, Exchanging, Clearing, SurvivalInv, Refreshing, Accepting
<1>1. ASSUME NEW t \in Threads, Step(t) PROVE SurvivalInv'
    <2>1. CASE ReadUAT(t)
        BY <2>1 DEF ReadUAT
    <2>2. CASE CheckExpiry(t)
        BY <2>2 DEF CheckExpiry, AboutToExpire
    <2>3. CASE Lock(t)
        BY <2>3 DEF Lock
    <2>4. CASE Recheck(t)
        BY <2>4 DEF Recheck, AboutToExpire
    <2>5. CASE ReadRefresh(t)
        BY <2>5 DEF ReadRefresh, FailRefresh
    <2>6. CASE ExchangeSucceeds(t)
        BY <2>6 DEF ExchangeSucceeds
    <2>7. CASE ExchangeInvalid(t)
        BY <2>7 DEF ExchangeInvalid
    <2>8. CASE ExchangeFails(t)
        BY <2>8 DEF ExchangeFails, FailRefresh
    <2>9. CASE SaveUAT(t)
        BY <2>9 DEF SaveUAT
    <2>10. CASE SaveRefresh(t)
        BY <2>10 DEF SaveRefresh
    <2>11. CASE SaveExpiry(t)
        BY <2>11 DEF SaveExpiry
    <2>12. CASE KeyringFails(t)
        BY <2>12 DEF KeyringFails, FailRefresh
    <2>13. CASE ClearUAT(t)
        BY <2>13 DEF ClearUAT
    <2>14. CASE ClearRefresh(t)
        BY <2>14 DEF ClearRefresh
    <2>15. CASE ClearContext(t)
        BY <2>15 DEF ClearContext
    <2>16. CASE ClearExpiry(t)
        BY <2>16 DEF ClearExpiry, FailRefresh
    <2>17. CASE SendAccepted(t)
        BY <2>17 DEF SendAccepted
    <2>18. CASE SendUnauthorized(t)
        BY <2>18 DEF SendUnauthorized
    <2>19. CASE RefreshAndRetry(t)
        BY <2>19 DEF RefreshAndRetry
    <2> QED
        BY <1>1, <2>1, <2>2, <2>3, <2>4, <2>5, <2>6, <2>7, <2>8, <2>9, <2>10, <2>11, <2>12, <2>13, <2>14, <2>15, <2>16, <2>17, <2>18, <2>19
        DEF Step, ResolveStep, RefreshStep, RequestStep
<1>2. CASE Expire
    BY <1>2 DEF Expire
<1>3. CASE Reject
    BY <1>3 DEF Reject
<1>4. ASSUME NEW p \in Procs, Crash(p) PROVE SurvivalInv'
    BY <1>4 DEF Crash, Ended
<1>5. CASE UNCHANGED vars
    BY <1>5 DEF vars
<1> HIDE DEF TypeOK, Token, PC, Goto, server, Alone, OneProcess, MutexInv, UnderMutex, Exchanging, Clearing, SurvivalInv, Refreshing, Accepting
<1> QED
    BY StepCases, <1>1, <1>2, <1>3, <1>4, <1>5

(* The requests of one process never log the user out, however many they are and
   however often the token expires under them. *)
THEOREM OneProcessKeepsItsSession ==
    ASSUME Alone
    PROVE  Spec => []SessionSurvives
<1>1. Init => TypeOK /\ MutexInv /\ SurvivalInv
    BY TypeInit, SessionAssumption
    DEF Init, MutexInv, UnderMutex, Exchanging, Clearing, SurvivalInv, Refreshing
<1>2. TypeOK /\ MutexInv /\ SurvivalInv /\ [Next]_vars => TypeOK' /\ MutexInv' /\ SurvivalInv'
    BY TypeStep, MutexStep, SurvivalStep, Alone DEF Alone
<1>3. SurvivalInv => SessionSurvives
    BY DEF SurvivalInv, SessionSurvives
<1> QED
    BY <1>1, <1>2, <1>3, PTL DEF Spec
-----------------------------------------------------------------------------
(* The mutex, whatever the API refuses. *)

(* Who is between Lock and Unlock has the mutex, and who has it is there or died
   with its process. *)
HolderInv ==
    /\ MutexIsPassedOn
    /\ \A t \in Threads : HoldsMutex(t) => mutex[ProcOf[t]] = t

(* Only its holder releases it, and on every path. *)
LEMMA HolderStep ==
    ASSUME TypeOK, HolderInv, [Next]_vars
    PROVE  HolderInv'
<1> USE SessionAssumption DEF TypeOK, PC, Goto, server, HolderInv, MutexIsPassedOn, HoldsMutex, Exchanging, Clearing, Ended
<1>1. ASSUME NEW t \in Threads, Step(t) PROVE HolderInv'
    <2>1. CASE ReadUAT(t)
        BY <2>1 DEF ReadUAT
    <2>2. CASE CheckExpiry(t)
        BY <2>2 DEF CheckExpiry, AboutToExpire
    <2>3. CASE Lock(t)
        BY <2>3 DEF Lock
    <2>4. CASE Recheck(t)
        BY <2>4 DEF Recheck, AboutToExpire
    <2>5. CASE ReadRefresh(t)
        BY <2>5 DEF ReadRefresh, FailRefresh
    <2>6. CASE ExchangeSucceeds(t)
        BY <2>6 DEF ExchangeSucceeds
    <2>7. CASE ExchangeInvalid(t)
        BY <2>7 DEF ExchangeInvalid
    <2>8. CASE ExchangeFails(t)
        BY <2>8 DEF ExchangeFails, FailRefresh
    <2>9. CASE SaveUAT(t)
        BY <2>9 DEF SaveUAT
    <2>10. CASE SaveRefresh(t)
        BY <2>10 DEF SaveRefresh
    <2>11. CASE SaveExpiry(t)
        BY <2>11 DEF SaveExpiry
    <2>12. CASE KeyringFails(t)
        BY <2>12 DEF KeyringFails, FailRefresh
    <2>13. CASE ClearUAT(t)
        BY <2>13 DEF ClearUAT
    <2>14. CASE ClearRefresh(t)
        BY <2>14 DEF ClearRefresh
    <2>15. CASE ClearContext(t)
        BY <2>15 DEF ClearContext
    <2>16. CASE ClearExpiry(t)
        BY <2>16 DEF ClearExpiry, FailRefresh
    <2>17. CASE SendAccepted(t)
        BY <2>17 DEF SendAccepted
    <2>18. CASE SendUnauthorized(t)
        BY <2>18 DEF SendUnauthorized
    <2>19. CASE RefreshAndRetry(t)
        BY <2>19 DEF RefreshAndRetry
    <2> QED
        BY <1>1, <2>1, <2>2, <2>3, <2>4, <2>5, <2>6, <2>7, <2>8, <2>9, <2>10, <2>11, <2>12, <2>13, <2>14, <2>15, <2>16, <2>17, <2>18, <2>19
        DEF Step, ResolveStep, RefreshStep, RequestStep
<1>2. CASE Expire
    BY <1>2 DEF Expire
<1>3. CASE Reject
    BY <1>3 DEF Reject
<1>4. ASSUME NEW p \in Procs, Crash(p) PROVE HolderInv'
    BY <1>4 DEF Crash
<1>5. CASE UNCHANGED vars
    BY <1>5 DEF vars
<1> HIDE DEF TypeOK, PC, Goto, server, HolderInv, MutexIsPassedOn, HoldsMutex, Exchanging, Clearing, Ended
<1> QED
    BY StepCases, <1>1, <1>2, <1>3, <1>4, <1>5

LEMMA HolderAlways == Spec => []HolderInv
<1>1. Init => TypeOK /\ HolderInv
    BY TypeInit DEF Init, HolderInv, MutexIsPassedOn, HoldsMutex, Exchanging, Clearing
<1>2. TypeOK /\ HolderInv /\ [Next]_vars => TypeOK' /\ HolderInv'
    BY TypeStep, HolderStep
<1> QED
    BY <1>1, <1>2, PTL DEF Spec

(* With every fault and any number of threads, nobody waits for a mutex that
   will not be released. *)
THEOREM MutexIsReleased == Spec => []MutexIsPassedOn
<1>1. HolderInv => MutexIsPassedOn
    BY DEF HolderInv
<1> QED
    BY <1>1, HolderAlways, PTL

(* The promise of refreshMu that holds whatever the API refuses: of the refreshes
   that ResolveCredentials makes in a process no two run at a time. *)
ResolvesTakeTurns ==
    \A s, t \in Threads :
        s # t /\ ProcOf[s] = ProcOf[t] => ~(HoldsMutex(s) /\ HoldsMutex(t))

THEOREM ResolvesAreSerialized == Spec => []ResolvesTakeTurns
<1>1. HolderInv => ResolvesTakeTurns
    BY DEF HolderInv, ResolvesTakeTurns
<1> QED
    BY <1>1, HolderAlways, PTL
=============================================================================
