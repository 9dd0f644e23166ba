---------------------------- MODULE OAuthSession ----------------------------
(***************************************************************************)
(* The OAuth session of the CLI: an access token (UAT) with its expiry, a  *)
(* refresh token that may be exchanged once, and the active context, all   *)
(* in the keyring, which every process of the user shares.  Threads make   *)
(* one request each: config.Profile.ResolveCredentials, which refreshes a  *)
(* token about to expire under the mutex of its process, then the request  *)
(* of requests.Base, which refreshes after an "unauthorized" answer.       *)
(*                                                                         *)
(* Tokens are numbered by the exchange that issued them; 0 is none.        *)
(***************************************************************************)
EXTENDS Naturals, FiniteSets

CONSTANTS
    Procs,        \* processes
    Threads,      \* requests, one thread each
    ProcOf,       \* the process of each thread
    Free,         \* the holder of a free mutex
    MaxToken,     \* bound: tokens ever issued
    Rejects,      \* the API may reject an access token about to expire
    Unauthorized, \* the API may reject a fresh access token
    Terse,        \* the answer to an exchange may lack a refresh token or expiry
    Faults        \* exchanges and keyring writes may fail, processes crash

ASSUME SessionAssumption ==
    /\ ProcOf \in [Threads -> Procs]
    /\ Free \notin Threads
    /\ MaxToken \in Nat \ {0}
    /\ {Rejects, Unauthorized, Terse, Faults} \subseteq BOOLEAN

Token == 0..MaxToken

VARIABLES
    issued,     \* the last tokens issued; the refresh token not yet exchanged
    old,        \* access tokens within 60 seconds of their expiry
    rejected,   \* access tokens the API no longer accepts
    store,      \* the keyring
    profile,    \* p.UAT, per process
    mutex,      \* refreshMu, per process
    pc,         \* where each thread is
    caller,     \* who called refreshOAuthToken: "resolve" or "request"
    uat,        \* the access token a thread uses
    held,       \* the refresh token a thread exchanges, then the token it got
    retries     \* how often a thread has sent its request again

server == <<issued, old, rejected>>
vars == <<server, store, profile, mutex, pc, caller, uat, held, retries>>

PC == {"resolve", "checkExpiry", "lock", "recheck", "readRefresh", "exchange",
       "saveUAT", "saveRefresh", "saveExpiry", "clearUAT", "clearRefresh",
       "clearContext", "clearExpiry", "send", "unauthorized",
       "done", "failed", "dead"}

TypeOK ==
    /\ issued \in Token
    /\ old \subseteq 1..issued
    /\ rejected \subseteq old
    /\ store \in [uat : 0..issued, refresh : 0..issued, expiry : 0..issued,
                  context : BOOLEAN]
    /\ profile \in [Procs -> 0..issued]
    /\ mutex \in [Procs -> Threads \cup {Free}]
    /\ pc \in [Threads -> PC]
    /\ caller \in [Threads -> {"resolve", "request"}]
    /\ uat \in [Threads -> 0..issued]
    /\ held \in [Threads -> 0..issued]
    /\ retries \in [Threads -> Nat]

(* Logged in; a process reads the UAT from the keyring, p.UAT is empty. *)
Init ==
    /\ issued = 1
    /\ old = {}
    /\ rejected = {}
    /\ store = [uat |-> 1, refresh |-> 1, expiry |-> 1, context |-> TRUE]
    /\ profile = [p \in Procs |-> 0]
    /\ mutex = [p \in Procs |-> Free]
    /\ pc = [t \in Threads |-> "resolve"]
    /\ caller = [t \in Threads |-> "resolve"]
    /\ uat = [t \in Threads |-> 0]
    /\ held = [t \in Threads |-> 0]
    /\ retries = [t \in Threads |-> 0]

Goto(t, l) == pc' = [pc EXCEPT ![t] = l]

(* Mutant: the mutex is released by a refresh that succeeds only. *)
FailRefreshKeepsMutex(t) ==
    /\ Goto(t, "failed")
    /\ UNCHANGED mutex

(* refreshOAuthToken, called under the mutex or not, ends in an error. *)
FailRefresh(t) ==
    /\ Goto(t, "failed")
    /\ mutex' = IF caller[t] = "resolve" THEN [mutex EXCEPT ![ProcOf[t]] = Free] ELSE mutex

-----------------------------------------------------------------------------
(* ResolveCredentials. *)

(* GetUAT; without a token the API key is used, which is another story. *)
ReadUAT(t) ==
    /\ pc[t] = "resolve"
    /\ uat' = [uat EXCEPT ![t] = store.uat]
    /\ Goto(t, IF store.uat = 0 THEN "failed" ELSE "checkExpiry")
    /\ UNCHANGED <<server, store, profile, mutex, caller, held, retries>>

AboutToExpire == store.expiry # 0 /\ store.expiry \in old

CheckExpiry(t) ==
    /\ pc[t] = "checkExpiry"
    /\ Goto(t, IF AboutToExpire THEN "lock" ELSE "send")
    /\ UNCHANGED <<server, store, profile, mutex, caller, uat, held, retries>>

Lock(t) ==
    /\ pc[t] = "lock"
    /\ mutex[ProcOf[t]] = Free
    /\ mutex' = [mutex EXCEPT ![ProcOf[t]] = t]
    /\ Goto(t, "recheck")
    /\ UNCHANGED <<server, store, profile, caller, uat, held, retries>>

(* Mutant: the expiry is not read again under the lock, but the old token is
   presented as the one to exchange. *)
RecheckWithReadToken(t) ==
    /\ pc[t] = "recheck"
    /\ Goto(t, "exchange")
    /\ caller' = [caller EXCEPT ![t] = "resolve"]
    /\ held' = [held EXCEPT ![t] = uat[t]]
    /\ UNCHANGED <<server, store, profile, mutex, uat, retries>>

(* Mutant: the mutex is not released when there is nothing to do. *)
RecheckKeepsMutex(t) ==
    /\ pc[t] = "recheck"
    /\ Goto(t, IF AboutToExpire THEN "readRefresh" ELSE "send")
    /\ caller' = [caller EXCEPT ![t] = "resolve"]
    /\ UNCHANGED <<server, store, profile, mutex, uat, held, retries>>

(* Another thread may have refreshed the token; uat is what was read before. *)
Recheck(t) ==
    /\ pc[t] = "recheck"
    /\ IF AboutToExpire
       THEN /\ Goto(t, "readRefresh")
            /\ caller' = [caller EXCEPT ![t] = "resolve"]
            /\ UNCHANGED mutex
       ELSE /\ Goto(t, "send")
            /\ mutex' = [mutex EXCEPT ![ProcOf[t]] = Free]
            /\ UNCHANGED caller
    /\ UNCHANGED <<server, store, profile, uat, held, retries>>

-----------------------------------------------------------------------------
(* refreshOAuthToken. *)

ReadRefresh(t) ==
    /\ pc[t] = "readRefresh"
    /\ held' = [held EXCEPT ![t] = store.refresh]
    /\ IF store.refresh = 0 THEN FailRefresh(t) ELSE Goto(t, "exchange") /\ UNCHANGED mutex
    /\ UNCHANGED <<server, store, profile, caller, uat, retries>>

(* The last refresh token issued is good for one exchange. *)
ExchangeSucceeds(t) ==
    /\ pc[t] = "exchange"
    /\ held[t] = issued
    /\ issued < MaxToken
    /\ issued' = issued + 1
    /\ held' = [held EXCEPT ![t] = issued + 1]
    /\ profile' = [profile EXCEPT ![ProcOf[t]] = issued + 1]
    /\ Goto(t, "saveUAT")
    /\ UNCHANGED <<old, rejected, store, mutex, caller, uat, retries>>

(* invalid_grant: p.UAT is cleared, then the keyring. *)
ExchangeInvalid(t) ==
    /\ pc[t] = "exchange"
    /\ held[t] # issued
    /\ profile' = [profile EXCEPT ![ProcOf[t]] = 0]
    /\ Goto(t, "clearUAT")
    /\ UNCHANGED <<server, store, mutex, caller, uat, held, retries>>

(* No answer, whether or not the server has made the exchange; or the bound. *)
ExchangeFails(t) ==
    /\ pc[t] = "exchange"
    /\ Faults \/ issued = MaxToken
    /\ \/ UNCHANGED issued
       \/ held[t] = issued /\ issued < MaxToken /\ issued' = issued + 1
    /\ FailRefresh(t)
    /\ UNCHANGED <<old, rejected, store, profile, caller, uat, held, retries>>

(* Mutants: what is saved is the token read before the refresh; the refresh token
   is saved in place of the access token. *)
SaveUATUsed(t) ==
    /\ pc[t] = "saveUAT"
    /\ store' = [store EXCEPT !.uat = uat[t]]
    /\ Goto(t, "saveRefresh")
    /\ UNCHANGED <<server, profile, mutex, caller, uat, held, retries>>

SaveUATAndRefreshFirst(t) ==
    /\ pc[t] = "saveUAT"
    /\ store' = [store EXCEPT !.refresh = held[t]]
    /\ Goto(t, "saveRefresh")
    /\ UNCHANGED <<server, profile, mutex, caller, uat, held, retries>>

(* CreateProfile writes p.UAT as it then is, or removes it when it is empty; and then
   the config file, which has no token.  That write failing ends the refresh like
   KeyringFails at "saveRefresh". *)
SaveUAT(t) ==
    /\ pc[t] = "saveUAT"
    /\ store' = [store EXCEPT !.uat = profile[ProcOf[t]]]
    /\ Goto(t, "saveRefresh")
    /\ UNCHANGED <<server, profile, mutex, caller, uat, held, retries>>

(* The refresh token just spent is removed when the answer had no other. *)
SaveRefresh(t) ==
    /\ pc[t] = "saveRefresh"
    /\ \/ store' = [store EXCEPT !.refresh = held[t]]
       \/ Terse /\ store' = [store EXCEPT !.refresh = 0]
    /\ Goto(t, "saveExpiry")
    /\ UNCHANGED <<server, profile, mutex, caller, uat, held, retries>>

(* The refresh is over: ResolveCredentials goes on with p.UAT and releases the
   mutex; the request resolves its credentials anew. *)
SaveExpiry(t) ==
    /\ pc[t] = "saveExpiry"
    /\ \/ store' = [store EXCEPT !.expiry = held[t]]
       \/ Terse /\ UNCHANGED store
    /\ IF caller[t] = "resolve"
       THEN /\ uat' = [uat EXCEPT ![t] = profile[ProcOf[t]]]
            /\ mutex' = [mutex EXCEPT ![ProcOf[t]] = Free]
            /\ Goto(t, "send")
       ELSE /\ Goto(t, "resolve")
            /\ UNCHANGED <<uat, mutex>>
    /\ UNCHANGED <<server, profile, caller, held, retries>>

KeyringFails(t) ==
    /\ Faults
    /\ pc[t] \in {"readRefresh", "saveUAT", "saveRefresh", "saveExpiry",
                 "clearUAT", "clearRefresh", "clearContext", "clearExpiry"}
    /\ FailRefresh(t)
    /\ UNCHANGED <<server, store, profile, caller, uat, held, retries>>

(* clearOAuthCredentialsForProfile. *)
ClearUAT(t) ==
    /\ pc[t] = "clearUAT"
    /\ store' = [store EXCEPT !.uat = profile[ProcOf[t]]]
    /\ Goto(t, "clearRefresh")
    /\ UNCHANGED <<server, profile, mutex, caller, uat, held, retries>>

ClearRefresh(t) ==
    /\ pc[t] = "clearRefresh"
    /\ store' = [store EXCEPT !.refresh = 0]
    /\ Goto(t, "clearContext")
    /\ UNCHANGED <<server, profile, mutex, caller, uat, held, retries>>

ClearContext(t) ==
    /\ pc[t] = "clearContext"
    /\ store' = [store EXCEPT !.context = FALSE]
    /\ Goto(t, "clearExpiry")
    /\ UNCHANGED <<server, profile, mutex, caller, uat, held, retries>>

ClearExpiry(t) ==
    /\ pc[t] = "clearExpiry"
    /\ store' = [store EXCEPT !.expiry = 0]
    /\ FailRefresh(t)
    /\ UNCHANGED <<server, profile, caller, uat, held, retries>>

-----------------------------------------------------------------------------
(* performRequest. *)

SendAccepted(t) ==
    /\ pc[t] = "send"
    /\ uat[t] \notin rejected
    /\ Goto(t, "done")
    /\ UNCHANGED <<server, store, profile, mutex, caller, uat, held, retries>>

SendUnauthorized(t) ==
    /\ pc[t] = "send"
    /\ uat[t] \in rejected \/ Unauthorized
    /\ Goto(t, "unauthorized")
    /\ UNCHANGED <<server, store, profile, mutex, caller, uat, held, retries>>

(* With a token in the keyring the request is refreshed and performed again. *)
RefreshAndRetry(t) ==
    /\ pc[t] = "unauthorized"
    /\ IF store.uat = 0
       THEN Goto(t, "failed") /\ UNCHANGED <<caller, retries>>
       ELSE /\ Goto(t, "readRefresh")
            /\ caller' = [caller EXCEPT ![t] = "request"]
            /\ retries' = [retries EXCEPT ![t] = @ + 1]
    /\ UNCHANGED <<server, store, profile, mutex, uat, held>>

-----------------------------------------------------------------------------
(* The passage of time, and crashes. *)

Expire ==
    /\ \E k \in 1..(MaxToken - 1) :
          k <= issued /\ k \notin old /\ old' = old \cup {k}
    /\ UNCHANGED <<issued, rejected, store, profile, mutex, pc, caller, uat, held,
                   retries>>

Reject ==
    /\ Rejects
    /\ \E k \in old : k \notin rejected /\ rejected' = rejected \cup {k}
    /\ UNCHANGED <<issued, old, store, profile, mutex, pc, caller, uat, held,
                   retries>>

Ended(t) == pc[t] \in {"done", "failed", "dead"}

Crash(p) ==
    /\ Faults
    /\ \E t \in Threads : ProcOf[t] = p /\ ~Ended(t)
    /\ pc' = [t \in Threads |-> IF ProcOf[t] = p /\ ~Ended(t) THEN "dead" ELSE pc[t]]
    /\ UNCHANGED <<server, store, profile, mutex, caller, uat, held, retries>>

ResolveStep(t) == ReadUAT(t) \/ CheckExpiry(t) \/ Lock(t) \/ Recheck(t)

RefreshStep(t) ==
    \/ ReadRefresh(t)
    \/ ExchangeSucceeds(t) \/ ExchangeInvalid(t) \/ ExchangeFails(t)
    \/ SaveUAT(t) \/ SaveRefresh(t) \/ SaveExpiry(t) \/ KeyringFails(t)
    \/ ClearUAT(t) \/ ClearRefresh(t) \/ ClearContext(t) \/ ClearExpiry(t)

RequestStep(t) == SendAccepted(t) \/ SendUnauthorized(t) \/ RefreshAndRetry(t)

Step(t) == ResolveStep(t) \/ RefreshStep(t) \/ RequestStep(t)

Next ==
    \/ \E t \in Threads : Step(t)
    \/ Expire \/ Reject
    \/ \E p \in Procs : Crash(p)

Spec == Init /\ [][Next]_vars

(* Every thread is scheduled, and gets the mutex when others keep passing it. *)
FairSpec ==
    /\ Spec
    /\ \A t \in Threads : WF_vars(Step(t)) /\ SF_vars(Lock(t))

-----------------------------------------------------------------------------
(* Properties. *)

Exchanging(t) ==
    pc[t] \in {"readRefresh", "exchange", "saveUAT", "saveRefresh", "saveExpiry"}

Clearing(t) == pc[t] \in {"clearUAT", "clearRefresh", "clearContext", "clearExpiry"}

(* Between Lock and Unlock of ResolveCredentials. *)
HoldsMutex(t) ==
    \/ pc[t] = "recheck"
    \/ caller[t] = "resolve" /\ (Exchanging(t) \/ Clearing(t))

(* "refreshMu serializes concurrent refresh attempts so only one goroutine hits
   the token endpoint at a time."  A refresh after an "unauthorized" answer is not
   serialized by it and refutes this. *)
OneAtTheEndpoint ==
    \A s, t \in Threads :
        s # t /\ ProcOf[s] = ProcOf[t] => ~(Exchanging(s) /\ Exchanging(t))

(* The threads of one process never spend a refresh token twice: the session is
   not cleared under a user whose refresh token was good. *)
SessionSurvives ==
    /\ store.uat # 0 /\ store.refresh # 0 /\ store.context
    /\ \A t \in Threads : pc[t] # "failed"

(* Whatever fails, crashes or runs in another process, an access token in the
   keyring is only ever replaced by a later one, or removed. *)
TokensMoveForward == [][store'.uat = 0 \/ store'.uat >= store.uat]_vars

(* The keyring never holds a refresh token later than its access token: whoever
   reads the pair between two saves has not lost what the exchange returned. *)
AccessSavedFirst == store.uat # 0 => store.refresh <= store.uat

(* refreshMu is passed on: its holder is at work under it and releases it by its
   own next steps, or has died with every thread that could wait for it; however
   refreshes fail, and although the refresh after an "unauthorized" answer, which
   holds no mutex, runs through the same code. *)
MutexIsPassedOn ==
    \A p \in Procs : mutex[p] # Free =>
        /\ ProcOf[mutex[p]] = p
        /\ \/ HoldsMutex(mutex[p])
           \/ /\ pc[mutex[p]] = "dead"
              /\ \A t \in Threads : ProcOf[t] = p => Ended(t)

(* A thread that finds under the lock that another has refreshed the token goes
   on with the new one: "others re-use the result after the lock". *)
OthersReuseResult ==
    [][\A t \in Threads :
         pc[t] = "recheck" /\ pc'[t] = "send" => uat'[t] = store.uat]_vars

(* Every request ends, in an answer or an error. *)
EveryRequestEnds == \A t \in Threads : <>Ended(t)
=============================================================================
