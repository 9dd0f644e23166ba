--------------------------- MODULE ConfigProfiles ---------------------------
(***************************************************************************)
(* Where the CLI keeps who is logged in: the profiles of the config file,  *)
(* and in the keyring the live mode key and the OAuth session.  "default"  *)
(* is the active profile, the only one keys are saved for; the others are  *)
(* copies under the display name of their account.  Commands run one at a  *)
(* time and write the keyring and the file step by step, and may be killed *)
(* anywhere, also when a write of the file has truncated it.               *)
(*                                                                         *)
(* Of a profile the model keeps the account its keys and account_id are    *)
(* of, its display_name, without which it is no profile for isProfile and  *)
(* which need not be unique, and the kind of its test mode key.  The       *)
(* redacted live mode key that the file shows is left out, and so are      *)
(* access tokens other than OAuth's ("oak_"), ignored where they are read. *)
(***************************************************************************)
EXTENDS FiniteSets

CONSTANTS
    Accounts,
    None,
    Profiles,   \* the tables of the config file
    Default,    \* the active profile
    NamesOf,    \* the display names an account may have, None for no name
    Commands,   \* the commands users run
    Settings    \* and the settings they unset

Logins == {"login", "rpcLogin", "sandbox", "paste", "oauth", "context"}
Logouts == {"logout", "logoutAll"}
Names == Profiles \ {Default}
Fields == {"display_name", "live_mode_api_key", "test_mode_api_key", "account_id", "color"}

ASSUME ProfileAssumption ==
    /\ None \notin Accounts \cup Profiles
    /\ Default \in Profiles
    /\ NamesOf \in [Accounts -> SUBSET (Names \cup {None})]
    /\ Commands \subseteq Logins \cup Logouts
                      \cup {"switch", "remove", "unset", "expire"}
    /\ Settings \subseteq Fields

AccountOrNone == Accounts \cup {None}
Profile == [account : AccountOrNone, name : Names \cup {None},
            test : {"none", "key", "sandbox"}, live : BOOLEAN]
(* live: a command has a live mode key to save; FALSE in the file. *)
Entry(a, n, t, l) == [account |-> a, name |-> n, test |-> t, live |-> l]
Empty == Entry(None, None, "none", FALSE)

(* An access token by the login that was given it: an OAuth login, or a login of
   the older flow, whose response may bring one. *)
Tokens == {"none", "oauth", "login", "rpcLogin"}
Gaps == {"cutShort", "unnamed"}

VARIABLES
    file,       \* the config file
    ring,       \* the live mode key kept for Default, by its account
    oauth,      \* the OAuth entries of the keyring
    cmd,        \* the command that runs
    pc,         \* and where it is
    p,          \* its config.Profile: what CreateProfile will write
    uat,        \* and the UAT of that
    target,     \* the profile it removes or switches to
    field,      \* the setting it removes
    before,     \* history: the active account when a browser login started
    gap         \* history: what the active profile has been through since a login
                \* completed: one cut short, the loss of its display name

stored == <<file, ring, oauth>>
memory == <<cmd, p, uat, target, field, before>>
vars == <<stored, memory, pc, gap>>

Saving == {"createRing", "createLive", "createUAT", "createFile",
           "saveRefresh", "listAccounts", "saveContext"}
PC == Saving \cup {"idle", "clearRing", "clearUAT", "clearRefresh", "clearContext",
                  "clearFile", "poll", "backup", "copyOut", "copyIn",
                  "removeRing", "removeFile", "unsetRing", "unsetUAT", "unsetFile"}

TypeOK ==
    /\ file \in [Profiles -> Profile]
    /\ ring \in AccountOrNone
    /\ oauth \in [uat : Tokens, refresh : BOOLEAN, context : AccountOrNone]
    /\ cmd \in Commands \cup {"none"}
    /\ pc \in PC
    /\ p \in Profile
    /\ uat \in Tokens
    /\ target \in Profiles
    /\ field \in Fields
    /\ before \in AccountOrNone
    /\ gap \subseteq Gaps

NoOAuth == [uat |-> "none", refresh |-> FALSE, context |-> None]

Init ==
    /\ file = [n \in Profiles |-> Empty]
    /\ ring = None
    /\ oauth = NoOAuth
    /\ cmd = "none"
    /\ pc = "idle"
    /\ p = Empty
    /\ uat = "none"
    /\ target = Default
    /\ field = "color"
    /\ before = None
    /\ gap = {}

IsProfile(n) == file[n].name # None

Active == file[Default].account

(* A command, a process of its own, with the profile and the UAT it was given and
   the profile or the setting it is for. *)
Start(c, l, entry, token, n, f) ==
    /\ pc = "idle"
    /\ c \in Commands
    /\ cmd' = c
    /\ pc' = l
    /\ p' = entry
    /\ uat' = token
    /\ target' = n
    /\ field' = f
    /\ before' = IF c = "login" /\ IsProfile(Default) THEN Active ELSE None
    /\ UNCHANGED <<stored, gap>>

StartActive(c, l, entry, token) == Start(c, l, entry, token, Default, "color")

At(l, k) == pc = l /\ pc' = k

(* The memory of a command ends with it. *)
Exits ==
    /\ cmd' = "none"
    /\ p' = Empty
    /\ uat' = "none"
    /\ target' = Default
    /\ field' = "color"
    /\ before' = None
MayExit == IF pc' = "idle" THEN Exits ELSE UNCHANGED memory

(* What a login is given of an account: keys of the older flow; a test or a live mode
   key that was pasted, without a display name if the request for it failed; the
   account of an OAuth session; a sandbox, which may come without an account ID, its
   display name. *)
Granted(a) == {Entry(a, n, "key", l) : n \in NamesOf[a] \ {None}, l \in BOOLEAN}
Pasted(a) == {Entry(a, n, IF l THEN "none" ELSE "key", l) :
                 n \in NamesOf[a] \cup {None}, l \in BOOLEAN}
Authorized(a) == {Entry(a, n, "none", FALSE) : n \in NamesOf[a]}
Provisioned(a) == {Entry(a, n, "sandbox", FALSE) : n \in NamesOf[a] \cup {None}}

-----------------------------------------------------------------------------
(* RemoveAuthFields and RemoveAllAuthFields: of a logout, and first in a login.
   A key pasted to "stripe login --interactive" is known before. *)

StartClear ==
    \/ \E c \in {"login", "oauth"} \cup Logouts : StartActive(c, "clearRing", Empty, "none")
    \/ \E a \in Accounts : \E e \in Pasted(a) : StartActive("paste", "clearRing", e, "none")

Cleared == {n \in Profiles : IsProfile(n) /\ (n = Default \/ cmd = "logoutAll")}

ClearRing ==
    /\ At("clearRing", "clearUAT")
    /\ ring' = IF Default \in Cleared THEN None ELSE ring
    /\ UNCHANGED <<file, oauth, memory, gap>>

ClearUAT ==
    /\ At("clearUAT", "clearRefresh")
    /\ oauth' = [oauth EXCEPT !.uat = "none"]
    /\ UNCHANGED <<file, ring, memory, gap>>

ClearRefresh ==
    /\ At("clearRefresh", "clearContext")
    /\ oauth' = [oauth EXCEPT !.refresh = FALSE]
    /\ UNCHANGED <<file, ring, memory, gap>>

(* Mutant: the active context is kept. *)
ClearNoContext ==
    /\ At("clearContext", "clearFile")
    /\ UNCHANGED <<stored, memory, gap>>

ClearContext ==
    /\ At("clearContext", "clearFile")
    /\ oauth' = [oauth EXCEPT !.context = None]
    /\ UNCHANGED <<file, ring, memory, gap>>

AfterClear == CASE cmd \in Logouts -> "idle" [] cmd = "paste" -> "createRing" [] OTHER -> "poll"

ClearFile ==
    /\ At("clearFile", AfterClear)
    /\ file' = [n \in Profiles |-> IF n \in Cleared THEN Empty ELSE file[n]]
    /\ MayExit
    /\ UNCHANGED <<ring, oauth, gap>>

-----------------------------------------------------------------------------
(* Logins. *)

(* The user approves in the browser, for an account with or without live mode, or
   never does.  The response of the older flow may bring an access token. *)
PollEnds ==
    /\ \/ /\ cmd = "login"
          /\ At("poll", "backup")
          /\ \E a \in Accounts : p' \in Granted(a)
          /\ uat' \in {"none", "login"}
          /\ UNCHANGED <<cmd, target, field, before>>
       \/ /\ cmd = "oauth"
          /\ At("poll", "createRing")
          /\ uat' = "oauth"
          /\ UNCHANGED <<cmd, p, target, field, before>>
       \/ At("poll", "idle") /\ Exits
    /\ UNCHANGED <<stored, gap>>

(* The login of the RPC service and "stripe sandbox create" clear nothing first; the
   latter provisions a sandbox where there is no test mode key. *)
StartSaving ==
    \E a \in Accounts :
        \/ \E e \in Granted(a), t \in {"none", "rpcLogin"} :
              StartActive("rpcLogin", "backup", e, t)
        \/ /\ file[Default].test = "none"
           /\ \E e \in Provisioned(a) : StartActive("sandbox", "backup", e, "none")

(* CopyProfile of the active profile to the table of its display name, whatever
   account that is of. *)
CopyOfDefault == [file EXCEPT ![file[Default].name] = file[Default]]

Written == [p EXCEPT !.live = FALSE]

(* Mutant: the backup is made after the profile is overwritten. *)
BackupOfNew ==
    /\ At("backup", "createRing")
    /\ file' = [n \in Profiles |-> IF n \in {Default, p.name} THEN Written ELSE file[n]]
    /\ UNCHANGED <<ring, oauth, memory, gap>>

(* The error of CopyProfile is ignored. *)
Backup ==
    /\ At("backup", "createRing")
    /\ file' = IF IsProfile(Default) THEN CopyOfDefault ELSE file
    /\ UNCHANGED <<ring, oauth, memory, gap>>

-----------------------------------------------------------------------------
(* CreateProfile. *)

CreateRing ==
    /\ At("createRing", "createLive")
    /\ ring' = None
    /\ UNCHANGED <<file, oauth, memory, gap>>

CreateLive ==
    /\ At("createLive", "createUAT")
    /\ ring' = IF p.live THEN p.account ELSE ring
    /\ UNCHANGED <<file, oauth, memory, gap>>

CreateUAT ==
    /\ At("createUAT", "createFile")
    /\ oauth' = [oauth EXCEPT !.uat = uat]
    /\ UNCHANGED <<file, ring, memory, gap>>

(* An OAuth login comes here twice, first with no account. *)
CreateFile ==
    /\ At("createFile", IF cmd = "oauth" /\ p = Empty THEN "saveRefresh" ELSE "idle")
    /\ file' = [file EXCEPT ![Default] = Written]
    /\ gap' = CASE p = Empty -> gap [] p.name = None -> {"unnamed"} [] OTHER -> {}
    /\ MayExit
    /\ UNCHANGED <<ring, oauth>>

-----------------------------------------------------------------------------
(* OAuth: UpdateOAuthTokens, populateProfileFromAccounts and SwitchContext. *)

SaveRefresh ==
    /\ At("saveRefresh", "listAccounts")
    /\ oauth' = [oauth EXCEPT !.refresh = TRUE]
    /\ UNCHANGED <<file, ring, memory, gap>>

(* The request for the accounts may fail; the session is saved by then. *)
ListAccounts ==
    /\ \/ /\ At("listAccounts", "saveContext")
          /\ \E a \in Accounts : p' \in Authorized(a)
          /\ UNCHANGED <<cmd, uat, target, field, before>>
       \/ At("listAccounts", "idle") /\ Exits
    /\ UNCHANGED <<stored, gap>>

(* It keeps the token, whatever login it came with. *)
StartContext ==
    /\ oauth.uat # "none"
    /\ \E a \in Accounts : \E e \in Authorized(a) :
          StartActive("context", "saveContext", e, oauth.uat)

(* Mutant: only the login saves the context. *)
SaveContextOnLogin ==
    /\ At("saveContext", "createRing")
    /\ oauth' = [oauth EXCEPT !.context = IF cmd = "oauth" THEN p.account ELSE @]
    /\ UNCHANGED <<file, ring, memory, gap>>

SaveContext ==
    /\ At("saveContext", "createRing")
    /\ oauth' = [oauth EXCEPT !.context = p.account]
    /\ UNCHANGED <<file, ring, memory, gap>>

-----------------------------------------------------------------------------
(* SwitchProfile and RemoveProfile. *)

(* "stripe login switch": under OAuth it switches the context.  It fails without a
   display name to copy the active profile to. *)
StartSwitch ==
    /\ oauth.uat = "none"
    /\ IsProfile(Default)
    /\ \E n \in Profiles : Start("switch", "copyOut", Empty, "none", n, "color")

CopyOut ==
    /\ At("copyOut", "copyIn")
    /\ file' = CopyOfDefault
    /\ UNCHANGED <<ring, oauth, memory, gap>>

(* Nothing is copied from a missing profile, nor from Default to itself. *)
CopyIn ==
    /\ IF IsProfile(target) /\ target # Default
       THEN /\ At("copyIn", "removeRing")
            /\ file' = [file EXCEPT ![Default] = file[target]]
       ELSE At("copyIn", "idle") /\ UNCHANGED file
    /\ MayExit
    /\ UNCHANGED <<ring, oauth, gap>>

StartRemove ==
    \E n \in Profiles : Start("remove", "removeRing", Empty, "none", n, "color")

(* A table without display_name is removed too, if there is one. *)
RemoveRing ==
    /\ \/ At("removeRing", "removeFile") /\ ring' = IF target = Default THEN None ELSE ring
       \/ ~IsProfile(target) /\ At("removeRing", "idle") /\ UNCHANGED ring
    /\ MayExit
    /\ UNCHANGED <<file, oauth, gap>>

RemoveFile ==
    /\ At("removeFile", "idle")
    /\ file' = [file EXCEPT ![target] = Empty]
    /\ gap' = IF target = Default THEN {} ELSE gap
    /\ Exits
    /\ UNCHANGED <<ring, oauth>>

-----------------------------------------------------------------------------
(* DeleteConfigField: of one setting for "stripe config --unset", and one after the
   other of those of a sandbox that has expired; its public key, claim URL and
   expiry go with its secret key here. *)

StartUnset ==
    \/ \E f \in Settings :
          Start("unset", "unsetRing", Empty, "none", Default, f)
    \/ /\ file[Default].test = "sandbox"
       /\ Start("expire", "unsetRing", Empty, "none", Default, "test_mode_api_key")

UnsetRing ==
    /\ At("unsetRing", "unsetUAT")
    /\ ring' = IF field = "live_mode_api_key" THEN None ELSE ring
    /\ UNCHANGED <<file, oauth, memory, gap>>

(* writeProfile, with the empty p.UAT of a new process. *)
UnsetUAT ==
    /\ At("unsetUAT", "unsetFile")
    /\ oauth' = [oauth EXCEPT !.uat = uat]
    /\ UNCHANGED <<file, ring, memory, gap>>

Without(e, f) ==
    CASE f = "display_name" -> [e EXCEPT !.name = None]
      [] f = "test_mode_api_key" -> [e EXCEPT !.test = "none"]
      [] f = "account_id" -> [e EXCEPT !.account = None]
      [] OTHER -> e

Unnamed == IF IsProfile(Default) THEN {"unnamed"} ELSE {}

NextExpired == IF field = "test_mode_api_key" THEN "account_id" ELSE "display_name"

UnsetFile ==
    /\ file' = [file EXCEPT ![Default] = Without(@, field)]
    /\ gap' = IF field = "display_name" THEN gap \cup Unnamed ELSE gap
    /\ IF cmd = "expire" /\ field # "display_name"
       THEN /\ At("unsetFile", "unsetRing")
            /\ field' = NextExpired
            /\ UNCHANGED <<cmd, p, uat, target, before>>
       ELSE At("unsetFile", "idle") /\ Exits
    /\ UNCHANGED <<ring, oauth>>

-----------------------------------------------------------------------------
CutShort == IF pc \in Saving THEN {"cutShort"} ELSE {}

Crash ==
    /\ pc # "idle"
    /\ pc' = "idle"
    /\ gap' = gap \cup CutShort
    /\ Exits
    /\ UNCHANGED stored

(* writeConfig truncates the file and then writes it: a kill between the two leaves
   it empty. *)
WritesFile ==
    \/ pc \in {"clearFile", "createFile", "copyOut", "removeFile", "unsetFile"}
    \/ pc = "backup" /\ IsProfile(Default)
    \/ pc = "copyIn" /\ IsProfile(target) /\ target # Default

KilledInWrite ==
    /\ WritesFile
    /\ pc' = "idle"
    /\ file' = [n \in Profiles |-> Empty]
    /\ gap' = gap \cup CutShort \cup Unnamed
    /\ Exits
    /\ UNCHANGED <<ring, oauth>>

Clear == StartClear \/ ClearRing \/ ClearUAT \/ ClearRefresh \/ ClearContext \/ ClearFile
CreateProfile == CreateRing \/ CreateLive \/ CreateUAT \/ CreateFile
Login == PollEnds \/ StartSaving \/ Backup \/ SaveRefresh \/ ListAccounts
SwitchContext == StartContext \/ SaveContext
SwitchProfile == StartSwitch \/ CopyOut \/ CopyIn
RemoveProfile == StartRemove \/ RemoveRing \/ RemoveFile
DeleteConfigField == StartUnset \/ UnsetRing \/ UnsetUAT \/ UnsetFile

Next ==
    \/ Clear \/ CreateProfile \/ Login
    \/ SwitchContext \/ SwitchProfile \/ RemoveProfile \/ DeleteConfigField
    \/ Crash \/ KilledInWrite

Spec == Init /\ [][Next]_vars

-----------------------------------------------------------------------------
(* Properties. *)

(* The accounts a user can switch to, by the display name to ask for. *)
Known == {[account |-> file[n].account, name |-> file[n].name] :
             n \in {m \in Profiles : IsProfile(m)}}

(* Unless it is killed while the file is truncated, a switch, a sandbox or a login of
   the RPC service loses no account of the config file, but for one whose display
   name the active account has too, and takes over. *)
AccountsAreKept ==
    [][pc # "idle" /\ cmd \in {"switch", "sandbox", "rpcLogin"} /\ ~KilledInWrite =>
         \A k \in Known \ Known' : k.name = file[Default].name /\ k.account # Active]_vars

(* A logout leaves no credential a request of the active profile could use, and
   "logout --all" none of any profile: whenever that profile has a display name, and
   also when it has none, unless a login was cut short or brought none, or the name
   was unset, or the config file was lost. *)
LogoutLeavesNothing ==
    [][ClearFile /\ cmd \in Logouts /\ (IsProfile(Default) \/ gap = {}) =>
         /\ ring' = None
         /\ oauth' = NoOAuth
         /\ \A n \in Profiles : n = Default \/ cmd = "logoutAll" => file'[n] = Empty]_vars

(* Between commands an access token is sent with the context of the active account,
   unless a login was cut short: the next one that completes puts that right.  A token
   of the older browser login may have none.  (That of the RPC service may have
   another's: RPCTokenHasNoContext.) *)
ContextIsActive ==
    pc = "idle" /\ "cutShort" \notin gap /\ Active # None
        /\ oauth.uat \in {"oauth", "login"} =>
      \/ oauth.context = Active
      \/ oauth.uat = "login" /\ oauth.context = None

(* The access token a login of the RPC service brings is not sent with the context of
   an earlier OAuth session. *)
RPCTokenHasNoContext ==
    pc = "idle" /\ "cutShort" \notin gap /\ Active # None /\ oauth.uat = "rpcLogin" =>
      oauth.context \in {None, Active}

(* A login keeps the account that was active: "First, back up the current profile
   before default is overwritten." *)
LoginBacksUp ==
    [][pc = "createFile" /\ cmd = "login" /\ before # None /\ before # p.account /\ gap = {} =>
         \E k \in Known : k.account = before]_vars

(* A kill never costs an account of the config file. *)
FileSurvivesKills == [][Crash \/ KilledInWrite => Known \subseteq Known']_vars

(* Between commands a live mode request is made with the key of the active account. *)
LiveKeyIsActive == pc = "idle" /\ gap = {} /\ Active # None => ring \in {None, Active}
=============================================================================
