------------------------ MODULE ConfigProfilesProofs ------------------------
(***************************************************************************)
(* What holds of ConfigProfiles for any number of accounts, names and      *)
(* tables, shared names included.                                          *)
(* IInv: a table is named for the display name in it, and a command about  *)
(* to overwrite a profile has copied it; so a save or a switch loses no    *)
(* account but for one that goes by the same display name.                 *)
(* CredentialsInv: a live mode key belongs to a profile that               *)
(* RemoveAuthFields can see, and the OAuth context to the active one,      *)
(* except in the middle of a login or after one that was cut short.        *)
(* KeyInv: without a switch of profiles the key in the keyring is that of  *)
(* the active profile, with the same exceptions.                           *)
(***************************************************************************)
EXTENDS ConfigProfiles, TLAPS

(* The cases of a step, one for each action. *)
LEMMA StepCases ==
    ASSUME [Next]_vars
    PROVE  \/ StartClear \/ ClearRing \/ ClearUAT \/ ClearRefresh \/ ClearContext
           \/ ClearFile \/ CreateRing \/ CreateLive \/ CreateUAT \/ CreateFile
           \/ PollEnds \/ StartSaving \/ Backup \/ SaveRefresh \/ ListAccounts
           \/ StartContext \/ SaveContext
           \/ StartSwitch \/ CopyOut \/ CopyIn
           \/ StartRemove \/ RemoveRing \/ RemoveFile
           \/ StartUnset \/ UnsetRing \/ UnsetUAT \/ UnsetFile
           \/ Crash \/ KilledInWrite \/ UNCHANGED vars
BY DEF Next, Clear, CreateProfile, Login, SwitchContext, SwitchProfile, RemoveProfile,
       DeleteConfigField

-----------------------------------------------------------------------------
(* The profiles a command may be given. *)
LEMMA Entries ==
    /\ Empty \in Profile
    /\ \A a \in Accounts :
         Granted(a) \cup Pasted(a) \cup Authorized(a) \cup Provisioned(a) \subseteq Profile
<1>1. Empty \in Profile
    BY DEF Empty, Entry, Profile, AccountOrNone
<1> SUFFICES ASSUME NEW a \in Accounts
             PROVE  Granted(a) \cup Pasted(a) \cup Authorized(a) \cup Provisioned(a) \subseteq Profile
    BY <1>1
<1>2. \A n \in Names \cup {None}, t \in {"none", "key", "sandbox"}, l \in BOOLEAN :
         Entry(a, n, t, l) \in Profile
    BY DEF Entry, Profile, AccountOrNone
<1>3. NamesOf[a] \subseteq Names \cup {None}
    BY ProfileAssumption
<1>4. Granted(a) \subseteq Profile
    BY <1>2, <1>3 DEF Granted
<1>5. Pasted(a) \subseteq Profile
    BY <1>2, <1>3 DEF Pasted
<1>6. Authorized(a) \subseteq Profile
    BY <1>2, <1>3 DEF Authorized
<1>7. Provisioned(a) \subseteq Profile
    BY <1>2, <1>3 DEF Provisioned
<1> QED BY <1>4, <1>5, <1>6, <1>7

(* A command that starts has changed nothing yet. *)
LEMMA StartsKeep ==
    ASSUME StartClear \/ StartSaving \/ StartContext \/ StartSwitch \/ StartRemove \/ StartUnset
    PROVE  UNCHANGED <<file, ring, oauth, gap>>
BY DEF StartClear, StartSaving, StartContext, StartSwitch, StartRemove, StartUnset, StartActive,
       Start, stored

(* Nobody is logged in at first. *)
LEMMA TypeInit == Init => TypeOK
<1> SUFFICES ASSUME Init PROVE TypeOK
    OBVIOUS
<1>1. file \in [Profiles -> Profile] /\ p \in Profile
    BY Entries DEF Init
<1>2. oauth \in [uat : Tokens, refresh : BOOLEAN, context : AccountOrNone]
    BY DEF Init, NoOAuth, AccountOrNone, Tokens
<1>3. /\ ring \in AccountOrNone /\ cmd \in Commands \cup {"none"} /\ pc \in PC
      /\ uat \in Tokens /\ target \in Profiles /\ field \in Fields
      /\ before \in AccountOrNone /\ gap \subseteq Gaps
    BY ProfileAssumption DEF Init, AccountOrNone, PC, Saving, Tokens, Fields
<1> QED BY <1>1, <1>2, <1>3 DEF TypeOK

(* A command that starts. *)
LEMMA StartTypes ==
    ASSUME TypeOK, NEW c, NEW l \in PC, NEW e \in Profile, NEW t \in Tokens,
           NEW n \in Profiles, NEW f \in Fields, Start(c, l, e, t, n, f)
    PROVE  TypeOK'
<1>1. before' \in AccountOrNone
    BY ProfileAssumption DEF TypeOK, Start, Active, AccountOrNone, Profile
<1>2. /\ cmd' \in Commands /\ pc' = l /\ p' = e /\ uat' = t /\ target' = n /\ field' = f
      /\ UNCHANGED <<stored, gap>>
    BY DEF Start
<1> QED BY <1>1, <1>2 DEF TypeOK, stored

(* What a command leaves in memory. *)
LEMMA MemoryTypes ==
    ASSUME TypeOK, Exits \/ UNCHANGED memory
    PROVE  /\ cmd' \in Commands \cup {"none"} /\ p' \in Profile /\ uat' \in Tokens
           /\ target' \in Profiles /\ field' \in Fields /\ before' \in AccountOrNone
<1>1. CASE Exits
    BY <1>1, Entries, ProfileAssumption DEF Exits, Tokens, Fields, AccountOrNone
<1>2. CASE UNCHANGED memory
    BY <1>2 DEF TypeOK, memory
<1> QED BY <1>1, <1>2

(* Every action keeps the types. *)
LEMMA TypeStep == TypeOK /\ [Next]_vars => TypeOK'
<1> SUFFICES ASSUME TypeOK, [Next]_vars PROVE TypeOK'
    OBVIOUS
<1>1. CASE StartClear
    <2>1. CASE \E c \in {"login", "oauth"} \cup Logouts : StartActive(c, "clearRing", Empty, "none")
        BY <2>1, ProfileAssumption, Entries, StartTypes DEF StartActive, PC, Saving, Tokens, Fields
    <2>2. CASE \E a \in Accounts : \E e \in Pasted(a) : StartActive("paste", "clearRing", e, "none")
        BY <2>2, ProfileAssumption, Entries, StartTypes DEF StartActive, PC, Saving, Tokens, Fields
    <2> QED BY <1>1, <2>1, <2>2 DEF StartClear
<1>2. CASE ClearRing
    BY <1>2, MemoryTypes DEF ClearRing, TypeOK, At, PC, Saving, AccountOrNone, Profile, Tokens
<1>3. CASE ClearUAT
    BY <1>3, MemoryTypes DEF ClearUAT, TypeOK, At, PC, Saving, AccountOrNone, Profile, Tokens
<1>4. CASE ClearRefresh
    BY <1>4, MemoryTypes DEF ClearRefresh, TypeOK, At, PC, Saving, AccountOrNone, Profile, Tokens
<1>5. CASE ClearContext
    BY <1>5, MemoryTypes DEF ClearContext, TypeOK, At, PC, Saving, AccountOrNone, Profile, Tokens
<1>6. CASE ClearFile
    <2>1. file' \in [Profiles -> Profile]
        BY <1>6, ProfileAssumption, Entries DEF ClearFile, TypeOK, Profile
    <2>2. pc' \in PC /\ gap' \subseteq Gaps
        BY <1>6 DEF ClearFile, TypeOK, At, PC, Saving, Gaps, AfterClear
    <2> QED BY <1>6, <2>1, <2>2, MemoryTypes DEF ClearFile, TypeOK, MayExit
<1>7. CASE CreateRing
    BY <1>7, MemoryTypes DEF CreateRing, TypeOK, At, PC, Saving, AccountOrNone, Profile, Tokens
<1>8. CASE CreateLive
    BY <1>8, MemoryTypes DEF CreateLive, TypeOK, At, PC, Saving, AccountOrNone, Profile, Tokens
<1>9. CASE CreateUAT
    BY <1>9, MemoryTypes DEF CreateUAT, TypeOK, At, PC, Saving, AccountOrNone, Profile, Tokens
<1>10. CASE CreateFile
    <2>1. file' \in [Profiles -> Profile]
        BY <1>10, ProfileAssumption, Entries DEF CreateFile, TypeOK, Profile, Written
    <2>2. pc' \in PC /\ gap' \subseteq Gaps
        BY <1>10 DEF CreateFile, TypeOK, At, PC, Saving, Gaps
    <2> QED BY <1>10, <2>1, <2>2, MemoryTypes DEF CreateFile, TypeOK, MayExit
<1>11. CASE PollEnds
    <2>1. p' \in Profile /\ uat' \in Tokens
        BY <1>11, Entries DEF PollEnds, TypeOK, Tokens, Exits
    <2>2. pc' \in PC
        BY <1>11 DEF PollEnds, At, PC, Saving
    <2>3. CASE Exits
        BY <1>11, <2>2, <2>3, MemoryTypes DEF PollEnds, TypeOK, stored
    <2>4. CASE ~Exits
        BY <1>11, <2>1, <2>2, <2>4 DEF PollEnds, TypeOK, stored
    <2> QED BY <2>3, <2>4
<1>12. CASE StartSaving
    <2>1. CASE \E a \in Accounts : \E e \in Granted(a), t \in {"none", "rpcLogin"} :
                  StartActive("rpcLogin", "backup", e, t)
        <3>1. PICK a \in Accounts : \E e \in Granted(a), t \in {"none", "rpcLogin"} :
                  StartActive("rpcLogin", "backup", e, t)
            BY <2>1
        <3>2. PICK e \in Granted(a), t \in {"none", "rpcLogin"} :
                  Start("rpcLogin", "backup", e, t, Default, "color")
            BY <3>1 DEF StartActive
        <3>3. e \in Profile /\ t \in Tokens
            BY Entries DEF Tokens
        <3> QED BY <3>2, <3>3, ProfileAssumption, StartTypes DEF PC, Fields
    <2>2. CASE \E a \in Accounts : \E e \in Provisioned(a) :
                  StartActive("sandbox", "backup", e, "none")
        BY <2>2, ProfileAssumption, Entries, StartTypes DEF StartActive, PC, Tokens, Fields
    <2> QED BY <1>12, <2>1, <2>2 DEF StartSaving
<1>13. CASE Backup
    <2>1. file' \in [Profiles -> Profile]
        BY <1>13, ProfileAssumption, Entries DEF Backup, TypeOK, Profile, CopyOfDefault, IsProfile
    <2>2. pc' \in PC /\ gap' \subseteq Gaps
        BY <1>13 DEF Backup, TypeOK, At, PC, Saving, Gaps
    <2> QED BY <1>13, <2>1, <2>2, MemoryTypes DEF Backup, TypeOK, MayExit, memory
<1>14. CASE SaveRefresh
    BY <1>14, MemoryTypes DEF SaveRefresh, TypeOK, At, PC, Saving, AccountOrNone, Profile, Tokens
<1>15. CASE ListAccounts
    <2>1. p' \in Profile
        BY <1>15, Entries DEF ListAccounts, TypeOK, Exits
    <2>2. pc' \in PC
        BY <1>15 DEF ListAccounts, At, PC, Saving
    <2>3. CASE Exits
        BY <1>15, <2>2, <2>3, MemoryTypes DEF ListAccounts, TypeOK, stored
    <2>4. CASE ~Exits
        BY <1>15, <2>1, <2>2, <2>4 DEF ListAccounts, TypeOK, stored
    <2> QED BY <2>3, <2>4
<1>16. CASE StartContext
    <2>1. oauth.uat \in Tokens
        BY DEF TypeOK
    <2> QED BY <1>16, <2>1, ProfileAssumption, Entries, StartTypes DEF StartContext, StartActive,
        PC, Saving, Fields
<1>17. CASE SaveContext
    BY <1>17, MemoryTypes DEF SaveContext, TypeOK, At, PC, Saving, AccountOrNone, Profile, Tokens
<1>18. CASE StartSwitch
    BY <1>18, Entries, StartTypes DEF StartSwitch, PC, Saving, Tokens, Fields
<1>19. CASE CopyOut
    <2>1. file' \in [Profiles -> Profile]
        BY <1>19, ProfileAssumption, Entries DEF CopyOut, TypeOK, Profile, CopyOfDefault, IsProfile
    <2>2. pc' \in PC /\ gap' \subseteq Gaps
        BY <1>19 DEF CopyOut, TypeOK, At, PC, Saving, Gaps
    <2> QED BY <1>19, <2>1, <2>2, MemoryTypes DEF CopyOut, TypeOK, MayExit, memory
<1>20. CASE CopyIn
    <2>1. file' \in [Profiles -> Profile]
        BY <1>20, ProfileAssumption, Entries DEF CopyIn, TypeOK, Profile
    <2>2. pc' \in PC /\ gap' \subseteq Gaps
        BY <1>20 DEF CopyIn, TypeOK, At, PC, Saving, Gaps
    <2> QED BY <1>20, <2>1, <2>2, MemoryTypes DEF CopyIn, TypeOK, MayExit
<1>21. CASE StartRemove
    BY <1>21, Entries, StartTypes DEF StartRemove, PC, Saving, Tokens, Fields
<1>22. CASE RemoveRing
    <2>1. pc' \in PC /\ ring' \in AccountOrNone
        BY <1>22 DEF RemoveRing, TypeOK, At, PC, Saving, AccountOrNone
    <2> QED BY <1>22, <2>1, MemoryTypes DEF RemoveRing, TypeOK, MayExit
<1>23. CASE RemoveFile
    <2>1. file' \in [Profiles -> Profile]
        BY <1>23, ProfileAssumption, Entries DEF RemoveFile, TypeOK, Profile
    <2>2. pc' \in PC /\ gap' \subseteq Gaps
        BY <1>23 DEF RemoveFile, TypeOK, At, PC, Saving, Gaps
    <2> QED BY <1>23, <2>1, <2>2, MemoryTypes DEF RemoveFile, TypeOK, MayExit
<1>24. CASE StartUnset
    <2>1. CASE \E f \in Settings : Start("unset", "unsetRing", Empty, "none", Default, f)
        BY <2>1, ProfileAssumption, Entries, StartTypes DEF PC, Tokens
    <2>2. CASE Start("expire", "unsetRing", Empty, "none", Default, "test_mode_api_key")
        BY <2>2, ProfileAssumption, Entries, StartTypes DEF PC, Tokens, Fields
    <2> QED BY <1>24, <2>1, <2>2 DEF StartUnset
<1>25. CASE UnsetRing
    BY <1>25, MemoryTypes DEF UnsetRing, TypeOK, At, PC, Saving, AccountOrNone, Profile, Tokens
<1>26. CASE UnsetUAT
    BY <1>26, MemoryTypes DEF UnsetUAT, TypeOK, At, PC, Saving, AccountOrNone, Profile, Tokens
<1>27. CASE UnsetFile
    <2>1. file' \in [Profiles -> Profile]
        <3>1. \A e \in Profile, f \in Fields : Without(e, f) \in Profile
            BY DEF Profile, Without, Fields, AccountOrNone
        <3>2. file[Default] \in Profile /\ field \in Fields
            BY ProfileAssumption DEF TypeOK
        <3> QED BY <1>27, <3>1, <3>2 DEF UnsetFile, TypeOK
    <2>2. pc' \in PC /\ gap' \subseteq Gaps
        BY <1>27 DEF UnsetFile, TypeOK, At, PC, Saving, Gaps, Unnamed
    <2>3. CASE Exits
        BY <1>27, <2>1, <2>2, <2>3, MemoryTypes DEF UnsetFile, TypeOK
    <2>4. CASE ~Exits
        BY <1>27, <2>1, <2>2, <2>4 DEF UnsetFile, TypeOK, NextExpired, Fields
    <2> QED BY <2>3, <2>4
<1>28. CASE Crash
    <2>1. gap' \subseteq Gaps
        BY <1>28 DEF Crash, TypeOK, Gaps, CutShort
    <2> QED BY <1>28, <2>1, MemoryTypes DEF Crash, TypeOK, stored, PC, Saving
<1>29. CASE KilledInWrite
    <2>1. file' \in [Profiles -> Profile]
        BY <1>29, ProfileAssumption, Entries DEF KilledInWrite, TypeOK, Profile
    <2>2. pc' \in PC /\ gap' \subseteq Gaps
        BY <1>29 DEF KilledInWrite, TypeOK, At, PC, Saving, Gaps, CutShort, Unnamed
    <2> QED BY <1>29, <2>1, <2>2, MemoryTypes DEF KilledInWrite, TypeOK, MayExit
<1>30. CASE UNCHANGED vars
    BY <1>30 DEF vars, stored, memory, TypeOK
<1> QED BY StepCases, <1>1, <1>2, <1>3, <1>4, <1>5, <1>6, <1>7, <1>8, <1>9, <1>10, <1>11,
        <1>12, <1>13, <1>14, <1>15, <1>16, <1>17, <1>18, <1>19, <1>20, <1>21, <1>22, <1>23,
        <1>24, <1>25, <1>26, <1>27, <1>28, <1>29, <1>30

(* Whatever commands run and are killed, the file and the keyring hold accounts. *)
THEOREM TypeCorrect == Spec => []TypeOK
BY TypeInit, TypeStep, PTL DEF Spec

-----------------------------------------------------------------------------
(* A profile is the one named for its display name. *)
NamedForTable == \A n \in Names : IsProfile(n) => file[n].name = n

Copied == IsProfile(Default) => file[file[Default].name] = file[Default]

(* What is overwritten next has been copied. *)
CopiedBefore ==
    /\ pc # "idle" /\ cmd \in {"sandbox", "rpcLogin"} =>
         /\ pc \in {"backup", "createRing", "createLive", "createUAT", "createFile"}
         /\ pc # "backup" => Copied
    /\ pc # "idle" /\ cmd = "switch" =>
         /\ pc \in {"copyOut", "copyIn", "removeRing", "removeFile"}
         /\ pc \in {"copyOut", "copyIn"} => IsProfile(Default)
         /\ pc = "copyIn" => Copied
         /\ pc \in {"removeRing", "removeFile"} =>
              target # Default /\ file[Default] = file[target]
    /\ pc \in {"copyOut", "copyIn"} => cmd = "switch"

IInv == TypeOK /\ NamedForTable /\ CopiedBefore

(* Nobody is logged in at first. *)
LEMMA IInvInit == Init => IInv
BY TypeInit DEF Init, IInv, NamedForTable, CopiedBefore, IsProfile, Empty, Entry, Names

(* Every action keeps the tables named, and copies before it overwrites. *)
LEMMA IInvStep == IInv /\ [Next]_vars => IInv'
<1> SUFFICES ASSUME IInv, [Next]_vars PROVE NamedForTable' /\ CopiedBefore'
    BY TypeStep DEF IInv
<1> USE ProfileAssumption DEF IInv, NamedForTable, CopiedBefore, Copied, Logins, TypeOK,
        IsProfile, Active, Profile, AccountOrNone, Entry, Empty, stored, memory, At, Start,
        StartActive, Exits, MayExit, Logouts, Names, Tokens
<1>1. CASE StartClear BY <1>1 DEF StartClear, Pasted
<1>2. CASE ClearRing BY <1>2 DEF ClearRing, Cleared
<1>3. CASE ClearUAT BY <1>3 DEF ClearUAT
<1>4. CASE ClearRefresh BY <1>4 DEF ClearRefresh
<1>5. CASE ClearContext BY <1>5 DEF ClearContext
<1>6. CASE ClearFile BY <1>6 DEF ClearFile, AfterClear, Cleared
<1>7. CASE CreateRing BY <1>7 DEF CreateRing
<1>8. CASE CreateLive BY <1>8 DEF CreateLive
<1>9. CASE CreateUAT BY <1>9 DEF CreateUAT
<1>10. CASE CreateFile BY <1>10 DEF CreateFile, Written
<1>11. CASE PollEnds BY <1>11 DEF PollEnds, Granted
<1>12. CASE StartSaving BY <1>12 DEF StartSaving, Granted, Provisioned
<1>13. CASE Backup BY <1>13 DEF Backup, CopyOfDefault
<1>14. CASE SaveRefresh BY <1>14 DEF SaveRefresh
<1>15. CASE ListAccounts BY <1>15 DEF ListAccounts, Authorized
<1>16. CASE StartContext BY <1>16 DEF StartContext, Authorized
<1>17. CASE SaveContext BY <1>17 DEF SaveContext
<1>18. CASE StartSwitch BY <1>18 DEF StartSwitch
<1>19. CASE CopyOut BY <1>19 DEF CopyOut, CopyOfDefault
<1>20. CASE CopyIn BY <1>20 DEF CopyIn
<1>21. CASE StartRemove BY <1>21 DEF StartRemove
<1>22. CASE RemoveRing BY <1>22 DEF RemoveRing
<1>23. CASE RemoveFile BY <1>23 DEF RemoveFile
<1>24. CASE StartUnset BY <1>24 DEF StartUnset
<1>25. CASE UnsetRing BY <1>25 DEF UnsetRing
<1>26. CASE UnsetUAT BY <1>26 DEF UnsetUAT
<1>27. CASE UnsetFile BY <1>27 DEF UnsetFile, Without, Unnamed, NextExpired
<1>28. CASE Crash BY <1>28 DEF Crash, CutShort, Saving
<1>29. CASE KilledInWrite BY <1>29 DEF KilledInWrite, WritesFile, CutShort, Saving, Unnamed
<1>30. CASE UNCHANGED vars BY <1>30 DEF vars
<1> HIDE DEF IInv, NamedForTable, CopiedBefore, Copied, Logins, TypeOK, IsProfile, Active,
         Profile, AccountOrNone, Entry, Empty, stored, memory, At, Start, StartActive,
         Exits, MayExit, Logouts, Names, Tokens
<1> QED BY StepCases, <1>1, <1>2, <1>3, <1>4, <1>5, <1>6, <1>7, <1>8, <1>9, <1>10, <1>11,
        <1>12, <1>13, <1>14, <1>15, <1>16, <1>17, <1>18, <1>19, <1>20, <1>21, <1>22, <1>23,
        <1>24, <1>25, <1>26, <1>27, <1>28, <1>29, <1>30

(* What a step of a save or a switch loses. *)
Kept == \A k \in Known \ Known' : k.name = file[Default].name /\ k.account # Active

(* No step of a command that saves or switches loses an account, but for one of the
   same display name. *)
LEMMA KeepStep ==
    ASSUME IInv, [Next]_vars, pc # "idle", cmd \in {"switch", "sandbox", "rpcLogin"},
           ~KilledInWrite
    PROVE  Kept
<1> SUFFICES ASSUME NEW k \in Known \ Known'
             PROVE  k.name = file[Default].name /\ k.account # Active
    BY DEF Kept
<1>6. PICK n \in Profiles : /\ IsProfile(n)
                            /\ k = [account |-> file[n].account, name |-> file[n].name]
    BY DEF Known
<1>7. k.name = file[n].name /\ k.account = file[n].account /\ k.name # None
    BY <1>6 DEF IsProfile
<1>8. ASSUME NEW m \in Profiles, file'[m].name = k.name, file'[m].account = k.account
      PROVE  FALSE
    <2>1. k = [account |-> file'[m].account, name |-> file'[m].name]
        BY <1>6, <1>7, <1>8
    <2>2. file'[m].name # None
        BY <1>7, <1>8
    <2> QED BY <2>1, <2>2 DEF Known, IsProfile
<1>9. \A m \in Profiles : file'[m] # file[n]
    BY <1>7, <1>8
<1>1. CASE UNCHANGED file
    BY <1>1, <1>9
<1>2. CASE IsProfile(Default) /\ (Backup \/ CopyOut)
    <2> DEFINE b == file[Default].name
    <2>1. b \in Names
        BY <1>2, ProfileAssumption DEF IInv, TypeOK, Profile, IsProfile
    <2>2. file' = [file EXCEPT ![b] = file[Default]]
        BY <1>2 DEF Backup, CopyOut, CopyOfDefault
    <2>3. file'[b] = file[Default] /\ \A m \in Profiles \ {b} : file'[m] = file[m]
        BY <2>1, <2>2 DEF IInv, TypeOK, Names
    <2>4. n = b
        BY <1>9, <2>3
    <2>5. k.name = b
        BY <1>6, <1>7, <2>1, <2>4 DEF IInv, NamedForTable
    <2>6. b \in Profiles /\ file'[b].name = b /\ file'[b].account = Active
        BY <2>1, <2>3 DEF Names, Active
    <2> HIDE DEF b
    <2>7. k.account # Active
        BY <1>8, <2>5, <2>6
    <2> QED BY <2>5, <2>7 DEF b
<1>3. CASE CreateFile \/ CopyIn
    <2>1. \A m \in Names : file'[m] = file[m]
        BY <1>3 DEF CreateFile, CopyIn, IInv, TypeOK, Names
    <2>2. pc \in {"createFile", "copyIn"}
        BY <1>3 DEF CreateFile, CopyIn, At
    <2>3. Copied
        BY <2>2 DEF IInv, CopiedBefore
    <2>4. n = Default
        BY <1>9, <2>1 DEF Names
    <2>5. file[n].name \in Names /\ file[file[n].name] = file[n]
        BY <1>6, <2>3, <2>4 DEF Copied, IInv, TypeOK, Profile, IsProfile
    <2> QED BY <1>9, <2>1, <2>5 DEF Names
<1>4. CASE RemoveFile
    <2>1. target # Default /\ file[Default] = file[target]
        BY <1>4 DEF RemoveFile, At, IInv, CopiedBefore
    <2>2. \A m \in Profiles \ {target} : file'[m] = file[m]
        BY <1>4 DEF RemoveFile, IInv, TypeOK
    <2> QED BY <1>9, <2>1, <2>2, ProfileAssumption
<1>5. CASE ClearFile \/ UnsetFile
    BY <1>5 DEF ClearFile, UnsetFile, At, IInv, CopiedBefore
<1> QED
    <2>1. \/ UNCHANGED file
          \/ Backup \/ CopyOut \/ CreateFile \/ CopyIn \/ RemoveFile \/ ClearFile \/ UnsetFile
        BY StepCases DEF vars, stored, Start, StartActive, StartClear, ClearRing, ClearUAT,
           ClearRefresh, ClearContext, CreateRing, CreateLive, CreateUAT, PollEnds,
           StartSaving, SaveRefresh, ListAccounts, StartContext, SaveContext, StartSwitch,
           StartRemove, RemoveRing, StartUnset, UnsetRing, UnsetUAT, Crash
    <2>2. Backup \/ CopyOut => IsProfile(Default) \/ UNCHANGED file
        BY DEF Backup, CopyOut, At, IInv, CopiedBefore
    <2> QED BY <1>1, <1>2, <1>3, <1>4, <1>5, <2>1, <2>2

(* The invariant holds of every behaviour. *)
THEOREM Inductive == Spec => []IInv
BY IInvInit, IInvStep, PTL DEF Spec

(* Unless it is killed while the file is truncated, a switch, a sandbox or a login of
   the RPC service loses no account of the config file, but for one whose display
   name the active account has too. *)
THEOREM NoAccountLost == Spec => AccountsAreKept
<1>1. IInv /\ [Next]_vars =>
        [pc # "idle" /\ cmd \in {"switch", "sandbox", "rpcLogin"} /\ ~KilledInWrite =>
           \A k \in Known \ Known' : k.name = file[Default].name /\ k.account # Active]_vars
    BY KeepStep DEF Kept
<1> QED BY <1>1, Inductive, PTL DEF Spec, AccountsAreKept

-----------------------------------------------------------------------------
(* What a logout clears, and what it need not. *)

Clearing == {"clearUAT", "clearRefresh", "clearContext", "clearFile", "poll"}
Creating == {"createRing", "createLive", "createUAT", "createFile"}

(* A live mode key belongs to a profile that RemoveAuthFields can see, except in the
   middle of a login or when that profile has lost its display name. *)
RingInv ==
    /\ pc \in Clearing /\ (IsProfile(Default) \/ gap = {}) => ring = None
    /\ pc \in {"createLive", "saveRefresh", "listAccounts"} => ring = None
    /\ pc \in {"createUAT", "createFile"} => ring = IF p.live THEN p.account ELSE None
    /\ pc = "removeFile" /\ target = Default => ring = None
    /\ pc \notin Creating /\ gap = {} => ring = None \/ IsProfile(Default)

(* Of a profile without display name nothing is in the file, with the same exceptions. *)
UnnamedInv ==
    /\ \A n \in Names : ~IsProfile(n) => file[n] = Empty
    /\ gap = {} /\ ~IsProfile(Default) => file[Default] = Empty

(* The OAuth entries go one after the other. *)
OAuthClearedInv ==
    /\ pc \in Clearing \ {"clearUAT"} => oauth.uat = "none"
    /\ pc \in Clearing \ {"clearUAT", "clearRefresh"} => ~oauth.refresh
    /\ pc \in {"clearFile", "poll"} => oauth.context = None

(* The token a command was given. *)
TokenInv ==
    /\ pc \in Clearing \cup {"clearRing"} => uat = "none"
    /\ pc \in Clearing \cup {"clearRing"} /\ cmd # "paste" => p = Empty
    /\ pc = "poll" => cmd # "paste"
    /\ pc \in {"unsetRing", "unsetUAT", "unsetFile"} => uat = "none"
    /\ pc = "backup" => uat # "oauth"
    /\ pc = "createFile" => oauth.uat = uat
    /\ pc # "idle" /\ cmd = "switch" => oauth.uat = "none"
    /\ pc \in {"copyOut", "copyIn"} => cmd = "switch"

(* The token a profile is saved with comes with a context that is of its account. *)
Fits(token, context, account) ==
    /\ token = "oauth" /\ account # None => context = account
    /\ token = "login" => context \in {None, account}

(* The context is saved before the profile that it is to match, and whoever writes
   another profile ends the OAuth session first. *)
ContextInv ==
    /\ pc = "backup" /\ uat = "login" => oauth.context = None
    /\ pc \in Creating => Fits(uat, oauth.context, p.account)
    /\ pc \in {"saveRefresh", "listAccounts"} => Active = None
    /\ pc \notin Creating \cup {"saveContext"} /\ "cutShort" \notin gap /\ Active # None =>
         Fits(oauth.uat, oauth.context, Active)

(* Every action keeps the live mode key where a logout finds it. *)
LEMMA RingStep ==
    ASSUME IInv, RingInv, UnnamedInv, TokenInv, [Next]_vars
    PROVE  RingInv'
<1> USE ProfileAssumption DEF IInv, RingInv, NamedForTable, CopiedBefore, Clearing,
        Creating, TypeOK, IsProfile, Active, Profile, AccountOrNone, Entry, Empty, stored,
        memory, At, Start, StartActive, Exits, MayExit, Logouts, Names, Tokens
<1>1. CASE StartClear BY <1>1 DEF StartClear, Pasted
<1>2. CASE ClearRing BY <1>2 DEF ClearRing, Cleared
<1>3. CASE ClearUAT BY <1>3 DEF ClearUAT
<1>4. CASE ClearRefresh BY <1>4 DEF ClearRefresh
<1>5. CASE ClearContext BY <1>5 DEF ClearContext
<1>6. CASE ClearFile BY <1>6 DEF ClearFile, AfterClear, Cleared
<1>7. CASE CreateRing BY <1>7 DEF CreateRing
<1>8. CASE CreateLive BY <1>8 DEF CreateLive
<1>9. CASE CreateUAT BY <1>9 DEF CreateUAT
<1>10. CASE CreateFile BY <1>10 DEF CreateFile, Written
<1>11. CASE PollEnds BY <1>11 DEF PollEnds, Granted
<1>12. CASE StartSaving BY <1>12 DEF StartSaving, Granted, Provisioned
<1>13. CASE Backup BY <1>13 DEF Backup, CopyOfDefault
<1>14. CASE SaveRefresh BY <1>14 DEF SaveRefresh
<1>15. CASE ListAccounts BY <1>15 DEF ListAccounts, Authorized
<1>16. CASE StartContext BY <1>16 DEF StartContext, Authorized
<1>17. CASE SaveContext BY <1>17 DEF SaveContext
<1>18. CASE StartSwitch BY <1>18 DEF StartSwitch
<1>19. CASE CopyOut BY <1>19 DEF CopyOut, CopyOfDefault
<1>20. CASE CopyIn BY <1>20 DEF CopyIn
<1>21. CASE StartRemove BY <1>21 DEF StartRemove
<1>22. CASE RemoveRing BY <1>22 DEF RemoveRing
<1>23. CASE RemoveFile BY <1>23 DEF RemoveFile
<1>24. CASE StartUnset BY <1>24 DEF StartUnset
<1>25. CASE UnsetRing BY <1>25 DEF UnsetRing
<1>26. CASE UnsetUAT BY <1>26 DEF UnsetUAT
<1>27. CASE UnsetFile BY <1>27 DEF UnsetFile, Without, Unnamed, NextExpired
<1>28. CASE Crash BY <1>28 DEF Crash, CutShort, Saving
<1>29. CASE KilledInWrite BY <1>29 DEF KilledInWrite, WritesFile, CutShort, Saving, Unnamed
<1>30. CASE UNCHANGED vars BY <1>30 DEF vars
<1> HIDE DEF IInv, RingInv, NamedForTable, CopiedBefore, Clearing, Creating, TypeOK,
         IsProfile, Active, Profile, AccountOrNone, Entry, Empty, stored, memory, At, Start,
         StartActive, Exits, MayExit, Logouts, Names, Tokens
<1> QED BY StepCases, <1>1, <1>2, <1>3, <1>4, <1>5, <1>6, <1>7, <1>8, <1>9, <1>10, <1>11,
        <1>12, <1>13, <1>14, <1>15, <1>16, <1>17, <1>18, <1>19, <1>20, <1>21, <1>22, <1>23,
        <1>24, <1>25, <1>26, <1>27, <1>28, <1>29, <1>30

(* Every action keeps profiles without display name empty. *)
LEMMA UnnamedStep ==
    ASSUME IInv, UnnamedInv, [Next]_vars
    PROVE  UnnamedInv'
<1> USE ProfileAssumption DEF IInv, UnnamedInv, CopiedBefore, TypeOK, IsProfile, Active,
        Profile, AccountOrNone, Entry, Empty, stored, memory, At, Start, StartActive, Exits,
        MayExit, Logouts, Names, Tokens
<1>1. CASE StartClear
    BY <1>1, StartsKeep
<1>2. CASE ClearRing BY <1>2 DEF ClearRing, Cleared
<1>3. CASE ClearUAT BY <1>3 DEF ClearUAT
<1>4. CASE ClearRefresh BY <1>4 DEF ClearRefresh
<1>5. CASE ClearContext BY <1>5 DEF ClearContext
<1>6. CASE ClearFile BY <1>6 DEF ClearFile, AfterClear, Cleared
<1>7. CASE CreateRing BY <1>7 DEF CreateRing
<1>8. CASE CreateLive BY <1>8 DEF CreateLive
<1>9. CASE CreateUAT BY <1>9 DEF CreateUAT
<1>10. CASE CreateFile BY <1>10 DEF CreateFile, Written
<1>11. CASE PollEnds BY <1>11 DEF PollEnds, Granted
<1>12. CASE StartSaving
    BY <1>12, StartsKeep
<1>13. CASE Backup
    <2>1. CASE IsProfile(Default)
        <3> DEFINE b == file[Default].name
        <3>1. b \in Names /\ b # None
            BY <2>1, ProfileAssumption
        <3>2. file' = [file EXCEPT ![b] = file[Default]] /\ UNCHANGED gap
            BY <1>13, <2>1 DEF Backup, CopyOfDefault
        <3>3. file'[b] = file[Default] /\ \A m \in Profiles \ {b} : file'[m] = file[m]
            BY <3>1, <3>2
        <3> QED BY <2>1, <3>1, <3>2, <3>3
    <2>2. CASE ~IsProfile(Default)
        BY <1>13, <2>2 DEF Backup
    <2> QED BY <2>1, <2>2
<1>14. CASE SaveRefresh BY <1>14 DEF SaveRefresh
<1>15. CASE ListAccounts BY <1>15 DEF ListAccounts, Authorized
<1>16. CASE StartContext
    BY <1>16, StartsKeep
<1>17. CASE SaveContext BY <1>17 DEF SaveContext
<1>18. CASE StartSwitch
    BY <1>18, StartsKeep
<1>19. CASE CopyOut
    <2>1. CASE IsProfile(Default)
        <3> DEFINE b == file[Default].name
        <3>1. b \in Names /\ b # None
            BY <2>1, ProfileAssumption
        <3>2. file' = [file EXCEPT ![b] = file[Default]] /\ UNCHANGED gap
            BY <1>19, <2>1 DEF CopyOut, CopyOfDefault
        <3>3. file'[b] = file[Default] /\ \A m \in Profiles \ {b} : file'[m] = file[m]
            BY <3>1, <3>2
        <3> QED BY <2>1, <3>1, <3>2, <3>3
    <2>2. CASE ~IsProfile(Default)
        BY <1>19, <2>2 DEF CopyOut
    <2> QED BY <2>1, <2>2
<1>20. CASE CopyIn
    <2>1. \A n \in Names : file'[n] = file[n]
        BY <1>20 DEF CopyIn
    <2>2. file'[Default] = file[Default] \/ (IsProfile(target) /\ file'[Default] = file[target])
        BY <1>20 DEF CopyIn
    <2>3. UNCHANGED gap
        BY <1>20 DEF CopyIn
    <2>4. IsProfile(Default)' \/ file'[Default] = file[Default]
        BY <2>2
    <2>5. \A n \in Names : ~IsProfile(n)' => file'[n] = Empty
        BY <2>1
    <2>6. gap' = {} /\ ~IsProfile(Default)' => file'[Default] = Empty
        BY <2>3, <2>4
    <2> QED BY <2>5, <2>6
<1>21. CASE StartRemove
    BY <1>21, StartsKeep
<1>22. CASE RemoveRing BY <1>22 DEF RemoveRing
<1>23. CASE RemoveFile BY <1>23 DEF RemoveFile
<1>24. CASE StartUnset
    BY <1>24, StartsKeep
<1>25. CASE UnsetRing BY <1>25 DEF UnsetRing
<1>26. CASE UnsetUAT BY <1>26 DEF UnsetUAT
<1>27. CASE UnsetFile
    <2>1. \A n \in Names : file'[n] = file[n]
        BY <1>27 DEF UnsetFile
    <2>2. file'[Default] = Without(file[Default], field)
        BY <1>27 DEF UnsetFile
    <2>3. Without(Empty, field) = Empty
        BY DEF Without
    <2>4. gap' = IF field = "display_name" THEN gap \cup Unnamed ELSE gap
        BY <1>27 DEF UnsetFile
    <2>5. ASSUME gap' = {}, IsProfile(Default) PROVE file'[Default].name # None
        <3>1. field # "display_name"
            BY <2>4, <2>5 DEF Unnamed
        <3> QED BY <2>2, <2>5, <3>1 DEF Without
    <2>6. gap' = {} => gap = {}
        BY <2>4
    <2> QED BY <2>1, <2>2, <2>3, <2>5, <2>6
<1>28. CASE Crash BY <1>28 DEF Crash, CutShort, Saving
<1>29. CASE KilledInWrite BY <1>29 DEF KilledInWrite, WritesFile, CutShort, Saving, Unnamed
<1>30. CASE UNCHANGED vars BY <1>30 DEF vars
<1> HIDE DEF IInv, UnnamedInv, CopiedBefore, TypeOK, IsProfile, Active, Profile,
         AccountOrNone, Entry, Empty, stored, memory, At, Start, StartActive, Exits,
         MayExit, Logouts, Names, Tokens
<1> QED BY StepCases, <1>1, <1>2, <1>3, <1>4, <1>5, <1>6, <1>7, <1>8, <1>9, <1>10, <1>11,
        <1>12, <1>13, <1>14, <1>15, <1>16, <1>17, <1>18, <1>19, <1>20, <1>21, <1>22, <1>23,
        <1>24, <1>25, <1>26, <1>27, <1>28, <1>29, <1>30

(* No other action runs while the OAuth entries are cleared. *)
LEMMA OAuthClearedStep ==
    ASSUME IInv, OAuthClearedInv, [Next]_vars
    PROVE  OAuthClearedInv'
<1> USE ProfileAssumption DEF IInv, OAuthClearedInv, Clearing, TypeOK, IsProfile, Active,
        Profile, AccountOrNone, Entry, Empty, stored, memory, At, Start, StartActive, Exits,
        MayExit, Logouts, Names, Tokens
<1>1. CASE StartClear BY <1>1 DEF StartClear, Pasted
<1>2. CASE ClearRing BY <1>2 DEF ClearRing, Cleared
<1>3. CASE ClearUAT BY <1>3 DEF ClearUAT
<1>4. CASE ClearRefresh BY <1>4 DEF ClearRefresh
<1>5. CASE ClearContext BY <1>5 DEF ClearContext
<1>6. CASE ClearFile BY <1>6 DEF ClearFile, AfterClear, Cleared
<1>7. CASE CreateRing BY <1>7 DEF CreateRing
<1>8. CASE CreateLive BY <1>8 DEF CreateLive
<1>9. CASE CreateUAT BY <1>9 DEF CreateUAT
<1>10. CASE CreateFile BY <1>10 DEF CreateFile, Written
<1>11. CASE PollEnds BY <1>11 DEF PollEnds, Granted
<1>12. CASE StartSaving BY <1>12 DEF StartSaving, Granted, Provisioned
<1>13. CASE Backup BY <1>13 DEF Backup, CopyOfDefault
<1>14. CASE SaveRefresh BY <1>14 DEF SaveRefresh
<1>15. CASE ListAccounts BY <1>15 DEF ListAccounts, Authorized
<1>16. CASE StartContext BY <1>16 DEF StartContext, Authorized
<1>17. CASE SaveContext BY <1>17 DEF SaveContext
<1>18. CASE StartSwitch BY <1>18 DEF StartSwitch
<1>19. CASE CopyOut BY <1>19 DEF CopyOut, CopyOfDefault
<1>20. CASE CopyIn BY <1>20 DEF CopyIn
<1>21. CASE StartRemove BY <1>21 DEF StartRemove
<1>22. CASE RemoveRing BY <1>22 DEF RemoveRing
<1>23. CASE RemoveFile BY <1>23 DEF RemoveFile
<1>24. CASE StartUnset BY <1>24 DEF StartUnset
<1>25. CASE UnsetRing BY <1>25 DEF UnsetRing
<1>26. CASE UnsetUAT BY <1>26 DEF UnsetUAT
<1>27. CASE UnsetFile BY <1>27 DEF UnsetFile, Without, Unnamed, NextExpired
<1>28. CASE Crash BY <1>28 DEF Crash, CutShort, Saving
<1>29. CASE KilledInWrite BY <1>29 DEF KilledInWrite, WritesFile, CutShort, Saving, Unnamed
<1>30. CASE UNCHANGED vars BY <1>30 DEF vars
<1> HIDE DEF IInv, OAuthClearedInv, Clearing, TypeOK, IsProfile, Active, Profile,
         AccountOrNone, Entry, Empty, stored, memory, At, Start, StartActive, Exits,
         MayExit, Logouts, Names, Tokens
<1> QED BY StepCases, <1>1, <1>2, <1>3, <1>4, <1>5, <1>6, <1>7, <1>8, <1>9, <1>10, <1>11,
        <1>12, <1>13, <1>14, <1>15, <1>16, <1>17, <1>18, <1>19, <1>20, <1>21, <1>22, <1>23,
        <1>24, <1>25, <1>26, <1>27, <1>28, <1>29, <1>30

(* Every action keeps to the token it was given. *)
LEMMA TokenStep ==
    ASSUME IInv, TokenInv, [Next]_vars
    PROVE  TokenInv'
<1> USE ProfileAssumption DEF IInv, TokenInv, Clearing, TypeOK, IsProfile, Active, Profile,
        AccountOrNone, Entry, Empty, stored, memory, At, Start, StartActive, Exits, MayExit,
        Logouts, Names, Tokens
<1>1. CASE StartClear BY <1>1 DEF StartClear, Pasted
<1>2. CASE ClearRing BY <1>2 DEF ClearRing, Cleared
<1>3. CASE ClearUAT BY <1>3 DEF ClearUAT
<1>4. CASE ClearRefresh BY <1>4 DEF ClearRefresh
<1>5. CASE ClearContext BY <1>5 DEF ClearContext
<1>6. CASE ClearFile BY <1>6 DEF ClearFile, AfterClear, Cleared
<1>7. CASE CreateRing BY <1>7 DEF CreateRing
<1>8. CASE CreateLive BY <1>8 DEF CreateLive
<1>9. CASE CreateUAT
    <2>1. oauth'.uat = uat
        BY <1>9 DEF CreateUAT
    <2>2. /\ pc = "createUAT" /\ pc' = "createFile"
          /\ UNCHANGED <<cmd, p, uat>>
        BY <1>9 DEF CreateUAT
    <2>3. cmd # "switch"
        BY <2>2 DEF CopiedBefore
    <2> QED BY <2>1, <2>2, <2>3
<1>10. CASE CreateFile BY <1>10 DEF CreateFile, Written
<1>11. CASE PollEnds BY <1>11 DEF PollEnds, Granted
<1>12. CASE StartSaving BY <1>12 DEF StartSaving, Granted, Provisioned
<1>13. CASE Backup BY <1>13 DEF Backup, CopyOfDefault
<1>14. CASE SaveRefresh BY <1>14 DEF SaveRefresh
<1>15. CASE ListAccounts BY <1>15 DEF ListAccounts, Authorized
<1>16. CASE StartContext BY <1>16 DEF StartContext, Authorized
<1>17. CASE SaveContext BY <1>17 DEF SaveContext
<1>18. CASE StartSwitch BY <1>18 DEF StartSwitch
<1>19. CASE CopyOut BY <1>19 DEF CopyOut, CopyOfDefault
<1>20. CASE CopyIn BY <1>20 DEF CopyIn
<1>21. CASE StartRemove BY <1>21 DEF StartRemove
<1>22. CASE RemoveRing BY <1>22 DEF RemoveRing
<1>23. CASE RemoveFile BY <1>23 DEF RemoveFile
<1>24. CASE StartUnset BY <1>24 DEF StartUnset
<1>25. CASE UnsetRing BY <1>25 DEF UnsetRing
<1>26. CASE UnsetUAT BY <1>26 DEF UnsetUAT
<1>27. CASE UnsetFile BY <1>27 DEF UnsetFile, Without, Unnamed, NextExpired
<1>28. CASE Crash BY <1>28 DEF Crash, CutShort, Saving
<1>29. CASE KilledInWrite BY <1>29 DEF KilledInWrite, WritesFile, CutShort, Saving, Unnamed
<1>30. CASE UNCHANGED vars BY <1>30 DEF vars
<1> HIDE DEF IInv, TokenInv, Clearing, TypeOK, IsProfile, Active, Profile, AccountOrNone,
         Entry, Empty, stored, memory, At, Start, StartActive, Exits, MayExit, Logouts,
         Names, Tokens
<1> QED BY StepCases, <1>1, <1>2, <1>3, <1>4, <1>5, <1>6, <1>7, <1>8, <1>9, <1>10, <1>11,
        <1>12, <1>13, <1>14, <1>15, <1>16, <1>17, <1>18, <1>19, <1>20, <1>21, <1>22, <1>23,
        <1>24, <1>25, <1>26, <1>27, <1>28, <1>29, <1>30

(* Every action keeps context and profile together. *)
LEMMA ContextStep ==
    ASSUME IInv, OAuthClearedInv, TokenInv, ContextInv, [Next]_vars
    PROVE  ContextInv'
<1> USE ProfileAssumption DEF IInv, ContextInv, OAuthClearedInv, TokenInv, Fits, Clearing,
        Creating, TypeOK, IsProfile, Active, Profile, AccountOrNone, Entry, Empty, stored,
        memory, At, Start, StartActive, Exits, MayExit, Logouts, Names, Tokens
<1>1. CASE StartClear BY <1>1 DEF StartClear, Pasted
<1>2. CASE ClearRing BY <1>2 DEF ClearRing, Cleared
<1>3. CASE ClearUAT BY <1>3 DEF ClearUAT
<1>4. CASE ClearRefresh BY <1>4 DEF ClearRefresh
<1>5. CASE ClearContext BY <1>5 DEF ClearContext
<1>6. CASE ClearFile BY <1>6 DEF ClearFile, AfterClear, Cleared
<1>7. CASE CreateRing BY <1>7 DEF CreateRing
<1>8. CASE CreateLive BY <1>8 DEF CreateLive
<1>9. CASE CreateUAT BY <1>9 DEF CreateUAT
<1>10. CASE CreateFile BY <1>10 DEF CreateFile, Written
<1>11. CASE PollEnds BY <1>11 DEF PollEnds, Granted
<1>12. CASE StartSaving BY <1>12 DEF StartSaving, Granted, Provisioned
<1>13. CASE Backup BY <1>13 DEF Backup, CopyOfDefault
<1>14. CASE SaveRefresh BY <1>14 DEF SaveRefresh
<1>15. CASE ListAccounts BY <1>15 DEF ListAccounts, Authorized
<1>16. CASE StartContext BY <1>16 DEF StartContext, Authorized
<1>17. CASE SaveContext BY <1>17 DEF SaveContext
<1>18. CASE StartSwitch BY <1>18 DEF StartSwitch
<1>19. CASE CopyOut BY <1>19 DEF CopyOut, CopyOfDefault
<1>20. CASE CopyIn BY <1>20 DEF CopyIn
<1>21. CASE StartRemove BY <1>21 DEF StartRemove
<1>22. CASE RemoveRing BY <1>22 DEF RemoveRing
<1>23. CASE RemoveFile BY <1>23 DEF RemoveFile
<1>24. CASE StartUnset BY <1>24 DEF StartUnset
<1>25. CASE UnsetRing BY <1>25 DEF UnsetRing
<1>26. CASE UnsetUAT BY <1>26 DEF UnsetUAT
<1>27. CASE UnsetFile BY <1>27 DEF UnsetFile, Without, Unnamed, NextExpired
<1>28. CASE Crash BY <1>28 DEF Crash, CutShort, Saving
<1>29. CASE KilledInWrite BY <1>29 DEF KilledInWrite, WritesFile, CutShort, Saving, Unnamed
<1>30. CASE UNCHANGED vars BY <1>30 DEF vars
<1> HIDE DEF IInv, ContextInv, OAuthClearedInv, TokenInv, Fits, Clearing, Creating, TypeOK,
         IsProfile, Active, Profile, AccountOrNone, Entry, Empty, stored, memory, At, Start,
         StartActive, Exits, MayExit, Logouts, Names, Tokens
<1> QED BY StepCases, <1>1, <1>2, <1>3, <1>4, <1>5, <1>6, <1>7, <1>8, <1>9, <1>10, <1>11,
        <1>12, <1>13, <1>14, <1>15, <1>16, <1>17, <1>18, <1>19, <1>20, <1>21, <1>22, <1>23,
        <1>24, <1>25, <1>26, <1>27, <1>28, <1>29, <1>30

CredentialsInv ==
    /\ IInv
    /\ RingInv
    /\ UnnamedInv
    /\ OAuthClearedInv
    /\ TokenInv
    /\ ContextInv

(* The invariant holds of every behaviour. *)
THEOREM CredentialsInductive == Spec => []CredentialsInv
<1>1. Init => CredentialsInv
    <2> SUFFICES ASSUME Init
                 PROVE  RingInv /\ UnnamedInv /\ OAuthClearedInv /\ TokenInv /\ ContextInv
        BY IInvInit DEF CredentialsInv
    <2> USE ProfileAssumption DEF Init, Clearing, Creating
    <2>1. RingInv
        BY DEF RingInv
    <2>2. UnnamedInv
        BY DEF UnnamedInv, Names
    <2>3. OAuthClearedInv
        BY DEF OAuthClearedInv
    <2>4. TokenInv
        BY DEF TokenInv
    <2>5. ContextInv
        BY DEF ContextInv, Active, Empty, Entry
    <2> QED BY <2>1, <2>2, <2>3, <2>4, <2>5
<1>2. CredentialsInv /\ [Next]_vars => CredentialsInv'
    BY IInvStep, RingStep, UnnamedStep, OAuthClearedStep, TokenStep, ContextStep
       DEF CredentialsInv
<1> QED BY <1>1, <1>2, PTL DEF Spec

(* Between commands an access token of an OAuth or a browser login is sent with the
   context of the active account or, in the latter case, with none, unless a login was
   cut short since one completed. *)
THEOREM ContextFollowsProfile == Spec => []ContextIsActive
<1>1. CredentialsInv => ContextIsActive
    BY DEF CredentialsInv, ContextInv, ContextIsActive, Fits, Creating
<1> QED BY <1>1, CredentialsInductive, PTL

(* A logout leaves no credential of the active profile, and "logout --all" none of any,
   whenever that profile has a display name, and also when it has none, unless a login
   was cut short or brought none, or the name was unset or lost with the file. *)
THEOREM LogoutIsComplete == Spec => LogoutLeavesNothing
<1> DEFINE Left ==
      /\ ring' = None
      /\ oauth' = NoOAuth
      /\ \A n \in Profiles : n = Default \/ cmd = "logoutAll" => file'[n] = Empty
<1>1. CredentialsInv /\ [Next]_vars =>
        [ClearFile /\ cmd \in Logouts /\ (IsProfile(Default) \/ gap = {}) => Left]_vars
    <2> SUFFICES ASSUME CredentialsInv, ClearFile, cmd \in Logouts,
                        IsProfile(Default) \/ gap = {}
                 PROVE  Left
        OBVIOUS
    <2>1. pc = "clearFile" /\ UNCHANGED <<ring, oauth>>
        BY DEF ClearFile, At
    <2>2. ring = None
        BY <2>1 DEF CredentialsInv, RingInv, Clearing
    <2>3. oauth = NoOAuth
        BY <2>1 DEF CredentialsInv, OAuthClearedInv, Clearing, IInv, TypeOK, NoOAuth
    <2>4. ASSUME NEW n \in Profiles, n = Default \/ cmd = "logoutAll"
          PROVE  file'[n] = Empty
        <3>1. file'[n] = IF n \in Cleared THEN Empty ELSE file[n]
            BY DEF ClearFile
        <3>2. n \notin Cleared => file[n] = Empty
            BY <2>4 DEF CredentialsInv, UnnamedInv, Cleared, Names
        <3> QED BY <3>1, <3>2
    <2> QED BY <2>1, <2>2, <2>3, <2>4
<1> QED BY <1>1, CredentialsInductive, PTL DEF Spec, LogoutLeavesNothing

-----------------------------------------------------------------------------
(* Whose live mode key it is.  Every command but the switch of profiles writes, or
   removes, the key in the keyring with the profile it belongs to; a switch copies
   the profiles of the file and leaves the keyring alone. *)
KeyInv ==
    /\ pc \notin {"copyOut", "copyIn"}
    /\ pc \notin Creating /\ gap = {} /\ Active # None => ring \in {None, Active}

(* Every other action keeps the key with its account. *)
LEMMA KeyStep ==
    ASSUME "switch" \notin Commands, IInv, RingInv, KeyInv, [Next]_vars
    PROVE  KeyInv'
<1> USE ProfileAssumption DEF IInv, RingInv, KeyInv, Clearing, Creating, TypeOK, IsProfile,
        Active, Profile, AccountOrNone, Entry, Empty, stored, memory, At, Start,
        StartActive, Exits, MayExit, Logouts, Names, Tokens
<1>1. CASE StartClear BY <1>1 DEF StartClear, Pasted
<1>2. CASE ClearRing BY <1>2 DEF ClearRing, Cleared
<1>3. CASE ClearUAT BY <1>3 DEF ClearUAT
<1>4. CASE ClearRefresh BY <1>4 DEF ClearRefresh
<1>5. CASE ClearContext BY <1>5 DEF ClearContext
<1>6. CASE ClearFile BY <1>6 DEF ClearFile, AfterClear, Cleared
<1>7. CASE CreateRing BY <1>7 DEF CreateRing
<1>8. CASE CreateLive BY <1>8 DEF CreateLive
<1>9. CASE CreateUAT BY <1>9 DEF CreateUAT
<1>10. CASE CreateFile BY <1>10 DEF CreateFile, Written
<1>11. CASE PollEnds BY <1>11 DEF PollEnds, Granted
<1>12. CASE StartSaving BY <1>12 DEF StartSaving, Granted, Provisioned
<1>13. CASE Backup BY <1>13 DEF Backup, CopyOfDefault
<1>14. CASE SaveRefresh BY <1>14 DEF SaveRefresh
<1>15. CASE ListAccounts BY <1>15 DEF ListAccounts, Authorized
<1>16. CASE StartContext BY <1>16 DEF StartContext, Authorized
<1>17. CASE SaveContext BY <1>17 DEF SaveContext
<1>18. CASE StartSwitch BY <1>18 DEF StartSwitch
<1>19. CASE CopyOut BY <1>19 DEF CopyOut, CopyOfDefault
<1>20. CASE CopyIn BY <1>20 DEF CopyIn
<1>21. CASE StartRemove BY <1>21 DEF StartRemove
<1>22. CASE RemoveRing BY <1>22 DEF RemoveRing
<1>23. CASE RemoveFile BY <1>23 DEF RemoveFile
<1>24. CASE StartUnset BY <1>24 DEF StartUnset
<1>25. CASE UnsetRing BY <1>25 DEF UnsetRing
<1>26. CASE UnsetUAT BY <1>26 DEF UnsetUAT
<1>27. CASE UnsetFile BY <1>27 DEF UnsetFile, Without, Unnamed, NextExpired
<1>28. CASE Crash BY <1>28 DEF Crash, CutShort, Saving
<1>29. CASE KilledInWrite BY <1>29 DEF KilledInWrite, WritesFile, CutShort, Saving, Unnamed
<1>30. CASE UNCHANGED vars BY <1>30 DEF vars
<1> HIDE DEF IInv, RingInv, KeyInv, Clearing, Creating, TypeOK, IsProfile, Active, Profile,
         AccountOrNone, Entry, Empty, stored, memory, At, Start, StartActive, Exits,
         MayExit, Logouts, Names, Tokens
<1> QED BY StepCases, <1>1, <1>2, <1>3, <1>4, <1>5, <1>6, <1>7, <1>8, <1>9, <1>10, <1>11,
        <1>12, <1>13, <1>14, <1>15, <1>16, <1>17, <1>18, <1>19, <1>20, <1>21, <1>22, <1>23,
        <1>24, <1>25, <1>26, <1>27, <1>28, <1>29, <1>30

(* Users who never switch profiles make their live mode requests with the key of the
   active account, whatever else they run and wherever it is killed before the last
   login that completed.  (LiveKeyIsActive is refuted in ConfigSwitch.cfg, with one
   login and a switch: the hypothesis names the one command to blame.) *)
THEOREM LiveKeyFollowsLogins ==
    ASSUME "switch" \notin Commands
    PROVE  Spec => []LiveKeyIsActive
<1>1. Init => KeyInv
    BY DEF Init, KeyInv, Active, Empty, Entry
<1>2. CredentialsInv /\ KeyInv /\ [Next]_vars => KeyInv'
    BY KeyStep DEF CredentialsInv
<1>3. KeyInv => LiveKeyIsActive
    BY DEF KeyInv, LiveKeyIsActive, Creating
<1> QED BY <1>1, <1>2, <1>3, CredentialsInductive, PTL DEF Spec
=============================================================================
