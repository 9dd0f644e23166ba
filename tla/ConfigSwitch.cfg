\* Two logins and a switch.
CONSTANTS
    default = default
    a1 = a1
    a2 = a2
    n1 = n1
    n2 = n2
    None = None
    Accounts <- TwoAccounts
    Profiles <- Tables
    Default = default
    NamesOf <- SharedNames
    Commands <- LoginAndSwitch
    Settings <- SomeSettings
SPECIFICATION Spec
INVARIANTS
    LiveKeyIsActive
