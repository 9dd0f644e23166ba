\* A command killed while it writes the config file.
CONSTANTS
    default = default
    a1 = a1
    a2 = a2
    n1 = n1
    n2 = n2
    None = None
    Accounts <- TwoAccounts
    Profiles <- Tables
    Default = default
    NamesOf <- SharedNames
    Commands <- LoginAndSwitch
    Settings <- SomeSettings
SPECIFICATION Spec
PROPERTIES
    FileSurvivesKills
