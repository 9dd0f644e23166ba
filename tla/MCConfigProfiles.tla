-------------------------- MODULE MCConfigProfiles --------------------------
(* Instances of ConfigProfiles for TLC. *)
EXTENDS ConfigProfiles, TLC

CONSTANTS default, a1, a2, n1, n2

TwoAccounts == {a1, a2}
Tables == {default, n1, n2}

(* Two accounts of one name, one of which goes by another name too. *)
SharedNames == a1 :> {n1} @@ a2 :> {n1, n2}

AllCommands == Logins \cup Logouts \cup {"switch", "remove", "unset", "expire"}
SomeSettings == {"display_name", "live_mode_api_key", "test_mode_api_key"}
RAKLogin == {"login"}
LoginAndSwitch == {"rpcLogin", "switch"}
TwoLogins == {"oauth", "rpcLogin"}
=============================================================================
