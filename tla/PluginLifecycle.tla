--------------------------- MODULE PluginLifecycle ---------------------------
(***************************************************************************)
(* One plugin: a directory for each version, a metadata file and its name  *)
(* in installed_plugins of the config file, which install, upgrade,        *)
(* uninstall, the backfill at every start and the command of the plugin    *)
(* keep together without a transaction.  Writes fail, a file that was      *)
(* being written is left half written, and a command is killed anywhere.   *)
(*                                                                         *)
(* One command at a time, and a config file that was written can be read   *)
(* back.  A version is a number: the place of its name in the order of the *)
(* directory, which is not the order of releases.                          *)
(***************************************************************************)
EXTENDS Naturals

CONSTANTS
    Versions,
    Cached,     \* releases of the plugin in plugins.toml, {} when it has none
    None,       \* no metadata file
    Garbled,    \* a metadata file that does not parse
    Faults,     \* whether writes, removals and downloads fail
    MaxCommands \* bound: commands run

Readable == (SUBSET Versions) \ {{}}
Metadata == Readable \cup {None, Garbled}

ASSUME PluginAssumption ==
    /\ Versions \subseteq Nat \ {0}
    /\ Cached \subseteq Versions
    /\ None \notin Readable /\ Garbled \notin Readable /\ None # Garbled
    /\ Faults \in BOOLEAN
    /\ MaxCommands \in Nat

VARIABLES
    binary,   \* of each version: no directory, none in it, half written, complete
    meta,     \* releases named by the metadata file
    list,     \* whether the config file lists the plugin
    mem,      \* whether the command, which read the file when it started, has it listed
    pc,
    kind,     \* the command under way or the last one
    version,  \* what it installs
    releases, \* the metadata that comes with it
    why,      \* what the installed state is saved for
    saved,    \* snapshotInstalledPluginState
    outcome,  \* of the last command
    commands, \* commands run
    had,      \* history: a complete binary was there when the command started
    half,     \* history: the versions that were half written when it started
    was,      \* history: metadata and list before the command changed them
    botched   \* history: a write that was to undo another failed

disk == <<binary, meta, list>>
plan == <<kind, version, releases, why>>
history == <<had, half, was, botched>>
vars == <<disk, mem, pc, plan, saved, outcome, commands, history>>

Dirs == {v \in Versions : binary[v] # "absent"}
Complete == {v \in Versions : binary[v] = "complete"}
IsFirst(v, S) == v \in S /\ \A w \in S : v <= w

Snapshot == [meta : Metadata, list : BOOLEAN]

TypeOK ==
    /\ binary \in [Versions -> {"absent", "empty", "partial", "complete"}]
    /\ meta \in Metadata
    /\ list \in BOOLEAN /\ mem \in BOOLEAN
    /\ pc \in {"idle", "backfill", "body", "mkdir", "open", "fill", "save", "describe",
               "record", "undo", "undolist", "discard", "cleanup", "execute",
               "undescribe", "unlist", "delete"}
    /\ kind \in {"install", "uninstall", "run"}
    /\ version \in Versions \cup {0}
    /\ releases \in SUBSET Versions
    /\ why \in {"backfill", "already", "new", "uninstall"}
    /\ saved \in Snapshot /\ was \in Snapshot
    /\ outcome \in {"ok", "failed", "killed"}
    /\ commands \in Nat
    /\ had \in BOOLEAN /\ botched \in BOOLEAN
    /\ half \in SUBSET Versions
    /\ pc \in {"mkdir", "open", "fill", "discard", "cleanup"} => version \in releases

Init ==
    /\ binary = [v \in Versions |-> "absent"]
    /\ meta = None
    /\ list = FALSE /\ mem = FALSE
    /\ pc = "idle"
    /\ kind = "uninstall"
    /\ version = 0
    /\ releases = {}
    /\ why = "uninstall"
    /\ saved = [meta |-> None, list |-> FALSE]
    /\ outcome = "ok"
    /\ commands = 0
    /\ had = FALSE
    /\ half = {}
    /\ was = [meta |-> None, list |-> FALSE]
    /\ botched = FALSE

Finish(result) == pc' = "idle" /\ outcome' = result
Goto(l) == pc' = l /\ UNCHANGED outcome

-----------------------------------------------------------------------------
(* A command starts: it reads the config file, and fills in the metadata of a
   listed plugin that has none. *)
Start(k) ==
    /\ pc = "idle"
    /\ commands < MaxCommands
    /\ commands' = commands + 1
    /\ kind' = k
    /\ mem' = list
    /\ had' = (Complete # {})
    /\ half' = {v \in Versions : binary[v] = "partial"}
    /\ botched' = FALSE
    /\ Goto("backfill")
    /\ UNCHANGED <<disk, version, releases, why, saved, was>>

EnterBody ==
    /\ Goto("body")
    /\ was' = [meta |-> meta', list |-> list']

(* The metadata comes from plugins.toml if it has the installed version,
   otherwise from the network; without an answer the command goes on. *)
Backfill ==
    /\ pc = "backfill"
    /\ UNCHANGED <<disk, mem, kind, version, saved, commands, had, half, botched>>
    /\ \/ /\ mem /\ meta = None
          /\ \E v \in Dirs, R \in Readable :
                /\ IsFirst(v, Dirs)
                /\ IF v \in Cached THEN R = Cached ELSE v \in R
                /\ releases' = R
          /\ why' = "backfill"
          /\ Goto("save")
          /\ UNCHANGED was
       \/ /\ ~(mem /\ meta = None /\ Dirs # {} /\ \E v \in Cached : IsFirst(v, Dirs))
          /\ EnterBody
          /\ UNCHANGED <<releases, why>>

-----------------------------------------------------------------------------
(* install and upgrade: what the endpoint, or the cached metadata, resolves;
   a version that is on disk already is only recorded. *)
Resolve ==
    /\ pc = "body" /\ kind = "install"
    /\ \/ \E v \in Versions, R \in Readable :
             /\ v \in R
             /\ version' = v /\ releases' = R
             /\ IF binary[v] \in {"partial", "complete"}
                THEN why' = "already" /\ Goto("save")
                ELSE why' = "new" /\ Goto("mkdir")
       \/ Faults /\ Finish("failed") /\ UNCHANGED <<version, releases, why>>
    /\ UNCHANGED <<disk, mem, kind, saved, commands, history>>

(* The command of the plugin, registered when the plugin is listed or has a
   metadata file: without any version on disk it installs the latest one first. *)
FindInstalled ==
    /\ pc = "body" /\ kind = "run"
    /\ LET known == IF meta \in Readable THEN meta
                    ELSE IF mem \/ meta = Garbled THEN Cached ELSE {}
       IN
       \/ /\ known = {}
          /\ Finish("failed")
          /\ UNCHANGED <<version, releases, why>>
       \/ \E v \in Dirs :
             /\ known # {} /\ IsFirst(v, Dirs)
             /\ version' = v /\ releases' = known
             /\ Goto("execute")
             /\ UNCHANGED why
       \/ /\ known # {} /\ Dirs = {}
          /\ \E v \in Versions, R \in Readable :
                /\ v \in R
                /\ version' = v /\ releases' = R
                /\ why' = "new"
                /\ Goto("mkdir")
       \/ /\ known # {} /\ Dirs = {} /\ Faults
          /\ Finish("failed")
          /\ UNCHANGED <<version, releases, why>>
    /\ UNCHANGED <<disk, mem, kind, saved, commands, history>>

(* A plugin that is not in the metadata, or not the file that was released, is
   not executed. *)
Execute ==
    /\ pc = "execute"
    /\ Finish(IF version \in releases /\ binary[version] = "complete" THEN "ok" ELSE "failed")
    /\ UNCHANGED <<disk, mem, plan, saved, commands, history>>

-----------------------------------------------------------------------------
(* Plugin.install.  The download has been checked when the directory is made. *)
MakeDir ==
    /\ pc = "mkdir"
    /\ \/ binary' = [binary EXCEPT ![version] = "empty"] /\ Goto("open")
       \/ Faults /\ Finish("failed") /\ UNCHANGED binary
    /\ UNCHANGED <<meta, list, mem, plan, saved, commands, history>>

OpenBinary ==
    /\ pc = "open"
    /\ \/ binary' = [binary EXCEPT ![version] = "partial"] /\ Goto("fill")
       \/ Faults /\ Finish("failed") /\ UNCHANGED binary
    /\ UNCHANGED <<meta, list, mem, plan, saved, commands, history>>

(* Mutant: the error of the write is not looked at. *)
FillUnchecked ==
    /\ pc = "fill"
    /\ Goto("save")
    /\ \/ binary' = [binary EXCEPT ![version] = "complete"]
       \/ Faults /\ UNCHANGED binary
    /\ UNCHANGED <<meta, list, mem, plan, saved, commands, history>>

(* A file that could not be written to the end stays. *)
FillBinary ==
    /\ pc = "fill"
    /\ \/ binary' = [binary EXCEPT ![version] = "complete"] /\ Goto("save")
       \/ Faults /\ Finish("failed") /\ UNCHANGED binary
    /\ UNCHANGED <<meta, list, mem, plan, saved, commands, history>>

(* RemoveAll deletes directories and, where it fails, the files of others. *)
Removed(gone, bare) ==
    [v \in Versions |->
        IF v \in gone THEN "absent" ELSE IF v \in bare THEN "empty" ELSE binary[v]]

(* Mutant: the whole plugin is removed, not only the version. *)
DiscardPlugin ==
    /\ pc = "discard"
    /\ binary' = [v \in Versions |-> "absent"]
    /\ Finish("failed")
    /\ UNCHANGED <<meta, list, mem, plan, saved, commands, history>>

(* The version whose state could not be saved is removed. *)
Discard ==
    /\ pc = "discard"
    /\ \/ binary' = Removed({version}, {})
       \/ Faults /\ \E bare \in SUBSET {version} : binary' = Removed({}, bare)
    /\ Finish("failed")
    /\ UNCHANGED <<meta, list, mem, plan, saved, commands, history>>

(* cleanUpPluginPath: the walk ends with the first directory it has removed,
   because it cannot read it any more; it goes on after one it could not remove. *)
CleanUp ==
    /\ pc = "cleanup"
    /\ LET others == Dirs \ {version} IN
       \/ \E v \in others : \E bare \in SUBSET {w \in others : w < v} :
             /\ Faults \/ IsFirst(v, others)
             /\ binary' = Removed({v}, bare)
       \/ \E bare \in SUBSET others :
             /\ Faults \/ others = {}
             /\ binary' = Removed({}, bare)
    /\ IF kind = "run" THEN Goto("execute") ELSE Finish("ok")
    /\ UNCHANGED <<meta, list, mem, plan, saved, commands, history>>

-----------------------------------------------------------------------------
(* PersistInstalledPluginState. *)
StateSaved ==
    \/ why = "backfill" /\ EnterBody
    \/ why = "already" /\ Finish("ok") /\ UNCHANGED was
    \/ why = "new" /\ Goto("cleanup") /\ UNCHANGED was

StateNotSaved ==
    \/ why = "backfill" /\ EnterBody
    \/ why \in {"already", "uninstall"} /\ Finish("failed") /\ UNCHANGED was
    \/ why = "new" /\ Goto("discard") /\ UNCHANGED was

(* The snapshot, and the metadata file opened for writing. *)
Save ==
    /\ pc = "save"
    /\ UNCHANGED <<binary, list, mem, plan, commands, had, half, botched>>
    /\ saved' = [meta |-> meta, list |-> mem]
    /\ \/ meta' = Garbled /\ Goto("describe") /\ UNCHANGED was
       \/ Faults /\ Goto("undo") /\ UNCHANGED <<meta, was>>
       \/ Faults /\ UNCHANGED meta /\ StateNotSaved

Describe ==
    /\ pc = "describe"
    /\ UNCHANGED <<binary, list, mem, plan, saved, commands, had, half, botched>>
    /\ \/ /\ meta' = releases
          /\ IF mem THEN StateSaved ELSE Goto("record") /\ UNCHANGED was
       \/ Faults /\ Goto("undo") /\ UNCHANGED <<meta, was>>

(* The config of the process has the new list before the file is written. *)
Record ==
    /\ pc = "record"
    /\ UNCHANGED <<binary, meta, plan, saved, commands, had, half, botched>>
    /\ mem' = TRUE
    /\ \/ list' = TRUE /\ StateSaved
       \/ Faults /\ list' \in {list, FALSE} /\ Goto("undo") /\ UNCHANGED was

(* rollbackInstalledPluginState.  When the list cannot be written again nobody
   hears of it: the config of the process has it all the same. *)
Undo ==
    /\ pc = "undo"
    /\ Goto("undolist")
    /\ \/ meta' = saved.meta /\ UNCHANGED botched
       \/ Faults /\ meta' \in {meta, Garbled} /\ botched' = TRUE
    /\ UNCHANGED <<binary, list, mem, plan, saved, commands, had, half, was>>

UndoList ==
    /\ pc = "undolist"
    /\ UNCHANGED <<binary, meta, plan, saved, commands, had, half>>
    /\ mem' = saved.list
    /\ IF mem = saved.list
       THEN UNCHANGED <<list, botched>>
       ELSE \/ list' = saved.list /\ UNCHANGED botched
            \/ Faults /\ list' \in {list, FALSE} /\ botched' = TRUE
    /\ StateNotSaved

-----------------------------------------------------------------------------
(* Plugin.Uninstall.  It refuses when nothing is there, not even the directory
   of the plugin, which the versions may have left. *)
StartUninstall ==
    /\ pc = "body" /\ kind = "uninstall"
    /\ \/ /\ why' = "uninstall"
          /\ saved' = [meta |-> meta, list |-> mem]
          /\ Goto("undescribe")
       \/ /\ Faults \/ (~mem /\ Dirs = {} /\ meta = None)
          /\ Finish("failed")
          /\ UNCHANGED <<why, saved>>
    /\ UNCHANGED <<disk, mem, kind, version, releases, commands, history>>

Undescribe ==
    /\ pc = "undescribe"
    /\ \/ meta' = None /\ Goto(IF mem THEN "unlist" ELSE "delete")
       \/ Faults /\ Finish("failed") /\ UNCHANGED meta
    /\ UNCHANGED <<binary, list, mem, plan, saved, commands, history>>

(* Mutant: the list in the config of the process changes with the file only. *)
UnlistFileFirst ==
    /\ pc = "unlist"
    /\ \/ mem' = FALSE /\ list' = FALSE /\ Goto("delete")
       \/ Faults /\ list' \in {list, FALSE} /\ Goto("undo") /\ UNCHANGED mem
    /\ UNCHANGED <<binary, meta, plan, saved, commands, history>>

Unlist ==
    /\ pc = "unlist"
    /\ mem' = FALSE
    /\ \/ list' = FALSE /\ Goto("delete")
       \/ Faults /\ list' \in {list, FALSE} /\ Goto("undo")
    /\ UNCHANGED <<binary, meta, plan, saved, commands, history>>

(* Removing the directory of the plugin may fail half way. *)
Delete ==
    /\ pc = "delete"
    /\ \/ binary' = [v \in Versions |-> "absent"] /\ Finish("ok")
       \/ /\ Faults
          /\ \E gone \in SUBSET Dirs : \E bare \in SUBSET (Dirs \ gone) :
                binary' = Removed(gone, bare)
          /\ Goto("undo")
    /\ UNCHANGED <<meta, list, mem, plan, saved, commands, history>>

Kill ==
    /\ pc # "idle"
    /\ Finish("killed")
    /\ UNCHANGED <<disk, mem, plan, saved, commands, history>>

Next ==
    \/ \E k \in {"install", "uninstall", "run"} : Start(k)
    \/ Backfill
    \/ Resolve \/ FindInstalled \/ Execute
    \/ MakeDir \/ OpenBinary \/ FillBinary \/ Discard \/ CleanUp
    \/ Save \/ Describe \/ Record \/ Undo \/ UndoList
    \/ StartUninstall \/ Undescribe \/ Unlist \/ Delete
    \/ Kill

Spec == Init /\ [][Next]_vars

-----------------------------------------------------------------------------
(* Whatever fails and wherever an install, an upgrade or a run is killed, a
   plugin that had a complete binary still has one: the old version is removed
   when the new one is complete and recorded. *)
KeepsABinary == had /\ kind # "uninstall" => Complete # {}

(* A command that fails leaves the metadata and the list as it found them,
   unless a write that was to restore them failed too. *)
FailureIsUndone ==
    pc = "idle" /\ outcome = "failed" /\ ~botched => was = [meta |-> meta, list |-> list]

(* Success is only reported when the disk shows it: an install or upgrade has left the
   plugin listed, with the metadata it came with and a complete binary, unless an
   earlier command had left that file half written; an uninstall has left nothing. *)
ReportsAreTrue ==
    pc = "idle" /\ outcome = "ok" =>
        /\ kind = "install" =>
              /\ list /\ meta = releases /\ version \in meta
              /\ binary[version] = "complete" \/ version \in half
        /\ kind = "uninstall" => ~list /\ meta = None /\ Dirs = {}

(* "IsVersionInstalled returns true if the given version of the plugin is already
   installed on disk" (plugin.go:254): refuted by a file that a failed or killed
   install has left half written, over which the next one reports success. *)
InstalledIsComplete ==
    pc = "idle" /\ outcome = "ok" /\ kind = "install" => binary[version] = "complete"

(* "cleanUpPluginPath empties the plugin folder except for the version
   specified" (plugin.go:138): refuted. *)
CleansOthers ==
    pc = "idle" /\ outcome = "ok" /\ kind = "install" /\ why = "new" => Dirs = {version}
=============================================================================
