------------------------ MODULE PluginLifecycleProofs ------------------------
(* What TLAPS proves of PluginLifecycle, for any versions and any number of
   commands. *)
EXTENDS PluginLifecycle, TLAPS

Now == [meta |-> meta, list |-> list]

Installing == pc \in {"mkdir", "open", "fill", "discard"}
Saving == pc \in {"save", "describe", "record"}
Undoing == pc \in {"undo", "undolist"}
Filing == Saving \/ Undoing
Removing == pc \in {"undescribe", "unlist", "delete"}
FilingNew == Filing /\ why = "new"

(* What is under way at each step. *)
Phases ==
    /\ Installing \/ pc = "cleanup" => why = "new" /\ version \in releases
    /\ Installing \/ pc = "cleanup" \/ FilingNew => kind # "uninstall"
    /\ Saving => why # "uninstall" /\ releases # {}
    /\ Removing => why = "uninstall" /\ kind = "uninstall"
    /\ Filing => /\ why = "uninstall" => kind = "uninstall"
                 /\ why = "already" => kind = "install"
                 /\ why \in {"already", "new"} => version \in releases
    /\ pc = "execute" => kind = "run"

(* The new version is complete from the time its state is saved, and until then
   the complete binary that was there before is another one; a file that is only
   recorded was there when the command started. *)
Binaries ==
    /\ pc = "mkdir" => binary[version] \in {"absent", "empty"}
    /\ pc = "open" => binary[version] = "empty"
    /\ pc = "fill" => binary[version] = "partial"
    /\ FilingNew \/ pc = "cleanup" => binary[version] = "complete"
    /\ pc \in {"backfill", "body"} \/ (Filing /\ why = "backfill") =>
          \A v \in Versions : binary[v] = "partial" => v \in half
    /\ Filing /\ why = "already" =>
          binary[version] = "complete" \/ (binary[version] = "partial" /\ version \in half)
    /\ (Installing \/ FilingNew) /\ had => \E w \in Versions \ {version} : binary[w] = "complete"

(* The process and the file disagree on the list only while one is undone. *)
Lists ==
    /\ ~(pc \in {"idle", "discard"} \/ Undoing) => mem = list
    /\ Filing /\ why = "backfill" => mem /\ list /\ (pc # "save" => saved.list) /\ pc # "record"
    /\ pc = "record" => ~mem /\ meta = releases
    /\ pc = "cleanup" => list /\ meta = releases
    /\ pc = "unlist" => mem /\ meta = None
    /\ pc = "delete" => ~mem /\ meta = None

(* The snapshot is what the command found, and what it has not restored yet is
   still to be restored. *)
Undoable ==
    /\ pc \in {"describe", "record"} \/ (Removing /\ pc # "delete") => saved.list = mem
    /\ pc = "body" => was = Now
    /\ pc = "execute" => (version \in releases /\ binary[version] = "complete") \/ was = Now
    /\ ~botched =>
        /\ Undoing /\ mem = saved.list => list = saved.list
        /\ pc = "undolist" => meta = saved.meta
        /\ Removing \/ (Filing /\ pc # "save" /\ why # "backfill") => saved = was
        /\ Installing \/ pc = "undescribe" \/ (pc = "save" /\ why # "backfill") => was = Now

Inv ==
    /\ TypeOK /\ KeepsABinary /\ FailureIsUndone /\ ReportsAreTrue
    /\ Phases /\ Binaries /\ Lists /\ Undoable

-----------------------------------------------------------------------------
(* What a metadata file may hold. *)
LEMMA MetadataValues ==
    /\ None \in Metadata /\ Garbled \in Metadata
    /\ Readable \subseteq Metadata
    /\ \A R \in Readable : R \in SUBSET Versions /\ R # {}
    /\ \A R \in SUBSET Versions : R # {} => R \in Readable
    /\ Cached \in SUBSET Versions
<1>1. Cached \in SUBSET Versions
  BY PluginAssumption
<1>2. \A R \in SUBSET Versions : R # {} => R \in Readable
  BY DEF Readable
<1>. QED  BY <1>1, <1>2 DEF Metadata, Readable

LEMMA StepInv == ASSUME Inv, [Next]_vars PROVE Inv'
<1>. USE DEF Inv, disk, plan, history, Finish, Goto, Now, Installing, Saving, Undoing,
             Filing, Removing, FilingNew
<1>1. ASSUME NEW k \in {"install", "uninstall", "run"}, Start(k)
      PROVE  Inv'
  <2>1. TypeOK'
    <3>1. had' \in BOOLEAN
      BY <1>1, Zenon DEF Start
    <3>2. mem' \in BOOLEAN /\ list' \in BOOLEAN /\ botched' \in BOOLEAN
          /\ half' \in SUBSET Versions
      BY <1>1 DEF Start, TypeOK
    <3>3. /\ UNCHANGED <<disk, version, releases, why, saved, was, outcome>>
          /\ kind' = k /\ pc' = "backfill" /\ commands' = commands + 1
      BY <1>1 DEF Start
    <3>. QED  BY <3>1, <3>2, <3>3 DEF TypeOK
  <2>2. KeepsABinary'
    BY <1>1 DEF Start, TypeOK, KeepsABinary, Phases, Binaries, Complete
  <2>3. FailureIsUndone'  BY <1>1 DEF Start, FailureIsUndone, Undoable, Lists, Phases
  <2>4. ReportsAreTrue'
    BY <1>1 DEF Start, ReportsAreTrue, TypeOK, Phases, Binaries, Lists, Dirs
  <2>5. Phases'  BY <1>1 DEF Start, TypeOK, Phases
  <2>6. Binaries'
    BY <1>1 DEF Start, TypeOK, KeepsABinary, Phases, Binaries, Complete, Dirs
  <2>7. Lists'  BY <1>1 DEF Start, TypeOK, Lists, Phases
  <2>8. Undoable'  BY <1>1 DEF Start, TypeOK, Undoable, Lists, Phases, Binaries
  <2>. QED  BY <2>1, <2>2, <2>3, <2>4, <2>5, <2>6, <2>7, <2>8
<1>2. CASE Backfill
  <2>1. TypeOK'
    BY <1>2, MetadataValues DEF Backfill, EnterBody, Snapshot, TypeOK, Phases
  <2>2. KeepsABinary'
    BY <1>2 DEF Backfill, EnterBody, TypeOK, KeepsABinary, Phases, Binaries, Complete
  <2>3. FailureIsUndone'
    BY <1>2 DEF Backfill, EnterBody, FailureIsUndone, Undoable, Lists, Phases
  <2>4. ReportsAreTrue'
    BY <1>2 DEF Backfill, EnterBody, ReportsAreTrue, TypeOK, Phases, Binaries, Lists,
       Dirs
  <2>5. Phases'  BY <1>2, MetadataValues DEF Backfill, EnterBody, TypeOK, Phases
  <2>6. Binaries'
    BY <1>2 DEF Backfill, EnterBody, TypeOK, KeepsABinary, Phases, Binaries,
       Complete, Dirs
  <2>7. Lists'  BY <1>2 DEF Backfill, EnterBody, TypeOK, Lists, Phases
  <2>8. Undoable'
    BY <1>2 DEF Backfill, EnterBody, TypeOK, Undoable, Lists, Phases, Binaries
  <2>. QED  BY <2>1, <2>2, <2>3, <2>4, <2>5, <2>6, <2>7, <2>8
<1>3. CASE Resolve
  <2>1. TypeOK'  BY <1>3, MetadataValues DEF Resolve, Snapshot, TypeOK, Phases
  <2>2. KeepsABinary'
    BY <1>3 DEF Resolve, TypeOK, KeepsABinary, Phases, Binaries, Complete
  <2>3. FailureIsUndone'  BY <1>3 DEF Resolve, FailureIsUndone, Undoable, Lists, Phases
  <2>4. ReportsAreTrue'
    BY <1>3 DEF Resolve, ReportsAreTrue, TypeOK, Phases, Binaries, Lists, Dirs
  <2>5. Phases'  BY <1>3, MetadataValues DEF Resolve, TypeOK, Phases
  <2>6. Binaries'
    BY <1>3 DEF Resolve, TypeOK, KeepsABinary, Phases, Binaries, Complete, Dirs
  <2>7. Lists'  BY <1>3 DEF Resolve, TypeOK, Lists, Phases
  <2>8. Undoable'  BY <1>3 DEF Resolve, TypeOK, Undoable, Lists, Phases, Binaries
  <2>. QED  BY <2>1, <2>2, <2>3, <2>4, <2>5, <2>6, <2>7, <2>8
<1>4. CASE FindInstalled
  <2>1. TypeOK'
    BY <1>4, MetadataValues DEF FindInstalled, Snapshot, TypeOK, Phases, IsFirst, Dirs
  <2>2. KeepsABinary'
    BY <1>4 DEF FindInstalled, TypeOK, KeepsABinary, Phases, Binaries, Complete
  <2>3. FailureIsUndone'
    BY <1>4 DEF FindInstalled, FailureIsUndone, Undoable, Lists, Phases
  <2>4. ReportsAreTrue'
    BY <1>4 DEF FindInstalled, ReportsAreTrue, TypeOK, Phases, Binaries, Lists, Dirs
  <2>5. Phases'  BY <1>4, MetadataValues DEF FindInstalled, TypeOK, Phases
  <2>6. Binaries'
    BY <1>4 DEF FindInstalled, TypeOK, KeepsABinary, Phases, Binaries, Complete, Dirs
  <2>7. Lists'  BY <1>4 DEF FindInstalled, TypeOK, Lists, Phases
  <2>8. Undoable'  BY <1>4 DEF FindInstalled, TypeOK, Undoable, Lists, Phases, Binaries
  <2>. QED  BY <2>1, <2>2, <2>3, <2>4, <2>5, <2>6, <2>7, <2>8
<1>5. CASE Execute
  <2>1. TypeOK'  BY <1>5 DEF Execute, Snapshot, TypeOK, Phases
  <2>2. KeepsABinary'
    BY <1>5 DEF Execute, TypeOK, KeepsABinary, Phases, Binaries, Complete
  <2>3. FailureIsUndone'  BY <1>5 DEF Execute, FailureIsUndone, Undoable, Lists, Phases
  <2>4. ReportsAreTrue'
    BY <1>5 DEF Execute, ReportsAreTrue, TypeOK, Phases, Binaries, Lists, Dirs
  <2>5. Phases'  BY <1>5 DEF Execute, TypeOK, Phases
  <2>6. Binaries'
    BY <1>5 DEF Execute, TypeOK, KeepsABinary, Phases, Binaries, Complete, Dirs
  <2>7. Lists'  BY <1>5 DEF Execute, TypeOK, Lists, Phases
  <2>8. Undoable'  BY <1>5 DEF Execute, TypeOK, Undoable, Lists, Phases, Binaries
  <2>. QED  BY <2>1, <2>2, <2>3, <2>4, <2>5, <2>6, <2>7, <2>8
<1>6. CASE MakeDir
  <2>1. TypeOK'  BY <1>6 DEF MakeDir, Snapshot, TypeOK, Phases
  <2>2. KeepsABinary'
    BY <1>6 DEF MakeDir, TypeOK, KeepsABinary, Phases, Binaries, Complete
  <2>3. FailureIsUndone'  BY <1>6 DEF MakeDir, FailureIsUndone, Undoable, Lists, Phases
  <2>4. ReportsAreTrue'
    BY <1>6 DEF MakeDir, ReportsAreTrue, TypeOK, Phases, Binaries, Lists, Dirs
  <2>5. Phases'  BY <1>6 DEF MakeDir, TypeOK, Phases
  <2>6. Binaries'
    BY <1>6 DEF MakeDir, TypeOK, KeepsABinary, Phases, Binaries, Complete, Dirs
  <2>7. Lists'  BY <1>6 DEF MakeDir, TypeOK, Lists, Phases
  <2>8. Undoable'  BY <1>6 DEF MakeDir, TypeOK, Undoable, Lists, Phases, Binaries
  <2>. QED  BY <2>1, <2>2, <2>3, <2>4, <2>5, <2>6, <2>7, <2>8
<1>7. CASE OpenBinary
  <2>1. TypeOK'  BY <1>7 DEF OpenBinary, Snapshot, TypeOK, Phases
  <2>2. KeepsABinary'
    BY <1>7 DEF OpenBinary, TypeOK, KeepsABinary, Phases, Binaries, Complete
  <2>3. FailureIsUndone'
    BY <1>7 DEF OpenBinary, FailureIsUndone, Undoable, Lists, Phases
  <2>4. ReportsAreTrue'
    BY <1>7 DEF OpenBinary, ReportsAreTrue, TypeOK, Phases, Binaries, Lists, Dirs
  <2>5. Phases'  BY <1>7 DEF OpenBinary, TypeOK, Phases
  <2>6. Binaries'
    BY <1>7 DEF OpenBinary, TypeOK, KeepsABinary, Phases, Binaries, Complete, Dirs
  <2>7. Lists'  BY <1>7 DEF OpenBinary, TypeOK, Lists, Phases
  <2>8. Undoable'  BY <1>7 DEF OpenBinary, TypeOK, Undoable, Lists, Phases, Binaries
  <2>. QED  BY <2>1, <2>2, <2>3, <2>4, <2>5, <2>6, <2>7, <2>8
<1>8. CASE FillBinary
  <2>1. TypeOK'  BY <1>8 DEF FillBinary, Snapshot, TypeOK, Phases
  <2>2. KeepsABinary'
    BY <1>8 DEF FillBinary, TypeOK, KeepsABinary, Phases, Binaries, Complete
  <2>3. FailureIsUndone'
    BY <1>8 DEF FillBinary, FailureIsUndone, Undoable, Lists, Phases
  <2>4. ReportsAreTrue'
    BY <1>8 DEF FillBinary, ReportsAreTrue, TypeOK, Phases, Binaries, Lists, Dirs
  <2>5. Phases'  BY <1>8 DEF FillBinary, TypeOK, Phases
  <2>6. Binaries'
    BY <1>8 DEF FillBinary, TypeOK, KeepsABinary, Phases, Binaries, Complete, Dirs
  <2>7. Lists'  BY <1>8 DEF FillBinary, TypeOK, Lists, Phases
  <2>8. Undoable'  BY <1>8 DEF FillBinary, TypeOK, Undoable, Lists, Phases, Binaries
  <2>. QED  BY <2>1, <2>2, <2>3, <2>4, <2>5, <2>6, <2>7, <2>8
<1>9. CASE Discard
  <2>1. TypeOK'  BY <1>9 DEF Discard, Removed, Snapshot, TypeOK, Phases
  <2>2. KeepsABinary'
    BY <1>9 DEF Discard, Removed, TypeOK, KeepsABinary, Phases, Binaries, Complete
  <2>3. FailureIsUndone'  BY <1>9 DEF Discard, Removed, FailureIsUndone, Undoable, Lists, Phases
  <2>4. ReportsAreTrue'
    BY <1>9 DEF Discard, Removed, ReportsAreTrue, TypeOK, Phases, Binaries, Lists, Dirs
  <2>5. Phases'  BY <1>9 DEF Discard, Removed, TypeOK, Phases
  <2>6. Binaries'
    BY <1>9 DEF Discard, Removed, TypeOK, KeepsABinary, Phases, Binaries, Complete, Dirs
  <2>7. Lists'  BY <1>9 DEF Discard, Removed, TypeOK, Lists, Phases
  <2>8. Undoable'  BY <1>9 DEF Discard, Removed, TypeOK, Undoable, Lists, Phases, Binaries
  <2>. QED  BY <2>1, <2>2, <2>3, <2>4, <2>5, <2>6, <2>7, <2>8
<1>10. CASE CleanUp
  <2>1. TypeOK'  BY <1>10 DEF CleanUp, Removed, Snapshot, TypeOK, Phases
  <2>2. KeepsABinary'
    BY <1>10 DEF CleanUp, Removed, TypeOK, KeepsABinary, Phases, Binaries, Complete
  <2>3. FailureIsUndone'  BY <1>10 DEF CleanUp, Removed, FailureIsUndone, Undoable, Lists, Phases
  <2>4. ReportsAreTrue'
    BY <1>10 DEF CleanUp, Removed, ReportsAreTrue, TypeOK, Phases, Binaries, Lists, Dirs
  <2>5. Phases'  BY <1>10 DEF CleanUp, Removed, TypeOK, Phases
  <2>6. Binaries'
    BY <1>10 DEF CleanUp, Removed, TypeOK, KeepsABinary, Phases, Binaries, Complete, Dirs
  <2>7. Lists'  BY <1>10 DEF CleanUp, Removed, TypeOK, Lists, Phases
  <2>8. Undoable'  BY <1>10 DEF CleanUp, Removed, TypeOK, Undoable, Lists, Phases, Binaries
  <2>. QED  BY <2>1, <2>2, <2>3, <2>4, <2>5, <2>6, <2>7, <2>8
<1>11. CASE Save
  <2>1. TypeOK'
    BY <1>11, MetadataValues DEF Save, StateSaved, StateNotSaved, EnterBody,
       Snapshot, TypeOK, Phases
  <2>2. KeepsABinary'
    BY <1>11 DEF Save, StateSaved, StateNotSaved, EnterBody, TypeOK, KeepsABinary,
       Phases, Binaries, Complete
  <2>3. FailureIsUndone'
    BY <1>11 DEF Save, StateSaved, StateNotSaved, EnterBody, FailureIsUndone,
       Undoable, Lists, Phases
  <2>4. ReportsAreTrue'
    BY <1>11 DEF Save, StateSaved, StateNotSaved, EnterBody, ReportsAreTrue, TypeOK,
       Phases, Binaries, Lists, Dirs
  <2>5. Phases'
    BY <1>11, MetadataValues DEF Save, StateSaved, StateNotSaved, EnterBody, TypeOK,
       Phases
  <2>6. Binaries'
    BY <1>11 DEF Save, StateSaved, StateNotSaved, EnterBody, TypeOK, KeepsABinary,
       Phases, Binaries, Complete, Dirs
  <2>7. Lists'
    BY <1>11 DEF Save, StateSaved, StateNotSaved, EnterBody, TypeOK, Lists, Phases
  <2>8. Undoable'
    BY <1>11 DEF Save, StateSaved, StateNotSaved, EnterBody, TypeOK, Undoable, Lists,
       Phases, Binaries
  <2>. QED  BY <2>1, <2>2, <2>3, <2>4, <2>5, <2>6, <2>7, <2>8
<1>12. CASE Describe
  <2>1. TypeOK'
    BY <1>12, MetadataValues DEF Describe, StateSaved, EnterBody, Snapshot, TypeOK,
       Phases
  <2>2. KeepsABinary'
    BY <1>12 DEF Describe, StateSaved, EnterBody, TypeOK, KeepsABinary, Phases,
       Binaries, Complete
  <2>3. FailureIsUndone'
    BY <1>12 DEF Describe, StateSaved, EnterBody, FailureIsUndone, Undoable, Lists,
       Phases
  <2>4. ReportsAreTrue'
    BY <1>12 DEF Describe, StateSaved, EnterBody, ReportsAreTrue, TypeOK, Phases,
       Binaries, Lists, Dirs
  <2>5. Phases'
    BY <1>12, MetadataValues DEF Describe, StateSaved, EnterBody, TypeOK, Phases
  <2>6. Binaries'
    BY <1>12 DEF Describe, StateSaved, EnterBody, TypeOK, KeepsABinary, Phases,
       Binaries, Complete, Dirs
  <2>7. Lists'  BY <1>12 DEF Describe, StateSaved, EnterBody, TypeOK, Lists, Phases
  <2>8. Undoable'
    BY <1>12 DEF Describe, StateSaved, EnterBody, TypeOK, Undoable, Lists, Phases,
       Binaries
  <2>. QED  BY <2>1, <2>2, <2>3, <2>4, <2>5, <2>6, <2>7, <2>8
<1>13. CASE Record
  <2>1. TypeOK'
    <3>1. meta' \in Metadata /\ list' \in BOOLEAN
      BY <1>13, MetadataValues DEF Record, Snapshot, TypeOK, Phases
    <3>2. was' \in Snapshot
      <4>1. was' = was \/ was' = [meta |-> meta', list |-> list']
        BY <1>13 DEF Record, StateSaved, EnterBody
      <4>. QED  BY <3>1, <4>1 DEF Snapshot, TypeOK
    <3>. QED  BY <1>13, <3>1, <3>2 DEF Record, StateSaved, EnterBody, TypeOK, Phases
  <2>2. KeepsABinary'
    BY <1>13 DEF Record, StateSaved, EnterBody, TypeOK, KeepsABinary, Phases,
       Binaries, Complete
  <2>3. FailureIsUndone'
    BY <1>13 DEF Record, StateSaved, EnterBody, FailureIsUndone, Undoable, Lists, Phases
  <2>4. ReportsAreTrue'
    BY <1>13 DEF Record, StateSaved, EnterBody, ReportsAreTrue, TypeOK, Phases,
       Binaries, Lists, Dirs
  <2>5. Phases'  BY <1>13 DEF Record, StateSaved, EnterBody, TypeOK, Phases
  <2>6. Binaries'
    BY <1>13 DEF Record, StateSaved, EnterBody, TypeOK, KeepsABinary, Phases,
       Binaries, Complete, Dirs
  <2>7. Lists'  BY <1>13 DEF Record, StateSaved, EnterBody, TypeOK, Lists, Phases
  <2>8. Undoable'
    BY <1>13 DEF Record, StateSaved, EnterBody, TypeOK, Undoable, Lists, Phases,
       Binaries
  <2>. QED  BY <2>1, <2>2, <2>3, <2>4, <2>5, <2>6, <2>7, <2>8
<1>14. CASE Undo
  <2>1. TypeOK'
    <3>1. meta' \in Metadata /\ list' \in BOOLEAN
      BY <1>14, MetadataValues DEF Undo, Snapshot, TypeOK, Phases
    <3>2. was' \in Snapshot
      <4>1. was' = was \/ was' = [meta |-> meta', list |-> list']
        BY <1>14 DEF Undo
      <4>. QED  BY <3>1, <4>1 DEF Snapshot, TypeOK
    <3>. QED  BY <1>14, <3>1, <3>2 DEF Undo, TypeOK, Phases
  <2>2. KeepsABinary'
    BY <1>14 DEF Undo, TypeOK, KeepsABinary, Phases, Binaries, Complete
  <2>3. FailureIsUndone'  BY <1>14 DEF Undo, FailureIsUndone, Undoable, Lists, Phases
  <2>4. ReportsAreTrue'
    BY <1>14 DEF Undo, ReportsAreTrue, TypeOK, Phases, Binaries, Lists, Dirs
  <2>5. Phases'  BY <1>14, MetadataValues DEF Undo, TypeOK, Phases
  <2>6. Binaries'
    BY <1>14 DEF Undo, TypeOK, KeepsABinary, Phases, Binaries, Complete, Dirs
  <2>7. Lists'  BY <1>14 DEF Undo, TypeOK, Lists, Phases
  <2>8. Undoable'  BY <1>14 DEF Undo, TypeOK, Undoable, Lists, Phases, Binaries
  <2>. QED  BY <2>1, <2>2, <2>3, <2>4, <2>5, <2>6, <2>7, <2>8
<1>15. CASE UndoList
  <2>1. TypeOK'
    <3>1. meta' \in Metadata /\ list' \in BOOLEAN
      BY <1>15, MetadataValues DEF UndoList, Snapshot, TypeOK, Phases
    <3>2. was' \in Snapshot
      <4>1. was' = was \/ was' = [meta |-> meta', list |-> list']
        BY <1>15 DEF UndoList, StateNotSaved, EnterBody
      <4>. QED  BY <3>1, <4>1 DEF Snapshot, TypeOK
    <3>3. mem' \in BOOLEAN
      BY <1>15 DEF UndoList, Snapshot, TypeOK
    <3>. QED  BY <1>15, <3>1, <3>2, <3>3 DEF UndoList, StateNotSaved, EnterBody,
    TypeOK, Phases
  <2>2. KeepsABinary'
    BY <1>15 DEF UndoList, StateNotSaved, EnterBody, TypeOK, KeepsABinary, Phases,
       Binaries, Complete
  <2>3. FailureIsUndone'
    BY <1>15 DEF UndoList, StateNotSaved, EnterBody, FailureIsUndone, Undoable,
       Lists, Phases, TypeOK, Snapshot
  <2>4. ReportsAreTrue'
    BY <1>15 DEF UndoList, StateNotSaved, EnterBody, ReportsAreTrue, TypeOK, Phases,
       Binaries, Lists, Dirs
  <2>5. Phases'  BY <1>15 DEF UndoList, StateNotSaved, EnterBody, TypeOK, Phases
  <2>6. Binaries'
    BY <1>15 DEF UndoList, StateNotSaved, EnterBody, TypeOK, KeepsABinary, Phases,
       Binaries, Complete, Dirs
  <2>7. Lists'  BY <1>15 DEF UndoList, StateNotSaved, EnterBody, TypeOK, Lists, Phases
  <2>8. Undoable'
    BY <1>15 DEF UndoList, StateNotSaved, EnterBody, TypeOK, Undoable, Lists, Phases,
       Binaries, Snapshot
  <2>. QED  BY <2>1, <2>2, <2>3, <2>4, <2>5, <2>6, <2>7, <2>8
<1>16. CASE StartUninstall
  <2>1. TypeOK'  BY <1>16 DEF StartUninstall, Snapshot, TypeOK, Phases
  <2>2. KeepsABinary'
    BY <1>16 DEF StartUninstall, TypeOK, KeepsABinary, Phases, Binaries, Complete
  <2>3. FailureIsUndone'
    BY <1>16 DEF StartUninstall, FailureIsUndone, Undoable, Lists, Phases
  <2>4. ReportsAreTrue'
    BY <1>16 DEF StartUninstall, ReportsAreTrue, TypeOK, Phases, Binaries, Lists, Dirs
  <2>5. Phases'  BY <1>16 DEF StartUninstall, TypeOK, Phases
  <2>6. Binaries'
    BY <1>16 DEF StartUninstall, TypeOK, KeepsABinary, Phases, Binaries, Complete, Dirs
  <2>7. Lists'  BY <1>16 DEF StartUninstall, TypeOK, Lists, Phases
  <2>8. Undoable'
    BY <1>16 DEF StartUninstall, TypeOK, Undoable, Lists, Phases, Binaries
  <2>. QED  BY <2>1, <2>2, <2>3, <2>4, <2>5, <2>6, <2>7, <2>8
<1>17. CASE Undescribe
  <2>1. TypeOK'  BY <1>17, MetadataValues DEF Undescribe, Snapshot, TypeOK, Phases
  <2>2. KeepsABinary'
    BY <1>17 DEF Undescribe, TypeOK, KeepsABinary, Phases, Binaries, Complete
  <2>3. FailureIsUndone'
    BY <1>17 DEF Undescribe, FailureIsUndone, Undoable, Lists, Phases
  <2>4. ReportsAreTrue'
    BY <1>17 DEF Undescribe, ReportsAreTrue, TypeOK, Phases, Binaries, Lists, Dirs
  <2>5. Phases'  BY <1>17, MetadataValues DEF Undescribe, TypeOK, Phases
  <2>6. Binaries'
    BY <1>17 DEF Undescribe, TypeOK, KeepsABinary, Phases, Binaries, Complete, Dirs
  <2>7. Lists'  BY <1>17 DEF Undescribe, TypeOK, Lists, Phases
  <2>8. Undoable'  BY <1>17 DEF Undescribe, TypeOK, Undoable, Lists, Phases, Binaries
  <2>. QED  BY <2>1, <2>2, <2>3, <2>4, <2>5, <2>6, <2>7, <2>8
<1>18. CASE Unlist
  <2>1. TypeOK'  BY <1>18 DEF Unlist, Snapshot, TypeOK, Phases
  <2>2. KeepsABinary'
    BY <1>18 DEF Unlist, TypeOK, KeepsABinary, Phases, Binaries, Complete
  <2>3. FailureIsUndone'  BY <1>18 DEF Unlist, FailureIsUndone, Undoable, Lists, Phases
  <2>4. ReportsAreTrue'
    BY <1>18 DEF Unlist, ReportsAreTrue, TypeOK, Phases, Binaries, Lists, Dirs
  <2>5. Phases'  BY <1>18 DEF Unlist, TypeOK, Phases
  <2>6. Binaries'
    BY <1>18 DEF Unlist, TypeOK, KeepsABinary, Phases, Binaries, Complete, Dirs
  <2>7. Lists'  BY <1>18 DEF Unlist, TypeOK, Lists, Phases
  <2>8. Undoable'  BY <1>18 DEF Unlist, TypeOK, Undoable, Lists, Phases, Binaries
  <2>. QED  BY <2>1, <2>2, <2>3, <2>4, <2>5, <2>6, <2>7, <2>8
<1>19. CASE Delete
  <2>1. TypeOK'  BY <1>19 DEF Delete, Removed, Snapshot, TypeOK, Phases
  <2>2. KeepsABinary'
    BY <1>19 DEF Delete, Removed, TypeOK, KeepsABinary, Phases, Binaries, Complete
  <2>3. FailureIsUndone'  BY <1>19 DEF Delete, Removed, FailureIsUndone, Undoable, Lists, Phases
  <2>4. ReportsAreTrue'
    BY <1>19 DEF Delete, Removed, ReportsAreTrue, TypeOK, Phases, Binaries, Lists, Dirs
  <2>5. Phases'  BY <1>19 DEF Delete, Removed, TypeOK, Phases
  <2>6. Binaries'
    BY <1>19 DEF Delete, Removed, TypeOK, KeepsABinary, Phases, Binaries, Complete, Dirs
  <2>7. Lists'  BY <1>19 DEF Delete, Removed, TypeOK, Lists, Phases
  <2>8. Undoable'  BY <1>19 DEF Delete, Removed, TypeOK, Undoable, Lists, Phases, Binaries
  <2>. QED  BY <2>1, <2>2, <2>3, <2>4, <2>5, <2>6, <2>7, <2>8
<1>20. CASE Kill
  <2>1. TypeOK'  BY <1>20 DEF Kill, Snapshot, TypeOK, Phases
  <2>2. KeepsABinary'
    BY <1>20 DEF Kill, TypeOK, KeepsABinary, Phases, Binaries, Complete
  <2>3. FailureIsUndone'  BY <1>20 DEF Kill, FailureIsUndone, Undoable, Lists, Phases
  <2>4. ReportsAreTrue'
    BY <1>20 DEF Kill, ReportsAreTrue, TypeOK, Phases, Binaries, Lists, Dirs
  <2>5. Phases'  BY <1>20 DEF Kill, TypeOK, Phases
  <2>6. Binaries'
    BY <1>20 DEF Kill, TypeOK, KeepsABinary, Phases, Binaries, Complete, Dirs
  <2>7. Lists'  BY <1>20 DEF Kill, TypeOK, Lists, Phases
  <2>8. Undoable'  BY <1>20 DEF Kill, TypeOK, Undoable, Lists, Phases, Binaries
  <2>. QED  BY <2>1, <2>2, <2>3, <2>4, <2>5, <2>6, <2>7, <2>8
<1>21. CASE UNCHANGED vars
  BY <1>21 DEF vars, TypeOK, KeepsABinary, FailureIsUndone, ReportsAreTrue, Phases,
     Binaries,
     Lists, Undoable, Complete, Dirs
<1>. QED
  BY <1>1, <1>2, <1>3, <1>4, <1>5, <1>6, <1>7, <1>8, <1>9, <1>10, <1>11, <1>12,
     <1>13, <1>14, <1>15, <1>16, <1>17, <1>18, <1>19, <1>20, <1>21 DEF Next

LEMMA InitInv == ASSUME Init PROVE Inv
<1>1. TypeOK
  BY PluginAssumption, MetadataValues DEF Init, TypeOK, Snapshot
<1>2. KeepsABinary /\ FailureIsUndone /\ ReportsAreTrue
  BY DEF Init, KeepsABinary, FailureIsUndone, ReportsAreTrue, Dirs
<1>3. Phases /\ Binaries /\ Lists /\ Undoable
  BY DEF Init, Phases, Binaries, Lists, Undoable, Installing, Saving, Undoing,
     Filing, Removing,
     FilingNew
<1>. QED  BY <1>1, <1>2, <1>3 DEF Inv

-----------------------------------------------------------------------------
(* The strengthening: at each step of a command, which files the binary, the
   metadata, the list and the snapshot stand for. *)
THEOREM PluginInvariant == Spec => []Inv
<1>1. Init => Inv
  BY InitInv
<1>2. Inv /\ [Next]_vars => Inv'
  BY StepInv
<1>. QED  BY <1>1, <1>2, PTL DEF Spec

(* A version that is being installed is among the releases that come with it. *)
THEOREM PluginTypeCorrect == Spec => []TypeOK
<1>1. Inv => TypeOK
  BY DEF Inv
<1>. QED  BY PluginInvariant, <1>1, PTL

(* No failure and no kill during an install, an upgrade or a run takes away the
   last complete binary (Plugin.install and cleanUpPluginPath). *)
THEOREM PluginKeepsABinary == Spec => []KeepsABinary
<1>1. Inv => KeepsABinary
  BY DEF Inv
<1>. QED  BY PluginInvariant, <1>1, PTL

(* A command that fails has put back the metadata and the list it found
   (rollbackInstalledPluginState). *)
THEOREM PluginFailureIsUndone == Spec => []FailureIsUndone
<1>1. Inv => FailureIsUndone
  BY DEF Inv
<1>. QED  BY PluginInvariant, <1>1, PTL

(* An install or an uninstall that reports success has done it (runInstallCmd,
   Plugin.Uninstall), a file left half written by an earlier command excepted. *)
THEOREM PluginReportsAreTrue == Spec => []ReportsAreTrue
<1>1. Inv => ReportsAreTrue
  BY DEF Inv
<1>. QED  BY PluginInvariant, <1>1, PTL
-----------------------------------------------------------------------------
(* Where every write succeeds there is nothing to undo, and what is left of a
   command is what its steps had done when it was killed. *)
HasFile == \E v \in Versions : binary[v] \in {"partial", "complete"}

(* A plugin that is listed, or has the metadata that makes it a command, has a
   file to run. *)
NoGhost == list \/ meta \in Readable => HasFile

Faultless == NoGhost /\ ~Undoing /\ pc # "discard"

(* Files are there before they are recorded, and the version that is recorded is
   the one to stay. *)
LEMMA RecordedFile ==
    ASSUME Inv
    PROVE  /\ version \in Versions /\ pc = "cleanup" => binary[version] = "complete"
           /\ Saving => \/ list
                        \/ version \in Versions /\ binary[version] \in {"partial", "complete"}
BY DEF Inv, TypeOK, Phases, Binaries, Lists, Installing, Saving, Undoing, Filing, FilingNew

LEMMA FaultlessStep ==
    ASSUME ~Faults, Inv, Faultless, [Next]_vars
    PROVE  Faultless'
<1>. USE DEF Faultless, NoGhost, HasFile, Finish, Goto, Undoing, disk, plan, history
<1>0. /\ binary \in [Versions -> {"absent", "empty", "partial", "complete"}]
      /\ None \notin Readable /\ Garbled \notin Readable
      /\ pc \in {"mkdir", "open", "fill", "cleanup"} => version \in Versions
  BY PluginAssumption DEF Inv, TypeOK, Phases, Installing
<1>1. ASSUME NEW k \in {"install", "uninstall", "run"}, Start(k) PROVE Faultless'
  BY <1>1 DEF Start
<1>2. CASE Backfill
  BY <1>2 DEF Backfill, EnterBody
<1>3. CASE Resolve \/ FindInstalled \/ Execute
  BY <1>3 DEF Resolve, FindInstalled, Execute
<1>4. CASE MakeDir \/ OpenBinary
  <2>1. binary[version] \notin {"partial", "complete"}
    BY <1>4 DEF MakeDir, OpenBinary, Inv, Binaries
  <2>. QED  BY <1>0, <1>4, <2>1 DEF MakeDir, OpenBinary
<1>5. CASE FillBinary
  BY <1>0, <1>5 DEF FillBinary
<1>6. CASE CleanUp
  <2>1. binary[version] = "complete" /\ version \in Versions
    BY <1>0, <1>6, RecordedFile DEF CleanUp
  <2>2. binary'[version] = "complete"
    BY <1>0, <1>6, <2>1 DEF CleanUp, Removed, Dirs
  <2>3. HasFile'
    BY <2>1, <2>2
  <2>4. pc' \in {"execute", "idle"}
    BY <1>6 DEF CleanUp
  <2>. QED  BY <2>3, <2>4
<1>7. CASE Save \/ Describe \/ Record
  <2>1. HasFile
    BY <1>7, RecordedFile DEF Save, Describe, Record, Saving
  <2>. QED  BY <1>7, <2>1 DEF Save, Describe, Record, StateSaved, EnterBody
<1>8. CASE Discard \/ Undo \/ UndoList
  BY <1>8 DEF Discard, Undo, UndoList
<1>9. CASE StartUninstall \/ Undescribe \/ Unlist
  <2>1. CASE StartUninstall
    BY <2>1 DEF StartUninstall
  <2>2. CASE Undescribe
    BY <1>0, <2>2 DEF Undescribe
  <2>3. CASE Unlist
    BY <2>3 DEF Unlist
  <2>. QED  BY <1>9, <2>1, <2>2, <2>3
<1>10. CASE Delete
  <2>1. ~list /\ meta = None
    BY <1>10 DEF Delete, Removed, Inv, Lists
  <2>. QED  BY <1>0, <1>10, <2>1 DEF Delete
<1>11. CASE Kill \/ UNCHANGED vars
  BY <1>11 DEF Kill, vars
<1>. QED
  BY <1>1, <1>2, <1>3, <1>4, <1>5, <1>6, <1>7, <1>8, <1>9, <1>10, <1>11 DEF Next

(* Kills alone, however many and wherever, leave no plugin that is listed or has
   metadata without a file: an install records what it has written, an uninstall
   deletes what it has forgotten.  (The file may be half written: an install that
   finds it takes it for installed.  With faults the property fails: a removal
   that fails half way restores the list of what it has removed.) *)
THEOREM KillsLeaveNoGhost ==
    ASSUME ~Faults
    PROVE  Spec => []NoGhost
<1>1. Init => Faultless
  BY PluginAssumption DEF Init, Faultless, NoGhost, Undoing
<1>2. Inv /\ Faultless /\ [Next]_vars => Faultless'
  BY FaultlessStep
<1>3. Faultless => NoGhost
  BY DEF Faultless
<1>. QED  BY <1>1, <1>2, <1>3, PluginInvariant, PTL DEF Spec
=============================================================================
