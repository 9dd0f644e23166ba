----------------------------- MODULE SecureStore -----------------------------
(***************************************************************************)
(* keyring.SecureStore: the keyring of the system first (zalandoStore, each *)
(* call cut off after three seconds), a plain file when that fails         *)
(* (fallbackStore, fileStore).  Every process of the user is a client of   *)
(* the same keyring and the same file, without a lock.                     *)
(*                                                                         *)
(* A call that was cut off is not undone: the service may still carry it   *)
(* out (late).  The file is read, changed and written as a whole; a reader *)
(* of a file that is being written, and two writers at once, meet one that *)
(* does not parse.                                                         *)
(*                                                                         *)
(* sure and seen serve the refinement of CredentialMap only.               *)
(***************************************************************************)
EXTENDS Naturals, FiniteSets

CONSTANTS
    Clients,  \* processes, each one operation at a time
    Keys, Values,
    None,     \* no entry
    Pending,  \* no reply yet
    Broken,   \* the content of a file that does not parse
    MaxCalls  \* bound: operations called

Content == Values \cup {None}
Entries == [Keys -> Content]
Empty == [k \in Keys |-> None]
NoOp == [kind |-> "none"]
Operation == {NoOp}
    \cup [kind : {"get", "remove"}, key : Keys]
    \cup [kind : {"set"}, key : Keys, val : Values]
Answer == Content \cup {"ok", "notfound", "error", "killed"}

ASSUME StoreAssumption ==
    /\ None \notin Values
    /\ Pending \notin Answer
    /\ Broken \notin Entries
    /\ MaxCalls \in Nat

VARIABLES
    ring,     \* the keyring of the system
    file,     \* the fallback file
    late,     \* calls that were cut off and may still be carried out
    op,       \* the operation of each client
    pc,       \* where it is
    primary,  \* what the keyring said
    loaded,   \* the file as it was read
    answer,   \* what the operation reports
    wrote,    \* fallbackStore.wroteToFallback, per process
    calls,    \* operations called
    sure, seen

store == <<ring, file, late>>
client == <<op, pc, primary, loaded, answer, wrote>>
vars == <<store, client, calls, sure, seen>>

TypeOK ==
    /\ ring \in Entries
    /\ file \in Entries \cup {Broken}
    /\ late \subseteq Operation \ {NoOp}
    /\ op \in [Clients -> Operation]
    /\ pc \in [Clients -> {"idle", "ring", "load", "save", "return"}]
    /\ \A c \in Clients :
          /\ pc[c] = "idle" <=> op[c] = NoOp
          /\ pc[c] = "return" <=> answer[c] # Pending
    /\ primary \in [Clients -> {"ok", "notfound", "error"}]
    /\ loaded \in [Clients -> Entries]
    /\ answer \in [Clients -> Answer \cup {Pending}]
    /\ wrote \in [Clients -> BOOLEAN]
    /\ calls \in Nat
    /\ sure \subseteq Keys
    /\ seen \in [Clients -> SUBSET Content]

Init ==
    /\ ring = Empty
    /\ file = Empty
    /\ late = {}
    /\ op = [c \in Clients |-> NoOp]
    /\ pc = [c \in Clients |-> "idle"]
    /\ primary = [c \in Clients |-> "ok"]
    /\ loaded = [c \in Clients |-> Empty]
    /\ answer = [c \in Clients |-> Pending]
    /\ wrote = [c \in Clients |-> FALSE]
    /\ calls = 0
    /\ sure = Keys
    /\ seen = [c \in Clients |-> {}]

InFile(k) == IF file = Broken THEN None ELSE file[k]

(* The value of a key: what a Get finds when nothing fails. *)
Value == [k \in Keys |-> IF ring[k] # None THEN ring[k] ELSE InFile(k)]

(* The history variables after a step that gives up the keys "lost" and makes
   good the keys "settled". *)
History(lost, settled) ==
    /\ sure' = (sure \ lost) \cup settled
    /\ seen' = [c \in Clients |->
          IF op[c] = NoOp THEN {}
          ELSE IF op[c].key \in sure \cap sure' THEN seen[c] \cup {Value'[op[c].key]}
          ELSE Content]

Kind(c) == op[c].kind
Key(c) == op[c].key
Goto(c, l) == pc' = [pc EXCEPT ![c] = l]
Report(c, r) == Goto(c, "return") /\ answer' = [answer EXCEPT ![c] = r]

(* A key whose last request to the keyring is answered. *)
Quiet(k, calls_) == \A l \in calls_ : l.key # k

-----------------------------------------------------------------------------
(* The keyring of the system. *)

Call(c, o) ==
    /\ pc[c] = "idle"
    /\ calls < MaxCalls
    /\ calls' = calls + 1
    /\ op' = [op EXCEPT ![c] = o]
    /\ Goto(c, "ring")
    /\ seen' = [seen EXCEPT ![c] = IF o.key \in sure THEN {Value[o.key]} ELSE Content]
    /\ UNCHANGED <<store, primary, loaded, answer, wrote, sure>>

(* Mutant: a key the keyring does not have is not looked for in the file. *)
GetFromRingOnly(c) ==
    /\ pc[c] = "ring" /\ Kind(c) = "get"
    /\ Report(c, ring[Key(c)])
    /\ UNCHANGED <<store, op, primary, loaded, wrote, calls>>
    /\ History({}, {})

GetFromRing(c) ==
    /\ pc[c] = "ring" /\ Kind(c) = "get"
    /\ IF ring[Key(c)] # None
       THEN Report(c, ring[Key(c)]) /\ UNCHANGED primary
       ELSE /\ Goto(c, "load")
            /\ primary' = [primary EXCEPT ![c] = "notfound"]
            /\ UNCHANGED answer
    /\ UNCHANGED <<store, op, loaded, wrote, calls>>
    /\ History({}, {})

(* An answered Set settles the key, unless an earlier call may still come. *)
SetInRing(c) ==
    /\ pc[c] = "ring" /\ Kind(c) = "set"
    /\ ring' = [ring EXCEPT ![Key(c)] = op[c].val]
    /\ Report(c, "ok")
    /\ UNCHANGED <<file, late, op, primary, loaded, wrote, calls>>
    /\ History({}, IF Quiet(Key(c), late) THEN {Key(c)} ELSE {})

(* With an entry in the file too, that one is the value until it is removed. *)
RemoveFromRing(c) ==
    /\ pc[c] = "ring" /\ Kind(c) = "remove"
    /\ ring' = [ring EXCEPT ![Key(c)] = None]
    /\ primary' = [primary EXCEPT ![c] = IF ring[Key(c)] = None THEN "notfound" ELSE "ok"]
    /\ Goto(c, "load")
    /\ UNCHANGED <<file, late, op, loaded, answer, wrote, calls>>
    /\ History(IF ring[Key(c)] # None /\ InFile(Key(c)) # None THEN {Key(c)} ELSE {}, {})

(* An error of the service: an entry it holds is out of sight. *)
RingFails(c) ==
    /\ pc[c] = "ring"
    /\ primary' = [primary EXCEPT ![c] = "error"]
    /\ Goto(c, "load")
    /\ UNCHANGED <<store, op, loaded, answer, wrote, calls>>
    /\ History(IF ring[Key(c)] # None THEN {Key(c)} ELSE {}, {})

(* No answer in three seconds. *)
RingTimesOut(c) ==
    /\ pc[c] = "ring"
    /\ late' = IF Kind(c) = "get" THEN late ELSE late \cup {op[c]}
    /\ primary' = [primary EXCEPT ![c] = "error"]
    /\ Goto(c, "load")
    /\ UNCHANGED <<ring, file, op, loaded, answer, wrote, calls>>
    /\ History(IF Kind(c) # "get" \/ ring[Key(c)] # None THEN {Key(c)} ELSE {}, {})

CarriedOutLate(l) ==
    /\ l \in late
    /\ late' = late \ {l}
    /\ ring' = [ring EXCEPT ![l.key] = IF l.kind = "set" THEN l.val ELSE None]
    /\ UNCHANGED <<file, client, calls>>
    /\ History({}, {})

-----------------------------------------------------------------------------
(* The file. *)

(* fallbackStore.Remove, when the file has answered: two "not found" are one,
   and an error is no error. *)
EndRemove(c, fallback) ==
    Report(c, IF primary[c] = "notfound" /\ fallback = "notfound" THEN "notfound" ELSE "ok")

(* A Remove that both stores have answered settles the key. *)
Removed(c) ==
    IF primary[c] # "error" /\ Quiet(Key(c), late) THEN {Key(c)} ELSE {}

Loads(c) ==
    /\ pc[c] = "load"
    /\ file # Broken
    /\ UNCHANGED <<store, op, primary, wrote, calls>>
    /\ \/ /\ Kind(c) = "get"
          /\ Report(c, file[Key(c)])
          /\ UNCHANGED loaded
          /\ History({}, {})
       \/ /\ Kind(c) = "remove" /\ file[Key(c)] = None
          /\ EndRemove(c, "notfound")
          /\ UNCHANGED loaded
          /\ History({}, Removed(c))
       \/ /\ Kind(c) = "set" \/ (Kind(c) = "remove" /\ file[Key(c)] # None)
          /\ Goto(c, "save")
          /\ loaded' = [loaded EXCEPT ![c] = file]
          /\ UNCHANGED answer
          /\ History({}, {})

(* Keys a Remove reports as removed although the file may hold them. *)
LeftInFile(c) ==
    {k \in {Key(c)} : Kind(c) = "remove" /\ InFile(k) # None}

(* The file cannot be read, or does not parse, as while another process writes it. *)
LoadFails(c) ==
    /\ pc[c] = "load"
    /\ IF Kind(c) = "remove" THEN EndRemove(c, "error") ELSE Report(c, "error")
    /\ UNCHANGED <<store, op, primary, loaded, wrote, calls>>
    /\ History(LeftInFile(c), {})

(* Keys that suffer when the file breaks. *)
HeldByFile == {k \in Keys : InFile(k) # None}

Edited(c) ==
    [loaded[c] EXCEPT ![Key(c)] = IF Kind(c) = "set" THEN op[c].val ELSE None]

(* Keys another process has written since the file was read, and the key
   itself when the keyring has got an entry for it in the meantime. *)
Overwritten(c) ==
    {k \in Keys \ {Key(c)} : loaded[c][k] # InFile(k)}
        \cup {k \in {Key(c)} : ring[k] # None}

Saves(c) ==
    /\ pc[c] = "save"
    /\ file' = Edited(c)
    /\ IF Kind(c) = "set"
       THEN Report(c, "ok") /\ wrote' = [wrote EXCEPT ![c] = TRUE]
       ELSE EndRemove(c, "ok") /\ UNCHANGED wrote
    /\ UNCHANGED <<ring, late, op, primary, loaded, calls>>
    /\ History(Overwritten(c),
               IF Kind(c) = "remove" /\ ring[Key(c)] = None THEN Removed(c) ELSE {})

(* Two processes write at once and the longer text shows at the end. *)
SavesOver(c) ==
    /\ pc[c] = "save"
    /\ \E d \in Clients \ {c} : pc[d] = "save"
    /\ file' = Broken
    /\ IF Kind(c) = "set"
       THEN Report(c, "ok") /\ wrote' = [wrote EXCEPT ![c] = TRUE]
       ELSE EndRemove(c, "ok") /\ UNCHANGED wrote
    /\ UNCHANGED <<ring, late, op, primary, loaded, calls>>
    /\ History(HeldByFile \cup {Key(c)}, {})

(* The file cannot be opened, or the disk is full when it has been emptied. *)
SaveFails(c) ==
    /\ pc[c] = "save"
    /\ IF Kind(c) = "set" THEN Report(c, "error") ELSE EndRemove(c, "error")
    /\ UNCHANGED <<ring, late, op, primary, loaded, wrote, calls>>
    /\ \/ UNCHANGED file /\ History(LeftInFile(c), {})
       \/ file' = Broken /\ History(HeldByFile, {})

-----------------------------------------------------------------------------
Return(c) ==
    /\ pc[c] = "return"
    /\ Goto(c, "idle")
    /\ op' = [op EXCEPT ![c] = NoOp]
    /\ primary' = [primary EXCEPT ![c] = "ok"]
    /\ loaded' = [loaded EXCEPT ![c] = Empty]
    /\ answer' = [answer EXCEPT ![c] = Pending]
    /\ wrote' = [wrote EXCEPT ![c] = IF answer[c] = "killed" THEN FALSE ELSE @]
    /\ seen' = [seen EXCEPT ![c] = {}]
    /\ UNCHANGED <<store, calls, sure>>

(* The process is killed: a request to the keyring is on its way, a file that
   is being written is left empty. *)
Kill(c) ==
    /\ pc[c] \in {"ring", "load", "save"}
    /\ Report(c, "killed")
    /\ UNCHANGED <<ring, op, primary, loaded, wrote, calls>>
    /\ \/ /\ UNCHANGED <<file, late>>
          /\ History({}, {})
       \/ /\ pc[c] = "ring" /\ Kind(c) # "get"
          /\ late' = late \cup {op[c]}
          /\ UNCHANGED file
          /\ History({Key(c)}, {})
       \/ /\ pc[c] = "save"
          /\ file' = Broken
          /\ UNCHANGED late
          /\ History(HeldByFile, {})

Ring(c) ==
    \/ GetFromRing(c) \/ SetInRing(c) \/ RemoveFromRing(c)
    \/ RingFails(c) \/ RingTimesOut(c)

File(c) == Loads(c) \/ LoadFails(c) \/ Saves(c) \/ SavesOver(c) \/ SaveFails(c)

Next ==
    \/ \E c \in Clients, o \in Operation \ {NoOp} : Call(c, o)
    \/ \E c \in Clients : Ring(c) \/ File(c) \/ Return(c) \/ Kill(c)
    \/ \E l \in late : CarriedOutLate(l)

Spec == Init /\ [][Next]_vars

-----------------------------------------------------------------------------
Map == INSTANCE CredentialMap WITH value <- Value, reply <- answer

(* Whatever fails, each key behaves as an entry of a map until a failure
   concerns that very key: a call cut off, a keyring that fails while it holds
   the key, a Remove killed between the two stores, a file overwritten or
   broken while it alone holds the key.  A later answered Set or Remove makes
   the key good again. *)
ImplementsMap == Map!Spec
=============================================================================
