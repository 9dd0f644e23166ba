---------------------------- MODULE CredentialMap ----------------------------
(***************************************************************************)
(* What the packages that keep credentials expect of keyring.SecureStore:  *)
(* a map.  An operation that is answered has met the value it reports, at  *)
(* some moment between its call and its answer; only a Set or a Remove of  *)
(* the key that is under way changes a value; an error says nothing.       *)
(*                                                                         *)
(* The promise is made key by key, for the keys in "sure".  The store may  *)
(* give up a key and recover it: SecureStore says when.                    *)
(***************************************************************************)
CONSTANTS
    Clients, Keys, Values,
    None,    \* no value
    Pending  \* no reply yet

VARIABLES
    value,  \* of each key
    sure,   \* the keys for which the promise is kept
    op,     \* the operation of each client: kind, key, value
    seen,   \* the values the key of the operation has had since the call
    reply   \* what an operation reports

mapVars == <<value, sure, op, seen, reply>>

Content == Values \cup {None}
NoOp == [kind |-> "none"]
Operation == {NoOp}
    \cup [kind : {"get", "remove"}, key : Keys]
    \cup [kind : {"set"}, key : Keys, val : Values]

Busy(c) == op[c] # NoOp

Init ==
    /\ value = [k \in Keys |-> None]
    /\ sure = Keys
    /\ op = [c \in Clients |-> NoOp]
    /\ seen = [c \in Clients |-> {}]
    /\ reply = [c \in Clients |-> Pending]

Invoke(c, o) ==
    /\ ~Busy(c)
    /\ op' = [op EXCEPT ![c] = o]
    /\ seen' = [seen EXCEPT ![c] = IF o.key \in sure THEN {value[o.key]} ELSE Content]
    /\ UNCHANGED <<value, sure, reply>>

(* What an operation may report; one that is cut off reports nothing. *)
Justified(o, met, r) ==
    \/ r \in {"error", "killed"}
    \/ o.kind = "get" /\ r \in met
    \/ o.kind = "set" /\ r = "ok" /\ o.val \in met
    \/ o.kind = "remove" /\ r \in {"ok", "notfound"} /\ None \in met

(* The store works: a value that is sure changes only by an operation on its
   key that is under way, and replies are justified. *)
Work ==
    /\ value' \in [Keys -> Content]
    /\ sure' \in SUBSET Keys
    /\ \A k \in sure \cap sure' : value'[k] # value[k] => \E c \in Clients :
          \/ op[c].kind = "set" /\ op[c].key = k /\ op[c].val = value'[k]
          \/ op[c].kind = "remove" /\ op[c].key = k /\ value'[k] = None
    /\ seen' = [c \in Clients |->
          IF ~Busy(c) THEN {}
          ELSE IF op[c].key \in sure \cap sure' THEN seen[c] \cup {value'[op[c].key]}
          ELSE Content]
    /\ \A c \in Clients : reply'[c] # reply[c] =>
          Busy(c) /\ reply[c] = Pending /\ Justified(op[c], seen'[c], reply'[c])
    /\ UNCHANGED op

Return(c) ==
    /\ reply[c] # Pending
    /\ op' = [op EXCEPT ![c] = NoOp]
    /\ seen' = [seen EXCEPT ![c] = {}]
    /\ reply' = [reply EXCEPT ![c] = Pending]
    /\ UNCHANGED <<value, sure>>

Next ==
    \/ \E c \in Clients, o \in Operation \ {NoOp} : Invoke(c, o)
    \/ \E c \in Clients : Return(c)
    \/ Work

Spec == Init /\ [][Next]_mapVars
=============================================================================
