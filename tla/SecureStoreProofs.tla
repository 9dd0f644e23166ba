-------------------------- MODULE SecureStoreProofs --------------------------
(***************************************************************************)
(* For any processes, keys and values, and with every failure it models,   *)
(* SecureStore implements CredentialMap.  The inductive invariant says     *)
(* what an operation half done may rely on: what the file holds when the   *)
(* keyring had nothing has been the value since the call (GetInv), and a   *)
(* Remove that finds no entry left has seen the key without a value        *)
(* (RemoveInv).                                                            *)
(***************************************************************************)
EXTENDS SecureStore, TLAPS

Busy(c) == op[c] # NoOp

(* A request that may still be carried out is for a key given up. *)
LateInv == \A l \in late : l.key \notin sure

DoubtInv == \A c \in Clients : Busy(c) /\ Key(c) \notin sure => seen[c] = Content

GetInv == \A c \in Clients :
    pc[c] = "load" /\ Kind(c) = "get" => InFile(Key(c)) \in seen[c]

RemoveInv == \A c \in Clients :
    pc[c] \in {"load", "save"} /\ Kind(c) = "remove" =>
        None \in seen[c] \/ InFile(Key(c)) # None

SaveInv == \A c \in Clients : pc[c] = "save" => Kind(c) # "get"

IInv == TypeOK /\ LateInv /\ DoubtInv /\ GetInv /\ RemoveInv /\ SaveInv

-----------------------------------------------------------------------------
LEMMA OperationFacts ==
    ASSUME NEW o \in Operation \ {NoOp}
    PROVE  /\ o.key \in Keys
           /\ o.kind \in {"get", "set", "remove"}
           /\ o.kind = "set" => o.val \in Values
BY DEF Operation, NoOp

LEMMA BusyFacts ==
    ASSUME TypeOK, NEW c \in Clients, pc[c] # "idle"
    PROVE  /\ op[c] \in Operation \ {NoOp}
           /\ Key(c) \in Keys
           /\ Kind(c) \in {"get", "set", "remove"}
           /\ Kind(c) = "set" => op[c].val \in Values
<1>1. op[c] \in Operation \ {NoOp}
    BY DEF TypeOK
<1> QED
    BY <1>1, OperationFacts DEF Key, Kind

LEMMA ValueFacts ==
    ASSUME TypeOK
    PROVE  /\ Value \in Entries
           /\ \A k \in Keys : InFile(k) \in Content
           /\ \A k \in Keys : Value[k] = IF ring[k] # None THEN ring[k] ELSE InFile(k)
BY DEF TypeOK, Value, InFile, Entries, Content

LEMMA ValueFactsNext ==
    ASSUME ring' \in Entries, file' \in Entries \cup {Broken}
    PROVE  /\ Value' \in Entries
           /\ \A k \in Keys : InFile(k)' \in Content
           /\ \A k \in Keys : Value'[k] = IF ring'[k] # None THEN ring'[k] ELSE InFile(k)'
BY DEF Value, InFile, Entries, Content

(* What a step that is not a call or a return does to the history. *)
LEMMA HistoryFacts ==
    ASSUME TypeOK, ring' \in Entries, file' \in Entries \cup {Broken},
           NEW lost, NEW settled \in SUBSET Keys, History(lost, settled)
    PROVE  /\ sure' \subseteq Keys
           /\ seen' \in [Clients -> SUBSET Content]
           /\ \A k \in sure' : k \in sure \ lost \/ k \in settled
           /\ \A c \in Clients : Busy(c) => seen[c] \subseteq seen'[c]
           /\ \A c \in Clients : Busy(c) /\ Key(c) \notin sure \cap sure' => seen'[c] = Content
           /\ \A c \in Clients : Busy(c) /\ Key(c) \in sure \cap sure' => Value'[Key(c)] \in seen'[c]
<1>1. sure' \subseteq Keys /\ \A k \in sure' : k \in sure \ lost \/ k \in settled
    BY DEF History, TypeOK
<1>2. Value' \in Entries
    BY ValueFactsNext
<1>3. ASSUME NEW c \in Clients, Busy(c)
      PROVE  /\ Key(c) \in Keys
             /\ seen'[c] = IF Key(c) \in sure \cap sure'
                           THEN seen[c] \cup {Value'[Key(c)]} ELSE Content
    <2>1. Key(c) \in Keys
        BY <1>3, OperationFacts DEF TypeOK, Busy, Key
    <2> QED
        BY <1>3, <2>1 DEF History, Busy, Key
<1>4. \A c \in Clients : ~Busy(c) => seen'[c] = {}
    BY DEF History, Busy
<1>5. seen' \in [Clients -> SUBSET Content]
    <2>1. seen' = [c \in Clients |-> seen'[c]]
        BY DEF History
    <2>2. ASSUME NEW c \in Clients PROVE seen'[c] \in SUBSET Content
        <3>1. CASE ~Busy(c)
            BY <3>1, <1>4
        <3>2. CASE Busy(c)
            <4>1. Value'[Key(c)] \in Content
                BY <1>2, <1>3, <3>2 DEF Entries
            <4>2. seen[c] \in SUBSET Content
                BY DEF TypeOK
            <4> QED
                BY <4>1, <4>2, <1>3, <3>2
        <3> QED
            BY <3>1, <3>2
    <2> QED
        BY <2>1, <2>2
<1>6. ASSUME NEW c \in Clients, Busy(c)
      PROVE  /\ seen[c] \subseteq seen'[c]
             /\ Key(c) \notin sure \cap sure' => seen'[c] = Content
             /\ Key(c) \in sure \cap sure' => Value'[Key(c)] \in seen'[c]
    <2>1. seen[c] \subseteq Content
        BY DEF TypeOK
    <2> QED
        BY <2>1, <1>3, <1>6
<1> QED
    BY <1>1, <1>5, <1>6

(* A step of the store that changes a sure key only as an operation under way
   asks, that never hides an entry of the file behind one of the keyring, and
   that sends an operation to the file with nothing for it in the keyring. *)
LEMMA WorkStep ==
    ASSUME IInv, TypeOK', op' = op,
           NEW lost, NEW settled \in SUBSET Keys, History(lost, settled),
           \A l \in late' : l.key \notin sure',
           \A k \in sure \cap sure' : InFile(k)' # InFile(k) => ring'[k] = None,
           \A d \in Clients : pc'[d] \in {"load", "save"} /\ pc[d] \notin {"load", "save"} =>
               pc'[d] = "load" /\ (ring'[Key(d)] = None \/ Key(d) \notin sure'),
           \A d \in Clients : pc'[d] = "load" /\ pc[d] # "load" => pc[d] # "save",
           \A d \in Clients : pc'[d] = "save" /\ pc[d] # "save" => Kind(d) # "get",
           \A k \in sure \cap sure' : Value'[k] # Value[k] => \E c \in Clients :
               \/ op[c].kind = "set" /\ op[c].key = k /\ op[c].val = Value'[k]
               \/ op[c].kind = "remove" /\ op[c].key = k /\ Value'[k] = None,
           \A c \in Clients : answer'[c] # answer[c] =>
               Busy(c) /\ answer[c] = Pending /\ Map!Justified(op[c], seen'[c], answer'[c])
    PROVE  IInv' /\ Map!Work
<1> USE DEF IInv
<1>1. ring' \in Entries /\ file' \in Entries \cup {Broken}
    BY DEF TypeOK
<1>2. /\ sure' \subseteq Keys
      /\ \A c \in Clients : Busy(c) => seen[c] \subseteq seen'[c]
      /\ \A c \in Clients : Busy(c) /\ Key(c) \notin sure \cap sure' => seen'[c] = Content
      /\ \A c \in Clients : Busy(c) /\ Key(c) \in sure \cap sure' => Value'[Key(c)] \in seen'[c]
    BY <1>1, HistoryFacts
<1>3. /\ Value' \in Entries
      /\ \A k \in Keys : InFile(k)' \in Content
      /\ \A k \in Keys : Value'[k] = IF ring'[k] # None THEN ring'[k] ELSE InFile(k)'
    BY <1>1, ValueFactsNext
<1>4. LateInv'
    BY DEF LateInv
<1>5. DoubtInv'
    BY <1>2 DEF DoubtInv, Busy, Key
<1>6. ASSUME NEW d \in Clients, pc'[d] \in {"load", "save"}
      PROVE  Busy(d) /\ Key(d) \in Keys /\ Key(d)' = Key(d) /\ Kind(d)' = Kind(d)
    <2>1. op'[d] # NoOp /\ op'[d] \in Operation
        BY <1>6 DEF TypeOK
    <2> QED
        BY <2>1, OperationFacts DEF Busy, Key, Kind
<1>7. GetInv'
    <2> SUFFICES ASSUME NEW d \in Clients, pc'[d] = "load", Kind(d)' = "get"
                 PROVE  (InFile(Key(d)) \in seen[d])'
        BY DEF GetInv
    <2>1. Busy(d) /\ Key(d) \in Keys /\ Key(d)' = Key(d) /\ Kind(d) = "get"
        BY <1>6
    <2> PICK k \in Keys : k = Key(d)
        BY <2>1
    <2>2. (InFile(Key(d)))' = InFile(k)'
        BY <2>1 DEF InFile
    <2>3. SUFFICES InFile(k)' \in seen'[d]
        BY <2>2
    <2>4. CASE k \notin sure \cap sure'
        BY <2>4, <2>1, <1>2, <1>3
    <2>5. CASE k \in sure \cap sure' /\ ring'[k] = None
        BY <2>5, <2>1, <1>2, <1>3
    <2>6. CASE k \in sure \cap sure' /\ ring'[k] # None
        <3>1. InFile(k)' = InFile(k)
            BY <2>6
        <3>2. pc[d] = "load"
            BY <2>6
        <3>3. InFile(k) \in seen[d]
            BY <3>2, <2>1 DEF GetInv
        <3> QED
            BY <3>1, <3>3, <2>1, <1>2
    <2> QED
        BY <2>4, <2>5, <2>6
<1>8. RemoveInv'
    <2> SUFFICES ASSUME NEW d \in Clients, pc'[d] \in {"load", "save"}, Kind(d)' = "remove"
                 PROVE  (None \in seen[d] \/ InFile(Key(d)) # None)'
        BY DEF RemoveInv
    <2>1. Busy(d) /\ Key(d) \in Keys /\ Key(d)' = Key(d) /\ Kind(d) = "remove"
        BY <1>6
    <2> PICK k \in Keys : k = Key(d)
        BY <2>1
    <2>2. (InFile(Key(d)))' = InFile(k)'
        BY <2>1 DEF InFile
    <2>3. SUFFICES None \in seen'[d] \/ InFile(k)' # None
        BY <2>2
    <2>4. CASE k \notin sure \cap sure'
        BY <2>4, <2>1, <1>2 DEF Content
    <2>5. CASE k \in sure \cap sure' /\ ring'[k] = None
        BY <2>5, <2>1, <1>2, <1>3
    <2>6. CASE k \in sure \cap sure' /\ ring'[k] # None
        <3>1. InFile(k)' = InFile(k)
            BY <2>6
        <3>2. pc[d] \in {"load", "save"}
            BY <2>6
        <3>3. None \in seen[d] \/ InFile(k) # None
            BY <3>2, <2>1 DEF RemoveInv
        <3> QED
            BY <3>1, <3>3, <2>1, <1>2
    <2> QED
        BY <2>4, <2>5, <2>6
<1>9. SaveInv'
    BY <1>6 DEF SaveInv
<1>10. Map!Work
    <2>1. seen' = [c \in Clients |->
              IF ~Map!Busy(c) THEN {}
              ELSE IF op[c].key \in sure \cap sure' THEN seen[c] \cup {Value'[op[c].key]}
              ELSE Map!Content]
        BY DEF History, Map!Busy, Map!NoOp, NoOp, Map!Content, Content
    <2>2. Value' \in [Keys -> Map!Content]
        BY <1>3 DEF Entries, Map!Content, Content
    <2>3. \A c \in Clients : answer'[c] # answer[c] =>
              Map!Busy(c) /\ answer[c] = Pending /\ Map!Justified(op[c], seen'[c], answer'[c])
        BY DEF Busy, Map!Busy, Map!NoOp, NoOp
    <2> QED
        BY <2>1, <2>2, <2>3, <1>2 DEF Map!Work
<1> QED
    BY <1>4, <1>5, <1>7, <1>8, <1>9, <1>10

(* The same for a step of one client. *)
LEMMA ClientStep ==
    ASSUME IInv, TypeOK', op' = op, NEW c \in Clients,
           NEW lost, NEW settled \in SUBSET Keys, History(lost, settled),
           \A d \in Clients \ {c} : pc'[d] = pc[d] /\ answer'[d] = answer[d],
           pc[c] \in {"ring", "load", "save"},
           \/ pc'[c] = "return"
           \/ pc[c] = "load" /\ pc'[c] = "save" /\ Kind(c) # "get"
           \/ pc[c] = "ring" /\ pc'[c] = "load"
                 /\ (ring'[Key(c)] = None \/ Key(c) \in lost \ settled),
           \A l \in late' : l.key \notin settled /\ (l \in late \/ l.key \in lost),
           \A k \in sure \cap sure' : InFile(k)' # InFile(k) => ring'[k] = None,
           \A k \in sure \cap sure' : Value'[k] # Value[k] =>
               \/ Kind(c) = "set" /\ Key(c) = k /\ op[c].val = Value'[k]
               \/ Kind(c) = "remove" /\ Key(c) = k /\ Value'[k] = None,
           answer'[c] # answer[c] => Map!Justified(op[c], seen'[c], answer'[c])
    PROVE  IInv' /\ Map!Work
<1>1. Busy(c) /\ answer[c] = Pending
    BY DEF IInv, TypeOK, Busy
<1>2. \A k \in sure' : k \in sure \ lost \/ k \in settled
    BY DEF History
<1>3. \A l \in late' : l.key \notin sure'
    BY <1>2 DEF IInv, LateInv
<1>4. \A d \in Clients : pc'[d] \in {"load", "save"} /\ pc[d] \notin {"load", "save"} =>
          pc'[d] = "load" /\ (ring'[Key(d)] = None \/ Key(d) \notin sure')
    BY <1>2
<1>5. /\ \A d \in Clients : pc'[d] = "load" /\ pc[d] # "load" => pc[d] # "save"
      /\ \A d \in Clients : pc'[d] = "save" /\ pc[d] # "save" => Kind(d) # "get"
    OBVIOUS
<1>6. \A k \in sure \cap sure' : Value'[k] # Value[k] => \E d \in Clients :
          \/ op[d].kind = "set" /\ op[d].key = k /\ op[d].val = Value'[k]
          \/ op[d].kind = "remove" /\ op[d].key = k /\ Value'[k] = None
    BY DEF Kind, Key
<1>7. \A d \in Clients : answer'[d] # answer[d] =>
          Busy(d) /\ answer[d] = Pending /\ Map!Justified(op[d], seen'[d], answer'[d])
    BY <1>1
<1> QED
    BY <1>3, <1>4, <1>5, <1>6, <1>7, WorkStep

LEMMA SameStore ==
    ASSUME ring' = ring, file' = file
    PROVE  Value' = Value /\ \A k \in Keys : InFile(k)' = InFile(k)
BY DEF Value, InFile

(* What a client under way knows of the values its key has had. *)
LEMMA SeenFacts ==
    ASSUME IInv, TypeOK', NEW c \in Clients, pc[c] \in {"ring", "load", "save"},
           NEW lost, NEW settled \in SUBSET Keys, History(lost, settled)
    PROVE  /\ sure' \subseteq Keys
           /\ seen' \in [Clients -> SUBSET Content]
           /\ \A k \in sure' : k \in sure \ lost \/ k \in settled
           /\ seen[c] \subseteq seen'[c]
           /\ Key(c) \notin sure \cap sure' => seen'[c] = Content
           /\ Key(c) \in sure \cap sure' => Value'[Key(c)] \in seen'[c]
           /\ \A k \in Keys : Value'[k] = IF ring'[k] # None THEN ring'[k] ELSE InFile(k)'
           /\ \A k \in Keys : Value[k] = IF ring[k] # None THEN ring[k] ELSE InFile(k)
           /\ \A k \in Keys : InFile(k) \in Content /\ InFile(k)' \in Content
<1>1. ring' \in Entries /\ file' \in Entries \cup {Broken} /\ TypeOK /\ Busy(c)
    BY DEF IInv, TypeOK, Busy
<1> QED
    BY <1>1, HistoryFacts, ValueFacts, ValueFactsNext

-----------------------------------------------------------------------------
LEMMA GetFromRingStep ==
    ASSUME IInv, NEW c \in Clients, GetFromRing(c)
    PROVE  IInv' /\ Map!Work
<1> USE DEF GetFromRing
<1>1. TypeOK /\ Key(c) \in Keys
    BY BusyFacts DEF IInv
<1>2. Value' = Value /\ \A k \in Keys : InFile(k)' = InFile(k)
    BY SameStore DEF store
<1>3. seen' \in [Clients -> SUBSET Content] /\ sure' \subseteq Keys
    BY <1>1, HistoryFacts DEF TypeOK, store
<1>4. ring[Key(c)] # None => ring[Key(c)] \in Answer /\ ring[Key(c)] # Pending
    BY <1>1, StoreAssumption DEF TypeOK, Entries, Answer
<1>5. TypeOK'
    BY <1>1, <1>3, <1>4 DEF TypeOK, Report, Goto, store
<1>6. answer'[c] # answer[c] => Map!Justified(op[c], seen'[c], answer'[c])
    <2> SUFFICES ASSUME answer'[c] # answer[c]
                 PROVE  answer'[c] \in seen'[c]
        BY DEF Map!Justified, Kind
    <2>1. answer'[c] = ring[Key(c)] /\ ring[Key(c)] # None
        BY <1>1 DEF TypeOK, Report
    <2>2. Value'[Key(c)] = ring[Key(c)] /\ ring[Key(c)] \in Content
        BY <1>1, <1>2, <2>1, ValueFacts DEF TypeOK, Entries
    <2> QED
        BY <1>5, <2>1, <2>2, SeenFacts
<1> QED
    BY <1>1, <1>2, <1>5, <1>6, ClientStep DEF TypeOK, Report, Goto, store

LEMMA SetInRingStep ==
    ASSUME IInv, NEW c \in Clients, SetInRing(c)
    PROVE  IInv' /\ Map!Work
<1> USE DEF SetInRing
<1> DEFINE settled == IF Quiet(Key(c), late) THEN {Key(c)} ELSE {}
<1>1. TypeOK /\ Key(c) \in Keys /\ op[c].val \in Values
    BY BusyFacts DEF IInv
<1>2. settled \in SUBSET Keys
    BY <1>1
<1>3. ring' \in Entries /\ file' = file
    BY <1>1 DEF TypeOK, Entries, Content
<1>4. \A k \in Keys : InFile(k)' = InFile(k)
    BY <1>3 DEF InFile
<1>5. seen' \in [Clients -> SUBSET Content] /\ sure' \subseteq Keys
    BY <1>1, <1>2, <1>3, HistoryFacts DEF TypeOK
<1>6. TypeOK'
    BY <1>1, <1>3, <1>5, StoreAssumption DEF TypeOK, Report, Goto, Answer
<1>7. \A k \in Keys : Value'[k] # Value[k] => k = Key(c) /\ Value'[k] = op[c].val
    <2> SUFFICES ASSUME NEW k \in Keys, Value'[k] # Value[k]
                 PROVE  k = Key(c) /\ Value'[k] = op[c].val
        OBVIOUS
    <2>1. /\ Value'[k] = IF ring'[k] # None THEN ring'[k] ELSE InFile(k)'
          /\ Value[k] = IF ring[k] # None THEN ring[k] ELSE InFile(k)
        BY <1>1, <1>3, ValueFacts, ValueFactsNext DEF TypeOK
    <2>2. k = Key(c)
        BY <1>1, <1>4, <2>1 DEF TypeOK, Entries
    <2>3. ring'[k] = op[c].val
        BY <1>1, <2>2 DEF TypeOK, Entries
    <2> QED
        BY <1>1, <2>1, <2>2, <2>3, StoreAssumption
<1>8. Value'[Key(c)] = op[c].val /\ op[c].val \in Content
    BY <1>1, <1>2, <1>6, SeenFacts, StoreAssumption DEF TypeOK, Entries, Content
<1>9. op[c].val \in seen'[c]
    BY <1>2, <1>6, <1>8, SeenFacts
<1>10. answer'[c] # answer[c] => Map!Justified(op[c], seen'[c], answer'[c])
    BY <1>1, <1>9 DEF Map!Justified, Kind, Report, TypeOK
<1>11. \A l \in late' : l.key \notin settled /\ l \in late
    BY DEF Quiet
<1>12. \A k \in sure \cap sure' : InFile(k)' # InFile(k) => ring'[k] = None
    BY <1>4, <1>5
<1>13. pc'[c] = "return" /\ \A d \in Clients \ {c} : pc'[d] = pc[d] /\ answer'[d] = answer[d]
    BY <1>1 DEF TypeOK, Report, Goto
<1> HIDE DEF settled
<1>14. History({}, settled)
    BY DEF settled
<1> QED
    BY <1>1, <1>2, <1>5, <1>6, <1>7, <1>10, <1>11, <1>12, <1>13, <1>14, ClientStep

LEMMA RemoveFromRingStep ==
    ASSUME IInv, NEW c \in Clients, RemoveFromRing(c)
    PROVE  IInv' /\ Map!Work
<1> USE DEF RemoveFromRing
<1> DEFINE lost == IF ring[Key(c)] # None /\ InFile(Key(c)) # None THEN {Key(c)} ELSE {}
<1>1. TypeOK /\ Key(c) \in Keys
    BY BusyFacts DEF IInv
<1>2. ring' \in Entries /\ ring'[Key(c)] = None /\ file' = file
    BY <1>1 DEF TypeOK, Entries, Content
<1>3. \A k \in Keys : InFile(k)' = InFile(k)
    BY <1>2 DEF InFile
<1>4. History(lost, {})
    OBVIOUS
<1>5. seen' \in [Clients -> SUBSET Content] /\ sure' \subseteq Keys
    BY <1>1, <1>2, HistoryFacts DEF TypeOK
<1>6. TypeOK'
    BY <1>1, <1>2, <1>5 DEF TypeOK, Goto
<1>7. \A k \in sure \cap sure' : Value'[k] # Value[k] => k = Key(c) /\ Value'[k] = None
    <2> SUFFICES ASSUME NEW k \in sure \cap sure', Value'[k] # Value[k]
                 PROVE  k = Key(c) /\ Value'[k] = None
        OBVIOUS
    <2>1. k \in Keys /\ k \notin lost
        BY <1>4, <1>6, SeenFacts
    <2>2. /\ Value'[k] = IF ring'[k] # None THEN ring'[k] ELSE InFile(k)'
          /\ Value[k] = IF ring[k] # None THEN ring[k] ELSE InFile(k)
        BY <1>4, <1>6, <2>1, SeenFacts
    <2>3. k = Key(c)
        BY <1>1, <1>3, <2>1, <2>2 DEF TypeOK, Entries
    <2> QED
        BY <1>2, <1>3, <2>1, <2>2, <2>3
<1>8. \A l \in late' : l \in late
    OBVIOUS
<1>9. \A k \in sure \cap sure' : InFile(k)' = InFile(k)
    BY <1>3, <1>5
<1>10. /\ pc[c] = "ring" /\ pc'[c] = "load"
       /\ \A d \in Clients \ {c} : pc'[d] = pc[d]
       /\ answer' = answer
    BY <1>1 DEF TypeOK, Goto
<1> HIDE DEF lost
<1> QED
    BY <1>1, <1>2, <1>4, <1>6, <1>7, <1>8, <1>9, <1>10, ClientStep

(* A client whose keyring call failed. *)
LEMMA RingFailsStep ==
    ASSUME IInv, NEW c \in Clients, RingFails(c) \/ RingTimesOut(c)
    PROVE  IInv' /\ Map!Work
<1>1. TypeOK /\ Key(c) \in Keys /\ op[c] \in Operation \ {NoOp} /\ pc[c] = "ring"
    BY BusyFacts DEF IInv, RingFails, RingTimesOut
<1>2. PICK lost :
          /\ History(lost, {})
          /\ ring[Key(c)] # None => Key(c) \in lost
          /\ late' = late \/ (late' = late \cup {op[c]} /\ Key(c) \in lost)
    <2>1. CASE RingFails(c)
        <3> WITNESS IF ring[Key(c)] # None THEN {Key(c)} ELSE {}
        <3> QED
            BY <2>1 DEF RingFails, store
    <2>2. CASE RingTimesOut(c)
        <3> WITNESS IF Kind(c) # "get" \/ ring[Key(c)] # None THEN {Key(c)} ELSE {}
        <3> QED
            BY <2>2 DEF RingTimesOut
    <2> QED
        BY <2>1, <2>2
<1>3. /\ ring' = ring /\ file' = file
      /\ op' = op /\ loaded' = loaded /\ answer' = answer /\ wrote' = wrote /\ calls' = calls
      /\ primary' = [primary EXCEPT ![c] = "error"]
      /\ pc' = [pc EXCEPT ![c] = "load"]
    BY DEF RingFails, RingTimesOut, store, Goto
<1>4. Value' = Value /\ \A k \in Keys : InFile(k)' = InFile(k)
    BY <1>3, SameStore
<1>5. seen' \in [Clients -> SUBSET Content] /\ sure' \subseteq Keys
    BY <1>1, <1>2, <1>3, HistoryFacts DEF TypeOK
<1>6. TypeOK'
    BY <1>1, <1>2, <1>3, <1>5 DEF TypeOK
<1>7. \A l \in late' : l \in late \/ l.key \in lost
    BY <1>2 DEF Key
<1>8. pc'[c] = "load" /\ \A d \in Clients \ {c} : pc'[d] = pc[d]
    BY <1>1, <1>3 DEF TypeOK
<1> QED
    BY <1>1, <1>2, <1>3, <1>4, <1>5, <1>6, <1>7, <1>8, ClientStep

LEMMA CarriedOutLateStep ==
    ASSUME IInv, NEW l \in late, CarriedOutLate(l)
    PROVE  IInv' /\ Map!Work
<1> USE DEF CarriedOutLate
<1>1. TypeOK /\ l.key \in Keys /\ l.key \notin sure
      /\ (l.kind = "set" => l.val \in Values)
    BY OperationFacts DEF IInv, TypeOK, LateInv
<1>2. ring' \in Entries /\ file' = file
    BY <1>1 DEF TypeOK, Entries, Content
<1>3. \A k \in Keys : InFile(k)' = InFile(k)
    BY <1>2 DEF InFile
<1>4. seen' \in [Clients -> SUBSET Content] /\ sure' = sure
    BY <1>1, <1>2, HistoryFacts DEF TypeOK, History
<1>5. TypeOK'
    BY <1>1, <1>2, <1>4 DEF TypeOK, client
<1>6. \A k \in sure : Value'[k] = Value[k]
    BY <1>1, <1>2, <1>3, ValueFacts, ValueFactsNext DEF TypeOK, Entries
<1>7. \A m \in late' : m.key \notin sure'
    BY <1>4 DEF IInv, LateInv
<1>8. \A k \in sure \cap sure' : InFile(k)' = InFile(k)
    BY <1>1, <1>3 DEF TypeOK
<1>9. op' = op /\ pc' = pc /\ answer' = answer /\ History({}, {})
    BY DEF client
<1> QED
    BY <1>4, <1>5, <1>6, <1>7, <1>8, <1>9, WorkStep

-----------------------------------------------------------------------------
(* A step that ends an operation with the report r. *)
LEMMA ReportStep ==
    ASSUME IInv, NEW c \in Clients, pc[c] \in {"ring", "load", "save"},
           NEW r \in Answer, Report(c, r),
           NEW lost, NEW settled \in SUBSET Keys, History(lost, settled),
           UNCHANGED <<ring, op, primary, loaded, calls>>,
           file' \in Entries \cup {Broken}, wrote' \in [Clients -> BOOLEAN],
           late' = late \/ (late' = late \cup {op[c]} /\ Key(c) \in lost),
           \A l \in late' : l.key \notin settled,
           \A k \in sure \cap sure' : InFile(k)' # InFile(k) => ring[k] = None,
           \A k \in sure \cap sure' : Value'[k] # Value[k] =>
               \/ Kind(c) = "set" /\ Key(c) = k /\ op[c].val = Value'[k]
               \/ Kind(c) = "remove" /\ Key(c) = k /\ Value'[k] = None,
           Map!Justified(op[c], seen'[c], r)
    PROVE  IInv' /\ Map!Work
<1>1. TypeOK /\ Key(c) \in Keys /\ op[c] \in Operation \ {NoOp}
    BY BusyFacts DEF IInv
<1>2. seen' \in [Clients -> SUBSET Content] /\ sure' \subseteq Keys
    BY <1>1, HistoryFacts DEF TypeOK
<1>3. TypeOK'
    BY <1>1, <1>2, StoreAssumption DEF TypeOK, Report, Goto
<1>4. \A l \in late' : l \in late \/ l.key \in lost
    BY DEF Key
<1>5. /\ pc'[c] = "return" /\ answer'[c] = r
      /\ \A d \in Clients \ {c} : pc'[d] = pc[d] /\ answer'[d] = answer[d]
    BY <1>1 DEF TypeOK, Report, Goto
<1> QED
    BY <1>3, <1>4, <1>5, ClientStep

(* And one that changes neither store. *)
LEMMA QuietReportStep ==
    ASSUME IInv, NEW c \in Clients, pc[c] \in {"ring", "load", "save"},
           NEW r \in Answer, Report(c, r),
           NEW lost, NEW settled \in SUBSET Keys, History(lost, settled),
           UNCHANGED <<ring, file, op, primary, loaded, wrote, calls>>,
           late' = late \/ (late' = late \cup {op[c]} /\ Key(c) \in lost),
           \A l \in late' : l.key \notin settled,
           Map!Justified(op[c], seen'[c], r)
    PROVE  IInv' /\ Map!Work
<1>1. file' \in Entries \cup {Broken} /\ wrote' \in [Clients -> BOOLEAN] /\ sure \subseteq Keys
    BY DEF IInv, TypeOK
<1>2. Value' = Value /\ \A k \in Keys : InFile(k)' = InFile(k)
    BY SameStore
<1> QED
    BY <1>1, <1>2, ReportStep

(* What a Remove that saw the file may rely on. *)
LEMMA RemoveJustified ==
    ASSUME IInv, NEW c \in Clients, pc[c] \in {"load", "save"},
           ring' \in Entries, file' \in Entries \cup {Broken},
           NEW lost, NEW settled \in SUBSET Keys, History(lost, settled),
           Kind(c) = "remove",
           InFile(Key(c)) # None => Key(c) \in lost \ settled
    PROVE  None \in seen'[c]
<1>1. TypeOK /\ Busy(c) /\ Key(c) \in Keys
    BY BusyFacts DEF IInv, TypeOK, Busy
<1>2. CASE None \in seen[c]
    BY <1>1, <1>2, HistoryFacts
<1>3. CASE InFile(Key(c)) # None
    <2>1. Key(c) \notin sure'
        BY <1>1, <1>3, HistoryFacts
    <2> QED
        BY <1>1, <2>1, HistoryFacts DEF Content
<1> QED
    BY <1>2, <1>3 DEF IInv, RemoveInv

LEMMA EndRemoveFacts ==
    ASSUME NEW c, NEW fallback, EndRemove(c, fallback)
    PROVE  \E r \in {"ok", "notfound"} : Report(c, r)
BY DEF EndRemove

LEMMA LoadsStep ==
    ASSUME IInv, NEW c \in Clients, Loads(c)
    PROVE  IInv' /\ Map!Work
<1>1. /\ TypeOK /\ Key(c) \in Keys /\ op[c] \in Operation \ {NoOp} /\ pc[c] = "load"
      /\ file \in Entries /\ InFile(Key(c)) = file[Key(c)]
    BY BusyFacts DEF IInv, Loads, TypeOK, InFile
<1>2. UNCHANGED <<ring, file, late, op, primary, wrote, calls>>
    BY DEF Loads, store
<1>3. CASE /\ Kind(c) = "get" /\ Report(c, file[Key(c)])
           /\ UNCHANGED loaded /\ History({}, {})
    <2>1. file[Key(c)] \in seen[c]
        BY <1>1, <1>3 DEF IInv, GetInv
    <2>2. file[Key(c)] \in seen'[c]
        BY <1>1, <1>2, <1>3, <2>1, HistoryFacts DEF TypeOK, Busy
    <2>3. file[Key(c)] \in Answer
        BY <1>1 DEF Entries, Answer
    <2>4. Map!Justified(op[c], seen'[c], file[Key(c)])
        BY <1>3, <2>2 DEF Map!Justified, Kind
    <2> QED
        BY <1>1, <1>2, <1>3, <2>3, <2>4, QuietReportStep
<1>4. CASE /\ Kind(c) = "remove" /\ file[Key(c)] = None /\ EndRemove(c, "notfound")
           /\ UNCHANGED loaded /\ History({}, Removed(c))
    <2>1. Removed(c) \in SUBSET Keys /\ \A l \in late' : l.key \notin Removed(c)
        BY <1>1, <1>2 DEF Removed, Quiet
    <2>2. None \in seen'[c]
        BY <1>1, <1>2, <1>4, <2>1, RemoveJustified DEF TypeOK
    <2>3. PICK r \in {"ok", "notfound"} : Report(c, r)
        BY <1>4, EndRemoveFacts
    <2>4. Map!Justified(op[c], seen'[c], r)
        BY <1>4, <2>2, <2>3 DEF Map!Justified, Kind
    <2>5. r \in Answer
        BY <2>3 DEF Answer
    <2> QED
        BY <1>1, <1>2, <1>4, <2>1, <2>3, <2>4, <2>5, QuietReportStep
<1>5. CASE /\ Kind(c) # "get"
           /\ Goto(c, "save") /\ loaded' = [loaded EXCEPT ![c] = file]
           /\ UNCHANGED answer /\ History({}, {})
    <2>1. seen' \in [Clients -> SUBSET Content] /\ sure' \subseteq Keys
        BY <1>1, <1>2, <1>5, HistoryFacts DEF TypeOK
    <2>2. TypeOK'
        BY <1>1, <1>2, <1>5, <2>1 DEF TypeOK, Goto
    <2>3. Value' = Value /\ \A k \in Keys : InFile(k)' = InFile(k)
        BY <1>2, SameStore
    <2>4. /\ pc'[c] = "save" /\ answer' = answer
          /\ \A d \in Clients \ {c} : pc'[d] = pc[d]
        BY <1>1, <1>5 DEF TypeOK, Goto
    <2> QED
        BY <1>1, <1>2, <1>5, <2>1, <2>2, <2>3, <2>4, ClientStep
<1> QED
    BY <1>3, <1>4, <1>5 DEF Loads

(* An operation that the file answers with an error. *)
LEMMA ErrorJustified ==
    ASSUME IInv, NEW c \in Clients, pc[c] \in {"load", "save"},
           ring' \in Entries, file' \in Entries \cup {Broken},
           NEW lost, History(lost, {}),
           Kind(c) = "remove" /\ InFile(Key(c)) # None => Key(c) \in lost,
           IF Kind(c) = "remove" THEN EndRemove(c, "error") ELSE Report(c, "error")
    PROVE  \E r \in Answer : Report(c, r) /\ Map!Justified(op[c], seen'[c], r)
<1>1. CASE Kind(c) = "remove"
    <2>1. None \in seen'[c]
        BY <1>1, RemoveJustified
    <2>2. PICK r \in {"ok", "notfound"} : Report(c, r)
        BY <1>1, EndRemoveFacts
    <2> QED
        BY <1>1, <2>1, <2>2 DEF Map!Justified, Kind, Answer
<1>2. CASE Kind(c) # "remove"
    BY <1>2 DEF Map!Justified, Answer
<1> QED
    BY <1>1, <1>2

LEMMA LoadFailsStep ==
    ASSUME IInv, NEW c \in Clients, LoadFails(c)
    PROVE  IInv' /\ Map!Work
<1>1. /\ pc[c] = "load"
      /\ UNCHANGED <<ring, file, late, op, primary, loaded, wrote, calls>>
      /\ History(LeftInFile(c), {})
    BY DEF LoadFails, store
<1>2. TypeOK /\ Key(c) \in Keys
    BY <1>1, BusyFacts DEF IInv
<1>3. Kind(c) = "remove" /\ InFile(Key(c)) # None => Key(c) \in LeftInFile(c)
    BY DEF LeftInFile
<1>4. PICK r \in Answer : Report(c, r) /\ Map!Justified(op[c], seen'[c], r)
    BY <1>1, <1>2, <1>3, ErrorJustified DEF LoadFails, TypeOK
<1> QED
    BY <1>1, <1>4, QuietReportStep

(* A file that breaks gives up the keys it holds, and no other value changes. *)
LEMMA BreakFacts ==
    ASSUME IInv, NEW c \in Clients, pc[c] = "save", file' = Broken, ring' = ring,
           NEW lost, HeldByFile \subseteq lost, History(lost, {})
    PROVE  /\ \A k \in sure \cap sure' : InFile(k)' = InFile(k)
           /\ \A k \in sure \cap sure' : Value'[k] = Value[k]
           /\ \A k \in Keys : InFile(k) # None => k \in lost
<1>1. TypeOK /\ ring' \in Entries /\ file' \in Entries \cup {Broken}
    BY DEF IInv, TypeOK
<1>2. \A k \in sure \cap sure' : k \in Keys /\ k \notin lost
    BY <1>1, HistoryFacts
<1>3. \A k \in Keys : InFile(k) # None => k \in lost
    BY DEF HeldByFile
<1>4. \A k \in Keys : InFile(k)' = None
    BY DEF InFile
<1> QED
    BY <1>1, <1>2, <1>3, <1>4, ValueFacts, ValueFactsNext

LEMMA SaveFailsStep ==
    ASSUME IInv, NEW c \in Clients, SaveFails(c)
    PROVE  IInv' /\ Map!Work
<1>1. pc[c] = "save" /\ UNCHANGED <<ring, late, op, primary, loaded, wrote, calls>>
    BY DEF SaveFails
<1>2. TypeOK /\ Key(c) \in Keys
    BY <1>1, BusyFacts DEF IInv
<1>3. IF Kind(c) = "remove" THEN EndRemove(c, "error") ELSE Report(c, "error")
    BY <1>1, BusyFacts DEF SaveFails, IInv, SaveInv
<1>4. CASE UNCHANGED file /\ History(LeftInFile(c), {})
    <2>1. Kind(c) = "remove" /\ InFile(Key(c)) # None => Key(c) \in LeftInFile(c)
        BY DEF LeftInFile
    <2>2. PICK r \in Answer : Report(c, r) /\ Map!Justified(op[c], seen'[c], r)
        BY <1>1, <1>2, <1>3, <1>4, <2>1, ErrorJustified DEF TypeOK
    <2> QED
        BY <1>1, <1>4, <2>2, QuietReportStep
<1>5. CASE file' = Broken /\ History(HeldByFile, {})
    <2>1. /\ \A k \in sure \cap sure' : InFile(k)' = InFile(k)
          /\ \A k \in sure \cap sure' : Value'[k] = Value[k]
          /\ \A k \in Keys : InFile(k) # None => k \in HeldByFile
        BY <1>1, <1>5, BreakFacts
    <2>2. PICK r \in Answer : Report(c, r) /\ Map!Justified(op[c], seen'[c], r)
        BY <1>1, <1>2, <1>3, <1>5, <2>1, ErrorJustified DEF TypeOK
    <2> QED
        BY <1>1, <1>2, <1>5, <2>1, <2>2, ReportStep DEF TypeOK
<1> QED
    BY <1>4, <1>5 DEF SaveFails

(* The report of a write that went well. *)
LEMMA SavedFacts ==
    ASSUME TypeOK, NEW c \in Clients, pc[c] = "save",
           IF Kind(c) = "set"
           THEN Report(c, "ok") /\ wrote' = [wrote EXCEPT ![c] = TRUE]
           ELSE EndRemove(c, "ok") /\ UNCHANGED wrote
    PROVE  /\ wrote' \in [Clients -> BOOLEAN]
           /\ \E r \in {"ok", "notfound"} : Report(c, r) /\ (Kind(c) = "set" => r = "ok")
BY EndRemoveFacts DEF TypeOK

LEMMA SavesOverStep ==
    ASSUME IInv, NEW c \in Clients, SavesOver(c)
    PROVE  IInv' /\ Map!Work
<1> DEFINE lost == HeldByFile \cup {Key(c)}
<1>1. /\ pc[c] = "save" /\ UNCHANGED <<ring, late, op, primary, loaded, calls>>
      /\ file' = Broken /\ History(lost, {})
    BY DEF SavesOver
<1>2. /\ TypeOK /\ Key(c) \in Keys /\ Busy(c)
      /\ Kind(c) \in {"get", "set", "remove"} /\ (Kind(c) = "set" => op[c].val \in Values)
    BY <1>1, BusyFacts DEF IInv, TypeOK, Busy
<1>3. /\ \A k \in sure \cap sure' : InFile(k)' = InFile(k)
      /\ \A k \in sure \cap sure' : Value'[k] = Value[k]
    BY <1>1, BreakFacts
<1>4. PICK r \in {"ok", "notfound"} : Report(c, r) /\ (Kind(c) = "set" => r = "ok")
    BY <1>1, <1>2, SavedFacts DEF SavesOver
<1>5. wrote' \in [Clients -> BOOLEAN]
    BY <1>1, <1>2, SavedFacts DEF SavesOver
<1>6. seen'[c] = Content
    <2>1. Key(c) \notin sure'
        BY <1>1, <1>2, HistoryFacts DEF TypeOK
    <2> QED
        BY <1>1, <1>2, <2>1, HistoryFacts DEF TypeOK
<1>7. Kind(c) # "get"
    BY <1>1, <1>2 DEF IInv, SaveInv
<1>8. Map!Justified(op[c], seen'[c], r)
    BY <1>2, <1>4, <1>6, <1>7 DEF Map!Justified, Kind, Content
<1> HIDE DEF lost
<1> QED
    BY <1>1, <1>3, <1>4, <1>5, <1>8, ReportStep DEF Answer

LEMMA SavesStep ==
    ASSUME IInv, NEW c \in Clients, Saves(c)
    PROVE  IInv' /\ Map!Work
<1> DEFINE settled == IF Kind(c) = "remove" /\ ring[Key(c)] = None THEN Removed(c) ELSE {}
<1>1. /\ pc[c] = "save" /\ UNCHANGED <<ring, late, op, primary, loaded, calls>>
      /\ file' = Edited(c) /\ History(Overwritten(c), settled)
    BY DEF Saves
<1>2. /\ TypeOK /\ Key(c) \in Keys /\ Busy(c)
      /\ Kind(c) \in {"set", "remove"} /\ (Kind(c) = "set" => op[c].val \in Values)
    BY <1>1, BusyFacts DEF IInv, TypeOK, Busy, SaveInv
<1>3. settled \in SUBSET Keys /\ \A l \in late' : l.key \notin settled
    BY <1>1, <1>2 DEF Removed, Quiet
<1>4. file' \in Entries /\ \A k \in Keys : InFile(k)' = file'[k]
    <2>1. file' \in Entries
        BY <1>1, <1>2 DEF Edited, TypeOK, Entries, Content
    <2> QED
        BY <2>1, StoreAssumption DEF InFile
<1>5. PICK r \in {"ok", "notfound"} : Report(c, r) /\ (Kind(c) = "set" => r = "ok")
    BY <1>1, <1>2, SavedFacts DEF Saves
<1>6. wrote' \in [Clients -> BOOLEAN]
    BY <1>1, <1>2, SavedFacts DEF Saves
<1>7. ring' \in Entries /\ file' \in Entries \cup {Broken} /\ sure' \subseteq Keys
    BY <1>1, <1>2, <1>3, <1>4, HistoryFacts DEF TypeOK
<1>8. /\ settled # {} => Kind(c) = "remove" /\ ring[Key(c)] = None
      /\ \A k \in sure' : k \in sure \ Overwritten(c) \/ k \in settled
      /\ \A k \in settled : k = Key(c)
    BY <1>1, <1>2, <1>3, <1>7, HistoryFacts DEF Removed
<1>9. ASSUME NEW k \in sure \cap sure', k # Key(c)
      PROVE  InFile(k)' = InFile(k) /\ Value'[k] = Value[k]
    <2>1. k \in Keys /\ k \notin Overwritten(c)
        BY <1>7, <1>8, <1>9
    <2>2. loaded[c][k] = InFile(k)
        BY <1>9, <2>1 DEF Overwritten
    <2>3. file'[k] = loaded[c][k]
        BY <1>1, <1>2, <1>9, <2>1 DEF Edited, TypeOK, Entries
    <2> QED
        BY <1>1, <1>2, <1>4, <1>7, <2>1, <2>2, <2>3, ValueFacts, ValueFactsNext
<1>10. Key(c) \in sure' => ring[Key(c)] = None
    BY <1>2, <1>8 DEF Overwritten
<1>11. Key(c) \in sure' =>
           Value'[Key(c)] = IF Kind(c) = "set" THEN op[c].val ELSE None
    <2>1. file'[Key(c)] = IF Kind(c) = "set" THEN op[c].val ELSE None
        BY <1>1, <1>2 DEF Edited, TypeOK, Entries
    <2> QED
        BY <1>1, <1>2, <1>4, <1>7, <1>10, <2>1, ValueFactsNext
<1> HIDE DEF settled
<1>12. Map!Justified(op[c], seen'[c], r)
    <2>1. Key(c) \notin sure \cap sure' => seen'[c] = Content
        BY <1>1, <1>2, <1>3, <1>7, HistoryFacts
    <2>2. Key(c) \in sure \cap sure' => Value'[Key(c)] \in seen'[c]
        BY <1>1, <1>2, <1>3, <1>7, HistoryFacts
    <2>3. IF Kind(c) = "set" THEN op[c].val \in seen'[c] ELSE None \in seen'[c]
        BY <1>2, <1>11, <2>1, <2>2 DEF Content
    <2> QED
        BY <1>2, <1>5, <2>3 DEF Map!Justified, Kind
<1>13. \A k \in sure \cap sure' : InFile(k)' # InFile(k) => ring[k] = None
    BY <1>9, <1>10
<1>14. \A k \in sure \cap sure' : Value'[k] # Value[k] =>
           \/ Kind(c) = "set" /\ Key(c) = k /\ op[c].val = Value'[k]
           \/ Kind(c) = "remove" /\ Key(c) = k /\ Value'[k] = None
    BY <1>2, <1>9, <1>11
<1> QED
    BY <1>1, <1>3, <1>5, <1>6, <1>7, <1>12, <1>13, <1>14, ReportStep DEF Answer

LEMMA KillStep ==
    ASSUME IInv, NEW c \in Clients, Kill(c)
    PROVE  IInv' /\ Map!Work
<1>1. /\ pc[c] \in {"ring", "load", "save"}
      /\ UNCHANGED <<ring, op, primary, loaded, wrote, calls>>
      /\ Report(c, "killed") /\ "killed" \in Answer
    BY DEF Kill, Answer
<1>2. Map!Justified(op[c], seen'[c], "killed")
    BY DEF Map!Justified
<1>3. CASE UNCHANGED <<file, late>> /\ History({}, {})
    BY <1>1, <1>2, <1>3, QuietReportStep
<1>4. CASE late' = late \cup {op[c]} /\ UNCHANGED file /\ History({Key(c)}, {})
    BY <1>1, <1>2, <1>4, QuietReportStep
<1>5. CASE /\ pc[c] = "save" /\ file' = Broken
           /\ UNCHANGED late /\ History(HeldByFile, {})
    <2>1. /\ \A k \in sure \cap sure' : InFile(k)' = InFile(k)
          /\ \A k \in sure \cap sure' : Value'[k] = Value[k]
        BY <1>1, <1>5, BreakFacts
    <2>2. wrote' \in [Clients -> BOOLEAN]
        BY <1>1 DEF IInv, TypeOK
    <2> QED
        BY <1>1, <1>2, <1>5, <2>1, <2>2, ReportStep
<1> QED
    BY <1>3, <1>4, <1>5 DEF Kill

-----------------------------------------------------------------------------
LEMMA CallStep ==
    ASSUME IInv, NEW c \in Clients, NEW o \in Operation \ {NoOp}, Call(c, o)
    PROVE  IInv' /\ Map!Invoke(c, o)
<1> USE DEF Call
<1>1. TypeOK /\ o.key \in Keys /\ op[c] = NoOp /\ Value \in Entries
    BY OperationFacts, ValueFacts DEF IInv, TypeOK
<1>2. Value' = Value /\ \A k \in Keys : InFile(k)' = InFile(k)
    BY SameStore DEF store
<1>3. /\ op'[c] = o /\ pc'[c] = "ring"
      /\ seen'[c] = IF o.key \in sure THEN {Value[o.key]} ELSE Content
      /\ \A d \in Clients \ {c} : op'[d] = op[d] /\ pc'[d] = pc[d] /\ seen'[d] = seen[d]
    BY <1>1 DEF TypeOK, Goto
<1>4. TypeOK'
    <2>1. seen'[c] \in SUBSET Content
        BY <1>1, <1>3 DEF Entries
    <2>2. seen' \in [Clients -> SUBSET Content]
        BY <1>1, <1>3, <2>1 DEF TypeOK
    <2> QED
        BY <1>1, <2>2 DEF TypeOK, Goto, store
<1>5. LateInv' /\ DoubtInv'
    BY <1>1, <1>3 DEF IInv, LateInv, DoubtInv, Busy, Key, store
<1>6. GetInv' /\ RemoveInv' /\ SaveInv'
    <2> SUFFICES ASSUME NEW d \in Clients, pc'[d] \in {"load", "save"}
                 PROVE  (/\ pc[d] = "load" /\ Kind(d) = "get" => InFile(Key(d)) \in seen[d]
                         /\ Kind(d) = "remove" => None \in seen[d] \/ InFile(Key(d)) # None
                         /\ pc[d] = "save" => Kind(d) # "get")'
        BY DEF GetInv, RemoveInv, SaveInv
    <2>1. d # c /\ pc'[d] = pc[d] /\ seen'[d] = seen[d] /\ op'[d] = op[d]
        BY <1>3
    <2>2. Kind(d)' = Kind(d) /\ Key(d)' = Key(d) /\ InFile(Key(d))' = InFile(Key(d))
        BY <1>2, <2>1, BusyFacts DEF IInv, Kind, Key, store, InFile
    <2> QED
        BY <2>1, <2>2 DEF IInv, GetInv, RemoveInv, SaveInv
<1>7. Map!Invoke(c, o)
    BY <1>1, <1>2 DEF Map!Invoke, Map!Busy, Map!NoOp, NoOp, Map!Content, Content
<1> QED
    BY <1>4, <1>5, <1>6, <1>7 DEF IInv

LEMMA ReturnStep ==
    ASSUME IInv, NEW c \in Clients, Return(c)
    PROVE  IInv' /\ Map!Return(c)
<1> USE DEF Return
<1>1. TypeOK
    BY DEF IInv
<1>2. Value' = Value /\ \A k \in Keys : InFile(k)' = InFile(k)
    BY SameStore DEF store
<1>3. /\ op'[c] = NoOp /\ pc'[c] = "idle"
      /\ \A d \in Clients \ {c} : op'[d] = op[d] /\ pc'[d] = pc[d] /\ seen'[d] = seen[d]
    BY <1>1 DEF TypeOK, Goto
<1>4. TypeOK'
    BY <1>1 DEF TypeOK, Goto, store, Operation, Entries, Empty, Content
<1>5. LateInv' /\ DoubtInv'
    BY <1>3 DEF IInv, LateInv, DoubtInv, Busy, Key, store
<1>6. GetInv' /\ RemoveInv' /\ SaveInv'
    <2> SUFFICES ASSUME NEW d \in Clients, pc'[d] \in {"load", "save"}
                 PROVE  (/\ pc[d] = "load" /\ Kind(d) = "get" => InFile(Key(d)) \in seen[d]
                         /\ Kind(d) = "remove" => None \in seen[d] \/ InFile(Key(d)) # None
                         /\ pc[d] = "save" => Kind(d) # "get")'
        BY DEF GetInv, RemoveInv, SaveInv
    <2>1. d # c /\ pc'[d] = pc[d] /\ seen'[d] = seen[d] /\ op'[d] = op[d]
        BY <1>3
    <2>2. Kind(d)' = Kind(d) /\ Key(d)' = Key(d) /\ InFile(Key(d))' = InFile(Key(d))
        BY <1>2, <2>1, BusyFacts DEF IInv, Kind, Key, store, InFile
    <2> QED
        BY <2>1, <2>2 DEF IInv, GetInv, RemoveInv, SaveInv
<1>7. Map!Return(c)
    <2>1. answer[c] # Pending
        BY <1>1 DEF TypeOK
    <2> QED
        BY <2>1, <1>2 DEF Map!Return, Map!NoOp, NoOp
<1> QED
    BY <1>4, <1>5, <1>6, <1>7 DEF IInv

LEMMA InitFacts == Init => IInv /\ Map!Init
<1> SUFFICES ASSUME Init PROVE IInv /\ Map!Init
    OBVIOUS
<1> USE DEF Init
<1>1. TypeOK
    BY StoreAssumption DEF TypeOK, Operation, Entries, Empty, Content
<1>2. LateInv /\ DoubtInv /\ GetInv /\ RemoveInv /\ SaveInv
    BY DEF LateInv, DoubtInv, GetInv, RemoveInv, SaveInv, Busy
<1>3. Value = [k \in Keys |-> None]
    BY DEF Value, InFile, Empty
<1> QED
    BY <1>1, <1>2, <1>3 DEF IInv, Map!Init, Map!NoOp, NoOp

LEMMA NextFacts == IInv /\ [Next]_vars => IInv' /\ [Map!Next]_(Map!mapVars)
<1> SUFFICES ASSUME IInv, [Next]_vars PROVE IInv' /\ [Map!Next]_(Map!mapVars)
    OBVIOUS
<1>1. ASSUME NEW c \in Clients, NEW o \in Operation \ {NoOp}, Call(c, o)
      PROVE  IInv' /\ Map!Next
    BY <1>1, CallStep DEF Map!Next, Map!Operation, Operation, Map!NoOp, NoOp
<1>2. ASSUME NEW c \in Clients, Ring(c) PROVE IInv' /\ Map!Next
    BY <1>2, GetFromRingStep, SetInRingStep, RemoveFromRingStep, RingFailsStep
    DEF Ring, Map!Next
<1>3. ASSUME NEW c \in Clients, File(c) PROVE IInv' /\ Map!Next
    BY <1>3, LoadsStep, LoadFailsStep, SavesStep, SavesOverStep, SaveFailsStep
    DEF File, Map!Next
<1>4. ASSUME NEW c \in Clients, Return(c) PROVE IInv' /\ Map!Next
    BY <1>4, ReturnStep DEF Map!Next
<1>5. ASSUME NEW c \in Clients, Kill(c) PROVE IInv' /\ Map!Next
    BY <1>5, KillStep DEF Map!Next
<1>6. ASSUME NEW l \in late, CarriedOutLate(l) PROVE IInv' /\ Map!Next
    BY <1>6, CarriedOutLateStep DEF Map!Next
<1>7. CASE UNCHANGED vars
    BY <1>7 DEF vars, store, client, IInv, TypeOK, LateInv, DoubtInv, GetInv, RemoveInv,
               SaveInv, Busy, Key, Kind, InFile, Value, Map!mapVars
<1> QED
    BY <1>1, <1>2, <1>3, <1>4, <1>5, <1>6, <1>7 DEF Next

(* The invariant holds in every state the processes can bring the stores to. *)
THEOREM StoreInvariant == Spec => []IInv
BY InitFacts, NextFacts, PTL DEF Spec

(* Type correctness: in particular an operation waits for its answer until it
   has one, and an idle client has neither. *)
THEOREM StoreTypeCorrect == Spec => []TypeOK
<1>1. IInv => TypeOK
    BY DEF IInv
<1> QED
    BY <1>1, StoreInvariant, PTL

(* With every failure of SecureStore, each key behaves as an entry of a map
   until a failure that concerns it, and again once a Set or a Remove of it has
   been answered. *)
THEOREM StoreImplementsMap == Spec => ImplementsMap
BY InitFacts, NextFacts, PTL DEF Spec, ImplementsMap, Map!Spec
=============================================================================
