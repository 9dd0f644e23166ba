------------------------- MODULE EventProcessorProofs -------------------------
(***************************************************************************)
(* For any messages, filters and endpoints: what Stripe is told, what the  *)
(* user sees and what is posted of an event agree, however the goroutines  *)
(* of messages and POSTs interleave; where an event goes is what the flags *)
(* or the endpoints of the account say; and what a panic needs.            *)
(***************************************************************************)
EXTENDS EventProcessor, FiniteSetTheorems, TLAPS

EventShown(e) == [what |-> "event", msg |-> e]
AnswerShown(e, r) == [what |-> "answer", msg |-> e, route |-> r]
ErrorShown(e, r) == [what |-> "error", msg |-> e, route |-> r]
Acked(e) == [what |-> "ack", msg |-> e]
Responded(e, r) == [what |-> "response", msg |-> e, route |-> r]

(* What appending to a sequence does to its elements. *)
LEMMA AppendElements ==
  ASSUME NEW S, NEW s \in Seq(S), NEW x \in S
  PROVE  /\ Append(s, x) \in Seq(S)
         /\ DOMAIN s = 1..Len(s)
         /\ DOMAIN Append(s, x) = 1..(Len(s) + 1)
         /\ \A i \in DOMAIN s : Append(s, x)[i] = s[i]
         /\ Append(s, x)[Len(s) + 1] = x
  OBVIOUS

LEMMA OfMessages ==
  \A e \in Msgs : EventShown(e) \in Shown /\ Acked(e) \in Sent
  BY DEF EventShown, Acked, Shown, Sent

LEMMA OfRoutes ==
  \A e \in Msgs, r \in AllRoutes :
      AnswerShown(e, r) \in Shown /\ ErrorShown(e, r) \in Shown /\ Responded(e, r) \in Sent
  BY DEF AnswerShown, ErrorShown, Responded, Shown, Sent

-----------------------------------------------------------------------------
(* The steps. *)

(* One case per action, with the message and the route it is about. *)
LEMMA StepCases ==
  ASSUME Next,
         NEW P,
         \A e \in Msgs : Arrives(e) => P,
         \A e \in Msgs : Ack(e) => P,
         \A e \in Msgs : Show(e) => P,
         \A e \in Msgs, r \in AllRoutes : CannotBuild(e, r) => P,
         \A e \in Msgs, r \in AllRoutes : Answered(e, r) => P,
         \A e \in Msgs, r \in AllRoutes : ShowError(e, r) => P,
         \A e \in Msgs, r \in AllRoutes : ShowAnswer(e, r) => P,
         \A e \in Msgs, r \in AllRoutes : Respond(e, r) => P,
         UNCHANGED vars => P
  PROVE  P
  BY Zenon DEF Next, Forward, Resting

(* Which POSTs an event that is shown starts. *)
LEMMA ShowPosts ==
  ASSUME TypeOK, NEW e \in Msgs, Show(e)
  PROVE  /\ post' \in [Msgs -> [AllRoutes -> PostPC]]
         /\ \A r \in AllRoutes :
              post'[e][r] = IF r \in Routes(flags) /\ Supports(r, content[e])
                            THEN "posting" ELSE post[e][r]
         /\ \A m \in Msgs : m # e => post'[m] = post[m]
  <1> DEFINE started == [r \in AllRoutes |->
                            IF r \in Routes(flags) /\ Supports(r, content[e])
                            THEN "posting" ELSE post[e][r]]
  <1>1. post' = [post EXCEPT ![e] = started]
    BY DEF Show
  <1>2. post \in [Msgs -> [AllRoutes -> PostPC]] /\ "posting" \in PostPC
    BY DEF TypeOK, PostPC
  <1>3. started \in [AllRoutes -> PostPC]
    BY <1>2
  <1>4. \A r \in AllRoutes :
          started[r] = IF r \in Routes(flags) /\ Supports(r, content[e])
                       THEN "posting" ELSE post[e][r]
    OBVIOUS
  <1> HIDE DEF started
  <1>5. /\ post' \in [Msgs -> [AllRoutes -> PostPC]]
        /\ post'[e] = started
        /\ \A m \in Msgs : m # e => post'[m] = post[m]
    BY <1>1, <1>2, <1>3
  <1> QED BY <1>4, <1>5

(* What the other steps of a POST do to it. *)
LEMMA PostChanges ==
  ASSUME TypeOK, NEW e \in Msgs, NEW r \in AllRoutes, NEW stage \in PostPC,
         post' = [post EXCEPT ![e][r] = stage]
  PROVE  /\ post' \in [Msgs -> [AllRoutes -> PostPC]]
         /\ post'[e][r] = stage
         /\ \A m \in Msgs, q \in AllRoutes : m # e \/ q # r => post'[m][q] = post[m][q]
  BY DEF TypeOK

-----------------------------------------------------------------------------
LEMMA InitType == Init => TypeOK
  <1> SUFFICES ASSUME Init PROVE TypeOK  OBVIOUS
  <1>1. content \in [Msgs -> Content \cup {Nothing}]
    BY DEF Init
  <1>2. post \in [Msgs -> [AllRoutes -> PostPC]]
    BY DEF Init, PostPC
  <1>3. shown \in Seq(Shown) /\ sent \in Seq(Sent)
    BY DEF Init
  <1> QED BY <1>1, <1>2, <1>3 DEF Init, TypeOK

LEMMA StepType == TypeOK /\ [Next]_vars => TypeOK'
  <1> SUFFICES ASSUME TypeOK, Next PROVE TypeOK'
    BY DEF TypeOK, vars, config
  <1> USE DEF TypeOK, config
  <1>1. ASSUME NEW e \in Msgs, Arrives(e) PROVE TypeOK'
    BY <1>1 DEF Arrives
  <1>2. ASSUME NEW e \in Msgs, Ack(e) PROVE TypeOK'
    <2>1. sent' = Append(sent, Acked(e))
      BY <1>2 DEF Ack, Acked
    <2>2. sent' \in Seq(Sent)
      BY <2>1, OfMessages, AppendElements
    <2> QED BY <1>2, <2>2 DEF Ack
  <1>3. ASSUME NEW e \in Msgs, Show(e) PROVE TypeOK'
    <2>1. shown' = Append(shown, EventShown(e))
      BY <1>3 DEF Show, EventShown
    <2>2. shown' \in Seq(Shown)
      BY <2>1, OfMessages, AppendElements
    <2>3. post' \in [Msgs -> [AllRoutes -> PostPC]]
      BY <1>3, ShowPosts
    <2> QED BY <1>3, <2>2, <2>3 DEF Show
  <1>4. ASSUME NEW e \in Msgs, NEW r \in AllRoutes, Answered(e, r) PROVE TypeOK'
    <2>1. post' \in [Msgs -> [AllRoutes -> PostPC]]
      BY <1>4, PostChanges DEF Answered, PostPC
    <2> QED BY <1>4, <2>1 DEF Answered
  <1>9. ASSUME NEW e \in Msgs, NEW r \in AllRoutes, CannotBuild(e, r) PROVE TypeOK'
    <2>1. post' \in [Msgs -> [AllRoutes -> PostPC]]
      BY <1>9, PostChanges DEF CannotBuild, PostPC
    <2> QED BY <1>9, <2>1 DEF CannotBuild
  <1>5. ASSUME NEW e \in Msgs, NEW r \in AllRoutes, ShowError(e, r) PROVE TypeOK'
    <2>1. shown' = Append(shown, ErrorShown(e, r))
      BY <1>5 DEF ShowError, ErrorShown
    <2>2. shown' \in Seq(Shown)
      BY <2>1, OfRoutes, AppendElements
    <2>3. post' \in [Msgs -> [AllRoutes -> PostPC]]
      BY <1>5, PostChanges DEF ShowError, PostPC
    <2> QED BY <1>5, <2>2, <2>3 DEF ShowError
  <1>6. ASSUME NEW e \in Msgs, NEW r \in AllRoutes, ShowAnswer(e, r) PROVE TypeOK'
    <2>1. shown' = Append(shown, AnswerShown(e, r))
      BY <1>6 DEF ShowAnswer, AnswerShown
    <2>2. shown' \in Seq(Shown)
      BY <2>1, OfRoutes, AppendElements
    <2>3. post' \in [Msgs -> [AllRoutes -> PostPC]]
      BY <1>6, PostChanges DEF ShowAnswer, PostPC
    <2>4. crashed' \in BOOLEAN
      BY <1>6 DEF ShowAnswer
    <2> QED BY <1>6, <2>2, <2>3, <2>4 DEF ShowAnswer
  <1>7. ASSUME NEW e \in Msgs, NEW r \in AllRoutes, Respond(e, r) PROVE TypeOK'
    <2>1. sent' = Append(sent, Responded(e, r))
      BY <1>7 DEF Respond, Responded
    <2>2. sent' \in Seq(Sent)
      BY <2>1, OfRoutes, AppendElements
    <2>3. post' \in [Msgs -> [AllRoutes -> PostPC]]
      BY <1>7, PostChanges DEF Respond, PostPC
    <2> QED BY <1>7, <2>2, <2>3 DEF Respond
  <1>8. CASE UNCHANGED vars
    BY <1>8 DEF vars
  <1> QED
    BY <1>1, <1>2, <1>3, <1>4, <1>5, <1>6, <1>7, <1>8, <1>9, StepCases, Zenon

(* For any messages, filters and endpoints every variable has its type. *)
THEOREM ProcessorTypeCorrect == Spec => []TypeOK
  <1> QED BY InitType, StepType, PTL DEF Spec

-----------------------------------------------------------------------------
(* What Stripe is told. *)

AckedBefore(e, n) == \E k \in 1..n : sent[k] = Acked(e)

(* A message whose goroutine is before the acknowledgement has none; one that
   is past it and goes on, or has POSTs, has one. *)
AcksInv ==
    /\ \A i \in DOMAIN sent, e \in Msgs : sent[i] = Acked(e) => pc[e] \notin {"waiting", "ack"}
    /\ \A e \in Msgs : pc[e] = "show" => AckedBefore(e, Len(sent))

(* POSTs start when the goroutine of the message ends, and are answered for
   when they end. *)
PostsInv ==
    /\ \A e \in Msgs, r \in AllRoutes : post[e][r] # "none" =>
          pc[e] = "done" /\ AckedBefore(e, Len(sent))
    /\ \A i \in DOMAIN sent, e \in Msgs, r \in AllRoutes :
          sent[i] = Responded(e, r) => post[e][r] = "done"

OrderInv ==
    /\ \A i \in DOMAIN sent, e \in Msgs, r \in AllRoutes :
          sent[i] = Responded(e, r) => AckedBefore(e, i - 1)
    /\ \A i, j \in DOMAIN sent : sent[i] = sent[j] => i = j

SentInv == AcksInv /\ PostsInv /\ OrderInv

LEMMA InitSent == Init => SentInv
  BY DEF Init, SentInv, AcksInv, PostsInv, OrderInv

(* A POST goes on. *)
LEMMA PostGoesOn ==
  ASSUME TypeOK, SentInv, NEW e \in Msgs, NEW r \in AllRoutes, NEW stage \in PostPC,
         post[e][r] \notin {"none", "done"}, stage # "none",
         post' = [post EXCEPT ![e][r] = stage], UNCHANGED <<pc, sent>>
  PROVE  SentInv'
  <1>1. /\ post'[e][r] = stage
        /\ \A m \in Msgs, q \in AllRoutes : m # e \/ q # r => post'[m][q] = post[m][q]
    BY DEF TypeOK
  <1>2. AcksInv' /\ OrderInv'
    BY DEF SentInv, AcksInv, OrderInv, AckedBefore
  <1>3. PostsInv'
    BY <1>1 DEF SentInv, PostsInv, AckedBefore
  <1> QED BY <1>2, <1>3 DEF SentInv

LEMMA StepSent == TypeOK /\ SentInv /\ [Next]_vars => SentInv'
  <1> SUFFICES ASSUME TypeOK, SentInv, Next PROVE SentInv'
    BY DEF SentInv, AcksInv, PostsInv, OrderInv, AckedBefore, vars
  <1>1. ASSUME NEW e \in Msgs, Arrives(e) PROVE SentInv'
    <2>1. /\ pc[e] = "waiting" /\ pc'[e] \in {"ack", "done"}
          /\ \A m \in Msgs : m # e => pc'[m] = pc[m]
          /\ post' = post /\ sent' = sent
      BY <1>1 DEF Arrives, TypeOK
    <2> QED BY <2>1 DEF SentInv, AcksInv, PostsInv, OrderInv, AckedBefore
  <1>2. ASSUME NEW e \in Msgs, Ack(e) PROVE SentInv'
    <2>1. /\ pc[e] = "ack" /\ pc'[e] \in {"show", "done"}
          /\ \A m \in Msgs : m # e => pc'[m] = pc[m]
          /\ post' = post /\ sent' = Append(sent, Acked(e))
      BY <1>2 DEF Ack, Acked, TypeOK
    <2>2. /\ Len(sent) \in Nat
          /\ DOMAIN sent = 1..Len(sent) /\ DOMAIN sent' = 1..(Len(sent) + 1)
          /\ Len(sent') = Len(sent) + 1
          /\ \A i \in DOMAIN sent : sent'[i] = sent[i]
          /\ sent'[Len(sent) + 1] = Acked(e)
      BY <2>1, OfMessages, AppendElements DEF TypeOK
    <2>3. \A m \in Msgs, n \in 0..Len(sent) : AckedBefore(m, n) => AckedBefore(m, n)'
      BY <2>2 DEF AckedBefore
    <2>4. \A m \in Msgs : AckedBefore(m, Len(sent)) => AckedBefore(m, Len(sent))'
      BY <2>2 DEF AckedBefore
    <2>5. \A m \in Msgs : m # e => Acked(m) # Acked(e)
      BY DEF Acked
    <2>6. \A m \in Msgs, r \in AllRoutes : Responded(m, r) # Acked(e)
      BY DEF Acked, Responded
    <2>7. AckedBefore(e, Len(sent))'
      BY <2>2 DEF AckedBefore
    <2>8. AcksInv'
      BY <2>1, <2>2, <2>4, <2>5, <2>7 DEF SentInv, AcksInv
    <2>9. PostsInv'
      BY <2>1, <2>2, <2>4, <2>6 DEF SentInv, PostsInv
    <2>10. OrderInv'
      <3>1. \A i \in DOMAIN sent', m \in Msgs, r \in AllRoutes :
               sent'[i] = Responded(m, r) => AckedBefore(m, i - 1)'
        BY <2>2, <2>3, <2>6 DEF SentInv, OrderInv
      <3>2. \A i, j \in DOMAIN sent' : sent'[i] = sent'[j] => i = j
        BY <2>1, <2>2 DEF SentInv, AcksInv, OrderInv
      <3> QED BY <3>1, <3>2 DEF OrderInv
    <2> QED BY <2>8, <2>9, <2>10 DEF SentInv
  <1>3. ASSUME NEW e \in Msgs, Show(e) PROVE SentInv'
    <2>1. /\ pc[e] = "show" /\ pc'[e] = "done"
          /\ \A m \in Msgs : m # e => pc'[m] = pc[m]
          /\ sent' = sent
      BY <1>3 DEF Show, TypeOK
    <2>2. \A m \in Msgs : m # e => post'[m] = post[m]
      BY <1>3, ShowPosts
    <2>3. AcksInv' /\ OrderInv'
      BY <2>1 DEF SentInv, AcksInv, OrderInv, AckedBefore
    <2>4. PostsInv'
      BY <2>1, <2>2 DEF SentInv, AcksInv, PostsInv, AckedBefore
    <2> QED BY <2>3, <2>4 DEF SentInv
  <1>4. ASSUME NEW e \in Msgs, NEW r \in AllRoutes, Answered(e, r) PROVE SentInv'
    BY <1>4, PostGoesOn DEF Answered, PostPC
  <1>9. ASSUME NEW e \in Msgs, NEW r \in AllRoutes, CannotBuild(e, r) PROVE SentInv'
    BY <1>9, PostGoesOn DEF CannotBuild, PostPC
  <1>5. ASSUME NEW e \in Msgs, NEW r \in AllRoutes, ShowError(e, r) PROVE SentInv'
    BY <1>5, PostGoesOn DEF ShowError, PostPC
  <1>6. ASSUME NEW e \in Msgs, NEW r \in AllRoutes, ShowAnswer(e, r) PROVE SentInv'
    BY <1>6, PostGoesOn DEF ShowAnswer, PostPC
  <1>7. ASSUME NEW e \in Msgs, NEW r \in AllRoutes, Respond(e, r) PROVE SentInv'
    <2>1. /\ post[e][r] = "shown" /\ post'[e][r] = "done"
          /\ \A m \in Msgs, q \in AllRoutes : m # e \/ q # r => post'[m][q] = post[m][q]
          /\ pc' = pc /\ sent' = Append(sent, Responded(e, r))
      BY <1>7, PostChanges DEF Respond, Responded, PostPC
    <2>2. /\ Len(sent) \in Nat
          /\ DOMAIN sent = 1..Len(sent) /\ DOMAIN sent' = 1..(Len(sent) + 1)
          /\ Len(sent') = Len(sent) + 1
          /\ \A i \in DOMAIN sent : sent'[i] = sent[i]
          /\ sent'[Len(sent) + 1] = Responded(e, r)
      BY <2>1, OfRoutes, AppendElements DEF TypeOK
    <2>3. \A m \in Msgs, n \in 0..Len(sent) : AckedBefore(m, n) => AckedBefore(m, n)'
      BY <2>2 DEF AckedBefore
    <2>4. \A m \in Msgs : AckedBefore(m, Len(sent)) => AckedBefore(m, Len(sent))'
      BY <2>2 DEF AckedBefore
    <2>5. \A m \in Msgs, q \in AllRoutes :
             m # e \/ q # r => Responded(m, q) # Responded(e, r)
      BY DEF Responded
    <2>6. \A m \in Msgs : Acked(m) # Responded(e, r)
      BY DEF Acked, Responded
    <2>7. AckedBefore(e, Len(sent))
      BY <2>1 DEF SentInv, PostsInv
    <2>8. AcksInv'
      BY <2>1, <2>2, <2>4, <2>6 DEF SentInv, AcksInv
    <2>9. PostsInv'
      BY <2>1, <2>2, <2>4, <2>5 DEF SentInv, PostsInv
    <2>10. OrderInv'
      <3>1. \A i \in DOMAIN sent', m \in Msgs, q \in AllRoutes :
               sent'[i] = Responded(m, q) => AckedBefore(m, i - 1)'
        <4>1. ASSUME NEW i \in DOMAIN sent, NEW m \in Msgs, NEW q \in AllRoutes,
                     sent'[i] = Responded(m, q)
              PROVE  AckedBefore(m, i - 1)'
          BY <2>2, <2>3, <4>1 DEF SentInv, OrderInv
        <4>2. \E k \in 1..Len(sent) : sent'[k] = Acked(e)
          BY <2>2, <2>7 DEF AckedBefore
        <4>3. ASSUME NEW i \in DOMAIN sent', NEW m \in Msgs, NEW q \in AllRoutes,
                     sent'[i] = Responded(m, q)
              PROVE  AckedBefore(m, i - 1)'
          <5>1. CASE i \in DOMAIN sent
            BY <4>1, <4>3, <5>1
          <5>2. CASE i = Len(sent) + 1
            <6>1. m = e
              BY <2>2, <2>5, <4>3, <5>2
            <6>2. i - 1 = Len(sent)
              BY <2>2, <5>2
            <6> QED BY <4>2, <6>1, <6>2 DEF AckedBefore
          <5> QED BY <2>2, <5>1, <5>2
        <4> QED BY <4>3
      <3>2. \A i, j \in DOMAIN sent' : sent'[i] = sent'[j] => i = j
        BY <2>1, <2>2 DEF SentInv, PostsInv, OrderInv
      <3> QED BY <3>1, <3>2 DEF OrderInv
    <2> QED BY <2>8, <2>9, <2>10 DEF SentInv
  <1>8. CASE UNCHANGED vars
    BY <1>8 DEF SentInv, AcksInv, PostsInv, OrderInv, AckedBefore, vars
  <1> QED
    BY <1>1, <1>2, <1>3, <1>4, <1>5, <1>6, <1>7, <1>8, <1>9, StepCases, Zenon

LEMMA SentIsOrdered == TypeOK /\ SentInv => AckedOnceThenAnswered
  <1> SUFFICES ASSUME TypeOK, SentInv, NEW i \in DOMAIN sent, NEW j \in DOMAIN sent
               PROVE  /\ sent[i].what = "response" =>
                           \E k \in 1..(i - 1) : sent[k] = [what |-> "ack", msg |-> sent[i].msg]
                      /\ i # j /\ sent[i].msg = sent[j].msg /\ sent[i].what = sent[j].what =>
                           sent[i].what = "response" /\ sent[i].route # sent[j].route
    BY DEF AckedOnceThenAnswered
  <1>1. sent[i] \in Sent /\ sent[j] \in Sent
    BY DEF TypeOK
  <1>2. ASSUME NEW x \in Sent
        PROVE  \/ \E e \in Msgs : x = Acked(e) /\ x.what = "ack" /\ x.msg = e
               \/ \E e \in Msgs, r \in AllRoutes :
                    x = Responded(e, r) /\ x.what = "response" /\ x.msg = e /\ x.route = r
    BY DEF Sent, Acked, Responded
  <1>3. ASSUME sent[i].what = "response"
        PROVE  \E k \in 1..(i - 1) : sent[k] = [what |-> "ack", msg |-> sent[i].msg]
    BY <1>1, <1>2, <1>3 DEF SentInv, OrderInv, AckedBefore, Acked
  <1>4. ASSUME i # j, sent[i].msg = sent[j].msg, sent[i].what = sent[j].what
        PROVE  sent[i].what = "response" /\ sent[i].route # sent[j].route
    <2>1. sent[i] # sent[j]
      BY <1>4 DEF SentInv, OrderInv
    <2> QED BY <1>1, <1>2, <1>4, <2>1
  <1> QED BY <1>3, <1>4

(* For any messages and endpoints, the websocket client is handed the acknowledgement
   of a message before any answer to it, and each of them once. *)
THEOREM ProcessorAckedOnceThenAnswered == Spec => []AckedOnceThenAnswered
  <1>1. Spec => []SentInv
    BY InitSent, StepSent, ProcessorTypeCorrect, PTL DEF Spec
  <1> QED BY <1>1, ProcessorTypeCorrect, SentIsOrdered, PTL

-----------------------------------------------------------------------------
(* What the user sees. *)

Told(e, r) ==
    \E j, k \in DOMAIN shown : j < k /\ shown[j] = EventShown(e) /\ shown[k] = AnswerShown(e, r)

(* An event is shown before its POSTs start, and an answer before Stripe is
   told of it. *)
ToldInv ==
    /\ \A e \in Msgs, r \in AllRoutes : post[e][r] # "none" =>
          \E j \in DOMAIN shown : shown[j] = EventShown(e)
    /\ \A e \in Msgs, r \in AllRoutes : post[e][r] = "shown" => Told(e, r)
    /\ \A i \in DOMAIN sent, e \in Msgs, r \in AllRoutes :
          sent[i] = Responded(e, r) => Told(e, r)

Reported(e, r) == \E k \in DOMAIN shown : Reports(e, r) = {k}

(* The goroutine of a POST is past reporting it. *)
PastReport(e, r) == post[e][r] \in {"shown", "done"} /\ r.url \notin Unparsable

(* Only a POST that can be made is answered; it has been reported once when its
   goroutine is past that, and not before, and no other is ever reported. *)
ReportsInv ==
    \A e \in Msgs, r \in AllRoutes :
        /\ post[e][r] \in {"failed", "unread", "answered", "shown"} => r.url \notin Unparsable
        /\ IF PastReport(e, r) THEN Reported(e, r) ELSE Reports(e, r) = {}

ShownInv == ToldInv /\ ReportsInv

LEMMA InitShown == Init => ShownInv
  BY DEF Init, ShownInv, ToldInv, ReportsInv, PastReport, Reports

(* What more on the screen does to what was said there. *)
LEMMA ShowsMore ==
  ASSUME TypeOK, NEW x \in Shown, shown' = Append(shown, x)
  PROVE  /\ Len(shown) \in Nat /\ DOMAIN shown = 1..Len(shown)
         /\ DOMAIN shown' = 1..(Len(shown) + 1)
         /\ \A i \in DOMAIN shown : shown'[i] = shown[i]
         /\ shown'[Len(shown) + 1] = x
         /\ \A e \in Msgs, r \in AllRoutes :
              /\ Told(e, r) => Told(e, r)'
              /\ IF x.what # "event" /\ x.msg = e /\ x.route = r
                 THEN Reports(e, r)' = Reports(e, r) \cup {Len(shown) + 1}
                 ELSE Reports(e, r)' = Reports(e, r)
  <1>1. /\ Len(shown) \in Nat /\ DOMAIN shown = 1..Len(shown)
        /\ DOMAIN shown' = 1..(Len(shown) + 1)
        /\ \A i \in DOMAIN shown : shown'[i] = shown[i]
        /\ shown'[Len(shown) + 1] = x
    BY AppendElements DEF TypeOK
  <1>2. ASSUME NEW e \in Msgs, NEW r \in AllRoutes, Told(e, r) PROVE Told(e, r)'
    BY <1>1, <1>2 DEF Told
  <1>3. ASSUME NEW e \in Msgs, NEW r \in AllRoutes
        PROVE  IF x.what # "event" /\ x.msg = e /\ x.route = r
               THEN Reports(e, r)' = Reports(e, r) \cup {Len(shown) + 1}
               ELSE Reports(e, r)' = Reports(e, r)
    BY <1>1 DEF Reports
  <1> QED BY <1>1, <1>2, <1>3

(* A POST is reported. *)
LEMMA ReportIsShown ==
  ASSUME TypeOK, ShownInv, NEW e \in Msgs, NEW r \in AllRoutes, NEW x \in Shown,
         NEW stage \in {"shown", "done"},
         x.what # "event", x.msg = e, x.route = r,
         post[e][r] \in {"failed", "unread", "answered"},
         post' = [post EXCEPT ![e][r] = stage],
         shown' = Append(shown, x), sent' = sent,
         stage = "shown" => x = AnswerShown(e, r)
  PROVE  ShownInv'
  <1>1. /\ post'[e][r] = stage
        /\ \A m \in Msgs, q \in AllRoutes : m # e \/ q # r => post'[m][q] = post[m][q]
    BY DEF TypeOK
  <1>2. /\ Len(shown) \in Nat /\ DOMAIN shown = 1..Len(shown)
        /\ DOMAIN shown' = 1..(Len(shown) + 1)
        /\ \A i \in DOMAIN shown : shown'[i] = shown[i]
        /\ shown'[Len(shown) + 1] = x
    BY ShowsMore
  <1>3. \A m \in Msgs, q \in AllRoutes : Told(m, q) => Told(m, q)'
    BY ShowsMore
  <1>4. Reports(e, r)' = Reports(e, r) \cup {Len(shown) + 1}
    BY ShowsMore
  <1>5. \A m \in Msgs, q \in AllRoutes : m # e \/ q # r => Reports(m, q)' = Reports(m, q)
    BY ShowsMore
  <1>6. Reported(e, r)'
    <2>1. Reports(e, r) = {}
      BY DEF ShownInv, ReportsInv, PastReport
    <2> QED BY <1>2, <1>4, <2>1 DEF Reported
  <1>7. ReportsInv'
    <2>1. ASSUME NEW m \in Msgs, NEW q \in AllRoutes, m # e \/ q # r
          PROVE  /\ post'[m][q] = post[m][q]
                 /\ IF PastReport(m, q) THEN Reported(m, q)' ELSE Reports(m, q)' = {}
      BY <1>1, <1>2, <1>5, <2>1 DEF ShownInv, ReportsInv, Reported
    <2>2. r.url \notin Unparsable
      BY DEF ShownInv, ReportsInv
    <2> QED BY <1>1, <1>6, <2>1, <2>2 DEF ShownInv, ReportsInv, PastReport
  <1>8. stage = "shown" => Told(e, r)'
    <2>1. PICK j \in DOMAIN shown : shown[j] = EventShown(e)
      BY DEF ShownInv, ToldInv
    <2> QED BY <1>2, <2>1 DEF Told
  <1>9. ToldInv'
    <2>1. \A m \in Msgs, q \in AllRoutes : post'[m][q] # "none" =>
            \E j \in DOMAIN shown' : shown'[j] = EventShown(m)
      BY <1>1, <1>2 DEF ShownInv, ToldInv
    <2>2. \A m \in Msgs, q \in AllRoutes : post'[m][q] = "shown" => Told(m, q)'
      BY <1>1, <1>3, <1>8 DEF ShownInv, ToldInv
    <2>3. \A i \in DOMAIN sent', m \in Msgs, q \in AllRoutes :
            sent'[i] = Responded(m, q) => Told(m, q)'
      BY <1>3 DEF ShownInv, ToldInv
    <2> QED BY <2>1, <2>2, <2>3 DEF ToldInv
  <1> QED BY <1>7, <1>9 DEF ShownInv

LEMMA StepShown == TypeOK /\ SentInv /\ ShownInv /\ [Next]_vars => ShownInv'
  <1> SUFFICES ASSUME TypeOK, SentInv, ShownInv, Next PROVE ShownInv'
    BY DEF ShownInv, ToldInv, ReportsInv, PastReport, Told, Reported, Reports, vars
  <1>1. ASSUME UNCHANGED <<post, shown, sent>> PROVE ShownInv'
    BY <1>1 DEF ShownInv, ToldInv, ReportsInv, PastReport, Told, Reported, Reports
  <1>2. ASSUME NEW e \in Msgs, Ack(e) PROVE ShownInv'
    <2>1. /\ UNCHANGED <<post, shown>> /\ sent' = Append(sent, Acked(e))
      BY <1>2 DEF Ack, Acked
    <2>2. /\ DOMAIN sent = 1..Len(sent) /\ DOMAIN sent' = 1..(Len(sent) + 1)
          /\ Len(sent) \in Nat
          /\ \A i \in DOMAIN sent : sent'[i] = sent[i]
          /\ sent'[Len(sent) + 1] = Acked(e)
      BY <2>1, OfMessages, AppendElements DEF TypeOK
    <2>3. \A m \in Msgs, r \in AllRoutes : Responded(m, r) # Acked(e)
      BY DEF Acked, Responded
    <2>4. ReportsInv'
      BY <2>1 DEF ShownInv, ReportsInv, PastReport, Reported, Reports
    <2>5. ToldInv'
      BY <2>1, <2>2, <2>3 DEF ShownInv, ToldInv, Told
    <2> QED BY <2>4, <2>5 DEF ShownInv
  <1>3. ASSUME NEW e \in Msgs, Show(e) PROVE ShownInv'
    <2>1. shown' = Append(shown, EventShown(e)) /\ sent' = sent /\ EventShown(e) \in Shown
      BY <1>3, OfMessages DEF Show, EventShown
    <2>2. /\ \A r \in AllRoutes : post'[e][r] \in {"posting", post[e][r]}
          /\ \A m \in Msgs : m # e => post'[m] = post[m]
      BY <1>3, ShowPosts
    <2>3. \A m \in Msgs, r \in AllRoutes :
            /\ Told(m, r) => Told(m, r)'
            /\ Reports(m, r)' = Reports(m, r)
      BY <2>1, ShowsMore DEF EventShown
    <2>4. /\ Len(shown) \in Nat /\ DOMAIN shown = 1..Len(shown)
          /\ DOMAIN shown' = 1..(Len(shown) + 1)
          /\ \A i \in DOMAIN shown : shown'[i] = shown[i]
          /\ shown'[Len(shown) + 1] = EventShown(e)
      BY <2>1, ShowsMore
    <2>5. \A r \in AllRoutes : post[e][r] = "none" /\ post'[e][r] \in {"none", "posting"}
      BY <1>3, <2>2 DEF Show, SentInv, PostsInv
    <2>6. ReportsInv'
      <3>1. ASSUME NEW m \in Msgs, NEW r \in AllRoutes
            PROVE  /\ post'[m][r] \in {"failed", "unread", "answered", "shown"} =>
                        r.url \notin Unparsable
                   /\ IF PastReport(m, r)' THEN Reported(m, r)' ELSE Reports(m, r)' = {}
        <4>1. CASE m = e
          BY <2>3, <2>5, <4>1 DEF ShownInv, ReportsInv, PastReport
        <4>2. CASE m # e
          BY <2>2, <2>3, <2>4, <4>2 DEF ShownInv, ReportsInv, PastReport, Reported
        <4> QED BY <4>1, <4>2
      <3> QED BY <3>1 DEF ReportsInv
    <2>7. ToldInv'
      <3>1. \A m \in Msgs, r \in AllRoutes : post'[m][r] # "none" =>
              \E j \in DOMAIN shown' : shown'[j] = EventShown(m)
        BY <2>2, <2>4 DEF ShownInv, ToldInv
      <3>2. \A m \in Msgs, r \in AllRoutes : post'[m][r] = "shown" => Told(m, r)'
        BY <2>2, <2>3, <2>5 DEF ShownInv, ToldInv
      <3>3. \A i \in DOMAIN sent', m \in Msgs, r \in AllRoutes :
              sent'[i] = Responded(m, r) => Told(m, r)'
        BY <2>1, <2>3 DEF ShownInv, ToldInv
      <3> QED BY <3>1, <3>2, <3>3 DEF ToldInv
    <2> QED BY <2>6, <2>7 DEF ShownInv
  <1>4. ASSUME NEW e \in Msgs, NEW r \in AllRoutes, Answered(e, r) PROVE ShownInv'
    <2>1. /\ post[e][r] = "posting" /\ post'[e][r] \in {"failed", "unread", "answered"}
          /\ r.url \notin Unparsable
          /\ \A m \in Msgs, q \in AllRoutes : m # e \/ q # r => post'[m][q] = post[m][q]
      BY <1>4 DEF Answered, TypeOK
    <2>2. UNCHANGED <<shown, sent>>
      BY <1>4 DEF Answered
    <2>3. \A m \in Msgs, q \in AllRoutes : /\ Told(m, q)' <=> Told(m, q)
                                           /\ Reported(m, q)' <=> Reported(m, q)
                                           /\ Reports(m, q)' = Reports(m, q)
      BY <2>2 DEF Told, Reported, Reports
    <2>4. ReportsInv'
      BY <2>1, <2>3 DEF ShownInv, ReportsInv, PastReport
    <2>5. ToldInv'
      BY <2>1, <2>2, <2>3 DEF ShownInv, ToldInv
    <2> QED BY <2>4, <2>5 DEF ShownInv
  <1>10. ASSUME NEW e \in Msgs, NEW r \in AllRoutes, CannotBuild(e, r) PROVE ShownInv'
    <2>1. /\ post[e][r] = "posting" /\ post'[e][r] = "done" /\ r.url \in Unparsable
          /\ \A m \in Msgs, q \in AllRoutes : m # e \/ q # r => post'[m][q] = post[m][q]
      BY <1>10 DEF CannotBuild, TypeOK
    <2>2. UNCHANGED <<shown, sent>>
      BY <1>10 DEF CannotBuild
    <2>3. \A m \in Msgs, q \in AllRoutes : /\ Told(m, q)' <=> Told(m, q)
                                           /\ Reported(m, q)' <=> Reported(m, q)
                                           /\ Reports(m, q)' = Reports(m, q)
      BY <2>2 DEF Told, Reported, Reports
    <2>4. ReportsInv'
      BY <2>1, <2>3 DEF ShownInv, ReportsInv, PastReport
    <2>5. ToldInv'
      BY <2>1, <2>2, <2>3 DEF ShownInv, ToldInv
    <2> QED BY <2>4, <2>5 DEF ShownInv
  <1>5. ASSUME NEW e \in Msgs, NEW r \in AllRoutes, ShowError(e, r) PROVE ShownInv'
    <2>1. /\ shown' = Append(shown, ErrorShown(e, r)) /\ sent' = sent
          /\ post[e][r] \in {"failed", "unread"} /\ post' = [post EXCEPT ![e][r] = "done"]
      BY <1>5 DEF ShowError, ErrorShown
    <2>2. /\ ErrorShown(e, r) \in Shown /\ ErrorShown(e, r).what # "event"
          /\ ErrorShown(e, r).msg = e /\ ErrorShown(e, r).route = r
      BY OfRoutes DEF ErrorShown
    <2> QED BY <2>1, <2>2, ReportIsShown
  <1>6. ASSUME NEW e \in Msgs, NEW r \in AllRoutes, ShowAnswer(e, r) PROVE ShownInv'
    <2>1. /\ shown' = Append(shown, AnswerShown(e, r)) /\ sent' = sent
          /\ post[e][r] = "answered" /\ post' = [post EXCEPT ![e][r] = "shown"]
      BY <1>6 DEF ShowAnswer, AnswerShown
    <2>2. /\ AnswerShown(e, r) \in Shown /\ AnswerShown(e, r).what # "event"
          /\ AnswerShown(e, r).msg = e /\ AnswerShown(e, r).route = r
      BY OfRoutes DEF AnswerShown
    <2> QED BY <2>1, <2>2, ReportIsShown
  <1>7. ASSUME NEW e \in Msgs, NEW r \in AllRoutes, Respond(e, r) PROVE ShownInv'
    <2>1. /\ post[e][r] = "shown" /\ post'[e][r] = "done"
          /\ \A m \in Msgs, q \in AllRoutes : m # e \/ q # r => post'[m][q] = post[m][q]
          /\ shown' = shown /\ sent' = Append(sent, Responded(e, r))
      BY <1>7 DEF Respond, Responded, TypeOK
    <2>2. /\ DOMAIN sent = 1..Len(sent) /\ DOMAIN sent' = 1..(Len(sent) + 1)
          /\ Len(sent) \in Nat
          /\ \A i \in DOMAIN sent : sent'[i] = sent[i]
          /\ sent'[Len(sent) + 1] = Responded(e, r)
      BY <2>1, OfRoutes, AppendElements DEF TypeOK
    <2>3. \A m \in Msgs, q \in AllRoutes : /\ Told(m, q)' <=> Told(m, q)
                                           /\ Reported(m, q)' <=> Reported(m, q)
                                           /\ Reports(m, q)' = Reports(m, q)
      BY <2>1 DEF Told, Reported, Reports
    <2>4. \A m \in Msgs, q \in AllRoutes :
             m # e \/ q # r => Responded(m, q) # Responded(e, r)
      BY DEF Responded
    <2>5. Told(e, r)
      BY <2>1 DEF ShownInv, ToldInv
    <2>6. ReportsInv'
      BY <2>1, <2>3 DEF ShownInv, ReportsInv, PastReport
    <2>7. ToldInv'
      <3>1. \A m \in Msgs, q \in AllRoutes : post'[m][q] # "none" =>
              \E j \in DOMAIN shown' : shown'[j] = EventShown(m)
        BY <2>1 DEF ShownInv, ToldInv
      <3>2. \A m \in Msgs, q \in AllRoutes : post'[m][q] = "shown" => Told(m, q)'
        BY <2>1, <2>3 DEF ShownInv, ToldInv
      <3>3. \A i \in DOMAIN sent', m \in Msgs, q \in AllRoutes :
              sent'[i] = Responded(m, q) => Told(m, q)'
        BY <2>2, <2>3, <2>4, <2>5 DEF ShownInv, ToldInv
      <3> QED BY <3>1, <3>2, <3>3 DEF ToldInv
    <2> QED BY <2>6, <2>7 DEF ShownInv
  <1>8. ASSUME NEW e \in Msgs, Arrives(e) PROVE ShownInv'
    BY <1>1, <1>8 DEF Arrives
  <1>9. CASE UNCHANGED vars
    BY <1>1, <1>9 DEF vars
  <1> QED
    BY <1>2, <1>3, <1>4, <1>5, <1>6, <1>7, <1>8, <1>9, <1>10, StepCases, Zenon

(* The strengthening: how far each POST is, what was said of it, and what of
   its message, agree. *)
THEOREM ProcessorInvariant == Spec => [](SentInv /\ ShownInv)
  <1> QED BY InitSent, InitShown, StepSent, StepShown, ProcessorTypeCorrect, PTL DEF Spec

(* For any messages and endpoints, Stripe is told of no answer the user has not
   seen, after the event. *)
THEOREM ProcessorToldAfterShown == Spec => []ToldAfterShown
  <1>1. ASSUME TypeOK, ShownInv PROVE ToldAfterShown
    <2> SUFFICES ASSUME NEW i \in DOMAIN sent, sent[i].what = "response"
                 PROVE  \E j, k \in DOMAIN shown :
                          /\ j < k
                          /\ shown[j] = [what |-> "event", msg |-> sent[i].msg]
                          /\ shown[k] = [what |-> "answer", msg |-> sent[i].msg,
                                         route |-> sent[i].route]
      BY DEF ToldAfterShown
    <2>1. sent[i] \in Sent
      BY <1>1 DEF TypeOK
    <2>2. PICK e \in Msgs, r \in AllRoutes : sent[i] = Responded(e, r)
      BY <2>1 DEF Sent, Responded
    <2>3. Told(e, r)
      BY <1>1, <2>2 DEF ShownInv, ToldInv
    <2>4. sent[i].msg = e /\ sent[i].route = r
      BY <2>2 DEF Responded
    <2> QED BY <2>3, <2>4 DEF Told, EventShown, AnswerShown
  <1> QED BY <1>1, ProcessorTypeCorrect, ProcessorInvariant, PTL

(* For any messages and endpoints, every POST that could be made and has ended has been
   reported to the user once; nothing is said of any other, one whose URL does not
   parse among them. *)
THEOREM ProcessorEveryPostIsReported == Spec => []EveryPostIsReported
  <1>1. ASSUME ShownInv PROVE EveryPostIsReported
    <2> SUFFICES ASSUME NEW e \in Msgs, NEW r \in AllRoutes
                 PROVE  Cardinality(Reports(e, r))
                          = IF PastReport(e, r) THEN 1 ELSE 0
      BY DEF EveryPostIsReported, PastReport
    <2>1. CASE PastReport(e, r)
      <3>1. PICK k \in DOMAIN shown : Reports(e, r) = {k}
        BY <1>1, <2>1 DEF ShownInv, ReportsInv, Reported
      <3> QED BY <2>1, <3>1, FS_Singleton
    <2>2. CASE ~PastReport(e, r)
      <3>1. Reports(e, r) = {}
        BY <1>1, <2>2 DEF ShownInv, ReportsInv
      <3> QED BY <2>2, <3>1, FS_EmptySet
    <2> QED BY <2>1, <2>2
  <1> QED BY <1>1, ProcessorInvariant, PTL

-----------------------------------------------------------------------------
(* Where an event is posted. *)

Seen(e) == \E i \in DOMAIN shown : shown[i] = EventShown(e)

(* Only what is wanted is shown, and what is shown is posted along the routes
   that support it. *)
PostedInv ==
    /\ \A e \in Msgs : pc[e] = "show" => Wanted(content[e])
    /\ \A e \in Msgs : Seen(e) => pc[e] = "done" /\ Wanted(content[e])
    /\ \A e \in Msgs, r \in AllRoutes :
          post[e][r] # "none" <=> Seen(e) /\ r \in Routes(flags) /\ Supports(r, content[e])

LEMMA InitPosted == Init => PostedInv
  BY DEF Init, PostedInv, Seen

(* What there is to show after a step. *)
LEMMA PostedAgain ==
  ASSUME flags' = flags,
         \A m \in Msgs : pc'[m] = "show" => Wanted(content'[m]),
         \A m \in Msgs : Seen(m)' => pc'[m] = "done" /\ Wanted(content'[m]),
         \A m \in Msgs, r \in AllRoutes :
            post'[m][r] # "none" <=>
              Seen(m)' /\ r \in Routes(flags) /\ Supports(r, content'[m])
  PROVE  PostedInv'
  <1>1. Routes(flags)' = Routes(flags)
    BY DEF Routes
  <1> QED BY <1>1 DEF PostedInv, Wanted, Supports

LEMMA StepPosted == TypeOK /\ SentInv /\ PostedInv /\ [Next]_vars => PostedInv'
  <1> SUFFICES ASSUME TypeOK, SentInv, PostedInv, Next \/ UNCHANGED vars PROVE PostedInv'
    OBVIOUS
  <1>1. ASSUME NEW e \in Msgs, Arrives(e) PROVE PostedInv'
    <2>1. /\ pc[e] = "waiting" /\ pc'[e] \in {"ack", "done"}
          /\ \A m \in Msgs : m # e => pc'[m] = pc[m] /\ content'[m] = content[m]
          /\ UNCHANGED <<flags, post, shown>>
      BY <1>1 DEF Arrives, TypeOK, config
    <2>2. ~Seen(e)
      BY <2>1 DEF PostedInv
    <2>3. \A m \in Msgs : Seen(m)' <=> Seen(m)
      BY <2>1 DEF Seen
    <2>4. \A m \in Msgs : pc'[m] = "show" => Wanted(content'[m])
      BY <2>1 DEF PostedInv
    <2>5. \A m \in Msgs : Seen(m)' => pc'[m] = "done" /\ Wanted(content'[m])
      BY <2>1, <2>2, <2>3 DEF PostedInv
    <2>6. ASSUME NEW m \in Msgs, NEW r \in AllRoutes
          PROVE  post'[m][r] # "none" <=>
                    Seen(m)' /\ r \in Routes(flags) /\ Supports(r, content'[m])
      <3>1. CASE m = e
        BY <2>1, <2>2, <2>3, <3>1 DEF PostedInv
      <3>2. CASE m # e
        BY <2>1, <2>3, <3>2 DEF PostedInv
      <3> QED BY <3>1, <3>2
    <2> QED BY <2>1, <2>4, <2>5, <2>6, PostedAgain
  <1>2. ASSUME NEW e \in Msgs, Ack(e) PROVE PostedInv'
    <2>1. /\ pc[e] = "ack" /\ pc'[e] = (IF Wanted(content[e]) THEN "show" ELSE "done")
          /\ \A m \in Msgs : m # e => pc'[m] = pc[m]
          /\ UNCHANGED <<flags, content, post, shown>>
      BY <1>2 DEF Ack, TypeOK, config
    <2>2. ~Seen(e)
      BY <2>1 DEF PostedInv
    <2>3. \A m \in Msgs : Seen(m)' <=> Seen(m)
      BY <2>1 DEF Seen
    <2>4. \A m \in Msgs : pc'[m] = "show" => Wanted(content[m])
      BY <2>1 DEF PostedInv
    <2>5. \A m \in Msgs : Seen(m)' => pc'[m] = "done" /\ Wanted(content[m])
      BY <2>1, <2>2, <2>3 DEF PostedInv
    <2>6. \A m \in Msgs, r \in AllRoutes :
            post'[m][r] # "none" <=> Seen(m)' /\ r \in Routes(flags) /\ Supports(r, content[m])
      BY <2>1, <2>3 DEF PostedInv
    <2> QED BY <2>1, <2>4, <2>5, <2>6, PostedAgain
  <1>3. ASSUME NEW e \in Msgs, Show(e) PROVE PostedInv'
    <2>1. /\ pc[e] = "show" /\ pc'[e] = "done"
          /\ \A m \in Msgs : m # e => pc'[m] = pc[m]
          /\ UNCHANGED <<flags, content>>
          /\ shown' = Append(shown, EventShown(e)) /\ EventShown(e) \in Shown
      BY <1>3, OfMessages DEF Show, TypeOK, config, EventShown
    <2>2. /\ DOMAIN shown = 1..Len(shown) /\ DOMAIN shown' = 1..(Len(shown) + 1)
          /\ Len(shown) \in Nat
          /\ \A i \in DOMAIN shown : shown'[i] = shown[i]
          /\ shown'[Len(shown) + 1] = EventShown(e)
      BY <2>1, ShowsMore
    <2>3. \A m \in Msgs : m # e => EventShown(m) # EventShown(e)
      BY DEF EventShown
    <2>4. Seen(e)' /\ \A m \in Msgs : m # e => (Seen(m)' <=> Seen(m))
      BY <2>2, <2>3 DEF Seen
    <2>5. \A r \in AllRoutes : post[e][r] = "none"
      BY <2>1 DEF SentInv, PostsInv
    <2>6. /\ \A r \in AllRoutes :
               post'[e][r] # "none" <=> r \in Routes(flags) /\ Supports(r, content[e])
          /\ \A m \in Msgs : m # e => post'[m] = post[m]
      BY <1>3, <2>5, ShowPosts
    <2>7. \A m \in Msgs : pc'[m] = "show" => Wanted(content[m])
      BY <2>1 DEF PostedInv
    <2>8. \A m \in Msgs : Seen(m)' => pc'[m] = "done" /\ Wanted(content[m])
      BY <2>1, <2>4 DEF PostedInv
    <2>9. \A m \in Msgs, r \in AllRoutes :
            post'[m][r] # "none" <=> Seen(m)' /\ r \in Routes(flags) /\ Supports(r, content[m])
      BY <2>4, <2>6 DEF PostedInv
    <2> QED BY <2>1, <2>7, <2>8, <2>9, PostedAgain
  <1>4. ASSUME NEW e \in Msgs, NEW r \in AllRoutes, Forward(e, r) PROVE PostedInv'
    <2>1. /\ UNCHANGED <<flags, content, pc>>
          /\ post[e][r] # "none" /\ post'[e][r] # "none"
          /\ \A m \in Msgs, q \in AllRoutes : m # e \/ q # r => post'[m][q] = post[m][q]
      <3>1. ASSUME NEW stage \in PostPC, stage # "none", post[e][r] # "none",
                   post' = [post EXCEPT ![e][r] = stage]
            PROVE  /\ post'[e][r] # "none"
                   /\ \A m \in Msgs, q \in AllRoutes :
                        m # e \/ q # r => post'[m][q] = post[m][q]
        BY <3>1 DEF TypeOK
      <3>6. CASE CannotBuild(e, r)
        BY <3>1, <3>6 DEF CannotBuild, config, PostPC
      <3>2. CASE Answered(e, r)
        BY <3>1, <3>2 DEF Answered, config, PostPC
      <3>3. CASE ShowError(e, r)
        BY <3>1, <3>3 DEF ShowError, config, PostPC
      <3>4. CASE ShowAnswer(e, r)
        BY <3>1, <3>4 DEF ShowAnswer, config, PostPC
      <3>5. CASE Respond(e, r)
        BY <3>1, <3>5 DEF Respond, config, PostPC
      <3> QED BY <1>4, <3>2, <3>3, <3>4, <3>5, <3>6 DEF Forward
    <2>2. \A m \in Msgs : Seen(m)' <=> Seen(m)
      <3>1. CASE shown' = shown
        BY <3>1 DEF Seen
      <3>2. ASSUME NEW x \in Shown, x.what # "event", shown' = Append(shown, x)
            PROVE  \A m \in Msgs : Seen(m)' <=> Seen(m)
        <4>1. \A m \in Msgs : x # EventShown(m)
          BY <3>2 DEF EventShown
        <4>2. /\ DOMAIN shown = 1..Len(shown) /\ DOMAIN shown' = 1..(Len(shown) + 1)
              /\ Len(shown) \in Nat
              /\ \A i \in DOMAIN shown : shown'[i] = shown[i]
              /\ shown'[Len(shown) + 1] = x
          BY <3>2, ShowsMore
        <4> QED BY <4>1, <4>2 DEF Seen
      <3>3. CASE ShowError(e, r)
        <4>1. shown' = Append(shown, ErrorShown(e, r)) /\ ErrorShown(e, r) \in Shown
          BY <3>3, OfRoutes DEF ShowError, ErrorShown
        <4>2. ErrorShown(e, r).what # "event"
          BY DEF ErrorShown
        <4> QED BY <3>2, <4>1, <4>2
      <3>4. CASE ShowAnswer(e, r)
        <4>1. shown' = Append(shown, AnswerShown(e, r)) /\ AnswerShown(e, r) \in Shown
          BY <3>4, OfRoutes DEF ShowAnswer, AnswerShown
        <4>2. AnswerShown(e, r).what # "event"
          BY DEF AnswerShown
        <4> QED BY <3>2, <4>1, <4>2
      <3> QED BY <1>4, <3>1, <3>3, <3>4 DEF Forward, CannotBuild, Answered, Respond
    <2>3. \A m \in Msgs, q \in AllRoutes :
            post'[m][q] # "none" <=> Seen(m)' /\ q \in Routes(flags) /\ Supports(q, content[m])
      BY <2>1, <2>2 DEF PostedInv
    <2>4. /\ \A m \in Msgs : pc'[m] = "show" => Wanted(content[m])
          /\ \A m \in Msgs : Seen(m)' => pc'[m] = "done" /\ Wanted(content[m])
      BY <2>1, <2>2 DEF PostedInv
    <2> QED BY <2>1, <2>3, <2>4, PostedAgain
  <1>5. CASE UNCHANGED vars
    <2>1. UNCHANGED <<flags, content, pc, post, shown>>
      BY <1>5 DEF vars, config
    <2>2. \A m \in Msgs : Seen(m)' <=> Seen(m)
      BY <2>1 DEF Seen
    <2>3. /\ \A m \in Msgs : pc'[m] = "show" => Wanted(content[m])
          /\ \A m \in Msgs : Seen(m)' => pc'[m] = "done" /\ Wanted(content[m])
      BY <2>1, <2>2 DEF PostedInv
    <2>4. \A m \in Msgs, r \in AllRoutes :
            post'[m][r] # "none" <=> Seen(m)' /\ r \in Routes(flags) /\ Supports(r, content[m])
      BY <2>1, <2>2 DEF PostedInv
    <2> QED BY <2>1, <2>3, <2>4, PostedAgain
  <1> QED
    BY <1>1, <1>2, <1>3, <1>4, <1>5, StepCases, Zenon DEF Forward

(* The routes the flags make for an event are one, or none. *)
Destinations(f, c) == {r \in FlagRoutes(f) : Supports(r, c)}

LEMMA FlagsDecide ==
  ASSUME NEW c \in Content \cup {Nothing}, Wanted(c), TypeOK
  PROVE  \/ Destinations(flags, c) = {} /\ FlagDestination(c) = {}
         \/ \E r : Destinations(flags, c) = {r} /\ FlagDestination(c) = {r.url}
  <1> DEFINE normal == Route("forward", "forward", FALSE, Events, FALSE)
             connect == Route("connect", ConnectURL(flags), TRUE, Events, FALSE)
             thin == Route("thin", "thin", FALSE, ThinEvents, TRUE)
             thinConnect == Route("thinConnect", ThinConnectURL(flags), TRUE, ThinEvents, TRUE)
  <1>1. \A r : r \in FlagRoutes(flags) <=>
                 \/ flags.forward /\ r = normal
                 \/ (flags.forward \/ flags.connect) /\ r = connect
                 \/ flags.thin /\ r = thin
                 \/ (flags.thin \/ flags.thinConnect) /\ r = thinConnect
    BY DEF FlagRoutes
  <1>2. /\ Supports(normal, c) <=>
             c.kind = "webhook" /\ c.connect = FALSE /\ Listened(Events, c)
        /\ Supports(connect, c) <=>
             c.kind = "webhook" /\ c.connect = TRUE /\ Listened(Events, c)
        /\ Supports(thin, c) <=> c.kind = "v2" /\ c.connect = FALSE
        /\ Supports(thinConnect, c) <=> c.kind = "v2" /\ c.connect = TRUE
    BY DEF Supports, Route
  <1>3. /\ normal.url = "forward" /\ connect.url = ConnectURL(flags)
        /\ thin.url = "thin" /\ thinConnect.url = ThinConnectURL(flags)
    BY DEF Route
  <1> HIDE DEF normal, connect, thin, thinConnect
  <1>4. c.kind = "webhook" => Listened(Events, c)
    BY DEF Wanted
  <1>5. c.kind \in {"webhook", "v2"} => c.connect = TRUE \/ c.connect = FALSE
    BY DEF Content, Webhook, Thin, RequestLog, Malformed, Nothing
  <1>6. CASE c.kind = "webhook" /\ c.connect = FALSE
    <2>1. \A r : r \in Destinations(flags, c) <=> flags.forward /\ r = normal
      BY <1>1, <1>2, <1>4, <1>6 DEF Destinations
    <2>2. FlagDestination(c) = IF flags.forward THEN {"forward"} ELSE {}
      BY <1>6 DEF FlagDestination
    <2>3. CASE flags.forward
      BY <1>3, <2>1, <2>2, <2>3
    <2>4. CASE ~flags.forward
      BY <2>1, <2>2, <2>4
    <2> QED BY <2>3, <2>4
  <1>7. CASE c.kind = "webhook" /\ c.connect = TRUE
    <2>1. \A r : r \in Destinations(flags, c) <=>
                   (flags.forward \/ flags.connect) /\ r = connect
      BY <1>1, <1>2, <1>4, <1>7 DEF Destinations
    <2>2. FlagDestination(c) = IF flags.forward \/ flags.connect THEN {ConnectURL(flags)} ELSE {}
      BY <1>7 DEF FlagDestination, ConnectURL
    <2>3. CASE flags.forward \/ flags.connect
      BY <1>3, <2>1, <2>2, <2>3
    <2>4. CASE ~(flags.forward \/ flags.connect)
      BY <2>1, <2>2, <2>4
    <2> QED BY <2>3, <2>4
  <1>8. CASE c.kind = "v2" /\ c.connect = FALSE
    <2>1. \A r : r \in Destinations(flags, c) <=> flags.thin /\ r = thin
      BY <1>1, <1>2, <1>8 DEF Destinations
    <2>2. FlagDestination(c) = IF flags.thin THEN {"thin"} ELSE {}
      BY <1>8 DEF FlagDestination
    <2>3. CASE flags.thin
      BY <1>3, <2>1, <2>2, <2>3
    <2>4. CASE ~flags.thin
      BY <2>1, <2>2, <2>4
    <2> QED BY <2>3, <2>4
  <1>9. CASE c.kind = "v2" /\ c.connect = TRUE
    <2>1. \A r : r \in Destinations(flags, c) <=>
                   (flags.thin \/ flags.thinConnect) /\ r = thinConnect
      BY <1>1, <1>2, <1>9 DEF Destinations
    <2>2. FlagDestination(c) =
            IF flags.thin \/ flags.thinConnect THEN {ThinConnectURL(flags)} ELSE {}
      BY <1>9 DEF FlagDestination, ThinConnectURL
    <2>3. CASE flags.thin \/ flags.thinConnect
      BY <1>3, <2>1, <2>2, <2>3
    <2>4. CASE ~(flags.thin \/ flags.thinConnect)
      BY <2>1, <2>2, <2>4
    <2> QED BY <2>3, <2>4
  <1>10. CASE c.kind \notin {"webhook", "v2"}
    <2>1. Destinations(flags, c) = {}
      BY <1>10 DEF Destinations, Supports
    <2>2. FlagDestination(c) = {}
      BY <1>10 DEF FlagDestination
    <2> QED BY <2>1, <2>2
  <1> QED BY <1>5, <1>6, <1>7, <1>8, <1>9, <1>10

(* For any messages, filters and combination of forward flags, an event that is
   shown is POSTed where the flags say, and one that is not is POSTed nowhere. *)
THEOREM ProcessorForwardedWhereAsked == Spec => []ForwardedWhereAsked
  <1>1. ASSUME TypeOK, PostedInv PROVE ForwardedWhereAsked
    <2> SUFFICES ASSUME NEW e \in Msgs, pc[e] = "done", ~flags.configured
                 PROVE  /\ {r.url : r \in Posted(e)} = IF Seen(e) THEN FlagDestination(content[e]) ELSE {}
                        /\ Cardinality(Posted(e)) <= 1
      <3>1. ASSUME NEW e \in Msgs
            PROVE  Seen(e) <=> [what |-> "event", msg |-> e] \in {shown[i] : i \in DOMAIN shown}
        BY DEF Seen, EventShown
      <3> QED BY <3>1 DEF ForwardedWhereAsked
    <2>1. CASE ~Seen(e)
      <3>1. Posted(e) = {}
        BY <1>1, <2>1 DEF PostedInv, Posted
      <3> QED BY <2>1, <3>1, FS_EmptySet
    <2>2. CASE Seen(e)
      <3>1. Wanted(content[e])
        BY <1>1, <2>2 DEF PostedInv
      <3>2. content[e] \in Content \cup {Nothing}
        BY <1>1 DEF TypeOK
      <3>3. Posted(e) = Destinations(flags, content[e])
        <4>1. flags \in Flags /\ FlagRoutes(flags) \subseteq AllRoutes
          BY <1>1 DEF TypeOK, AllRoutes
        <4>2. Routes(flags) = FlagRoutes(flags)
          BY DEF Routes
        <4> QED BY <1>1, <2>2, <4>1, <4>2 DEF PostedInv, Posted, Destinations
      <3>4. \/ Posted(e) = {} /\ FlagDestination(content[e]) = {}
            \/ \E r : Posted(e) = {r} /\ FlagDestination(content[e]) = {r.url}
        BY <1>1, <3>1, <3>2, <3>3, FlagsDecide
      <3>5. CASE Posted(e) = {} /\ FlagDestination(content[e]) = {}
        BY <2>2, <3>5, FS_EmptySet
      <3>6. CASE \E r : Posted(e) = {r} /\ FlagDestination(content[e]) = {r.url}
        <4>1. PICK r : Posted(e) = {r} /\ FlagDestination(content[e]) = {r.url}
          BY <3>6
        <4>2. Cardinality(Posted(e)) = 1
          BY <4>1, FS_Singleton
        <4> QED BY <2>2, <4>1, <4>2
      <3> QED BY <3>4, <3>5, <3>6
    <2> QED BY <2>1, <2>2
  <1>2. Spec => []PostedInv
    BY InitPosted, StepPosted, ProcessorTypeCorrect, ProcessorInvariant, PTL DEF Spec
  <1> QED BY <1>1, <1>2, ProcessorTypeCorrect, PTL
-----------------------------------------------------------------------------
(* The other two ends of an event: the endpoints of the account, and a panic. *)

(* The enabled endpoints of the account that Stripe would send the event to, and whose
   URL has a path to forward to. *)
Subscribed(c) == {p \in Endpoints : /\ p.enabled /\ p.valid
                                    /\ p.application = c.connect
                                    /\ Listened(p.types, c)}

(* With --use-configured-webhooks a webhook event that is shown is POSTed once for every
   endpoint of the account that is subscribed to it, and for no other; a thin event
   is POSTed nowhere, whatever thin URL was given. *)
ForwardedWhereConfigured ==
    \A e \in Msgs : flags.configured =>
        Posted(e) = IF Seen(e) /\ content[e].kind = "webhook"
                    THEN {EndpointRoute(p) : p \in Subscribed(content[e])} ELSE {}

THEOREM ProcessorForwardedWhereConfigured == Spec => []ForwardedWhereConfigured
  <1>1. ASSUME TypeOK, PostedInv PROVE ForwardedWhereConfigured
    <2> SUFFICES ASSUME NEW e \in Msgs, flags.configured
                 PROVE  Posted(e) = IF Seen(e) /\ content[e].kind = "webhook"
                                    THEN {EndpointRoute(p) : p \in Subscribed(content[e])}
                                    ELSE {}
      BY DEF ForwardedWhereConfigured
    <2>1. \A r : r \in Posted(e) <=>
                 r \in EndpointRoutes /\ Seen(e) /\ Supports(r, content[e])
      BY <1>1 DEF PostedInv, Posted, Routes, AllRoutes
    <2>2. \A r : r \in EndpointRoutes <=>
                 \E p \in Endpoints : p.enabled /\ p.valid /\ r = EndpointRoute(p)
      BY DEF EndpointRoutes
    <2>3. \A p \in Endpoints :
            Supports(EndpointRoute(p), content[e]) <=>
                 /\ content[e].kind = "webhook"
                 /\ p.application = content[e].connect /\ Listened(p.types, content[e])
      BY DEF EndpointRoute, Route, Supports
    <2>4. CASE ~(Seen(e) /\ content[e].kind = "webhook")
      BY <2>1, <2>2, <2>3, <2>4
    <2>5. CASE Seen(e) /\ content[e].kind = "webhook"
      <3>1. \A r : r \in Posted(e) <=>
                   \E p \in Subscribed(content[e]) : r = EndpointRoute(p)
        BY <2>1, <2>2, <2>3, <2>5 DEF Subscribed
      <3> QED BY <2>5, <3>1
    <2> QED BY <2>4, <2>5
  <1>2. Spec => []PostedInv
    BY InitPosted, StepPosted, ProcessorTypeCorrect, ProcessorInvariant, PTL DEF Spec
  <1> QED BY <1>1, <1>2, ProcessorTypeCorrect, PTL

(* What a panic leaves. *)
CrashInv ==
    crashed => /\ consumer = "rpc"
               /\ \E e \in Msgs, r \in AllRoutes :
                     post[e][r] = "shown" /\ content[e].kind = "v2"

LEMMA StepCrash == TypeOK /\ CrashInv /\ [Next]_vars => CrashInv'
  <1> SUFFICES ASSUME TypeOK, CrashInv, Next PROVE CrashInv'
    BY DEF CrashInv, vars, config
  <1>1. ASSUME NEW e \in Msgs, Arrives(e) \/ Ack(e) \/ Show(e) PROVE CrashInv'
    BY <1>1 DEF Arrives, Ack, Show, CrashInv
  <1>2. ASSUME NEW e \in Msgs, NEW r \in AllRoutes,
               CannotBuild(e, r) \/ Answered(e, r) \/ ShowError(e, r) \/ Respond(e, r)
        PROVE  CrashInv'
    BY <1>2 DEF CannotBuild, Answered, ShowError, Respond, CrashInv
  <1>3. ASSUME NEW e \in Msgs, NEW r \in AllRoutes, ShowAnswer(e, r) PROVE CrashInv'
    <2>1. post'[e][r] = "shown"
      BY <1>3, PostChanges DEF ShowAnswer, PostPC
    <2>2. UNCHANGED <<consumer, content>> /\ crashed' = (consumer = "rpc" /\ content[e].kind = "v2")
      BY <1>3 DEF ShowAnswer, config
    <2> QED BY <2>1, <2>2 DEF CrashInv
  <1>4. CASE UNCHANGED vars
    BY <1>4 DEF CrashInv, vars, config
  <1> QED BY <1>1, <1>2, <1>3, <1>4, StepCases, Zenon

(* The commands never panic on what they show, and the RPC listener only when thin
   events were to be forwarded, to a URL given for them. *)
PanicNeedsThinForwarding ==
    crashed => consumer = "rpc" /\ ~flags.configured /\ (flags.thin \/ flags.thinConnect)

THEOREM ProcessorPanicNeedsThinForwarding == Spec => []PanicNeedsThinForwarding
  <1>1. Init => CrashInv
    BY DEF Init, CrashInv
  <1>2. ASSUME TypeOK, PostedInv, CrashInv PROVE PanicNeedsThinForwarding
    <2> SUFFICES ASSUME crashed
                 PROVE  ~flags.configured /\ (flags.thin \/ flags.thinConnect)
      BY <1>2 DEF PanicNeedsThinForwarding, CrashInv
    <2>1. PICK e \in Msgs, r \in AllRoutes : post[e][r] = "shown" /\ content[e].kind = "v2"
      BY <1>2 DEF CrashInv
    <2>2. r \in Routes(flags) /\ r.dest
      BY <1>2, <2>1 DEF PostedInv, Supports
    <2>3. \A q \in EndpointRoutes : ~q.dest
      BY DEF EndpointRoutes, EndpointRoute, Route
    <2>4. \A q \in FlagRoutes(flags) : q.dest => flags.thin \/ flags.thinConnect
      BY DEF FlagRoutes, Route
    <2> QED BY <2>2, <2>3, <2>4 DEF Routes
  <1>3. Spec => []PostedInv
    BY InitPosted, StepPosted, ProcessorTypeCorrect, ProcessorInvariant, PTL DEF Spec
  <1>4. Spec => []CrashInv
    BY <1>1, StepCrash, ProcessorTypeCorrect, PTL DEF Spec
  <1> QED BY <1>2, <1>3, <1>4, ProcessorTypeCorrect, PTL
=============================================================================
