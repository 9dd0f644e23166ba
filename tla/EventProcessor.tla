--------------------------- MODULE EventProcessor ---------------------------
(***************************************************************************)
(* What happens to a message between the websocket client and the local    *)
(* endpoints: proxy.WebhookEventProcessor and its EndpointClients for      *)
(* webhook events (stripe listen), logtailing.Tailer for request logs      *)
(* (stripe logs tail).  Every message has a goroutine that acknowledges    *)
(* it, shows it to the listener over OutCh and starts one POST per route   *)
(* that wants it; every POST has a goroutine that shows the answer and     *)
(* sends it back to Stripe.  The routes are built from the command line or *)
(* from the webhook endpoints of the account.                              *)
(***************************************************************************)
EXTENDS Naturals, Sequences, FiniteSets

CONSTANTS
    Msgs,           \* incoming messages
    Types,          \* event types
    Events,         \* --events; {"*"} if none was given
    ThinEvents,     \* --thin-events
    Endpoints,      \* webhook endpoints of the account
    Unparsable,     \* URLs to forward to that http.NewRequest does not take
    UseLatest       \* --latest

ASSUME ProcessorAssumption ==
    /\ UseLatest \in BOOLEAN
    /\ "*" \notin Types
    /\ Events \subseteq Types \cup {"*"}
    /\ ThinEvents \subseteq Types \cup {"*"}
    /\ \A p \in Endpoints : /\ p.enabled \in BOOLEAN
                            /\ p.valid \in BOOLEAN
                            /\ p.application \in BOOLEAN
                            /\ p.types \subseteq Types \cup {"*"}
    /\ \A p, q \in Endpoints : p.id = q.id => p = q

Nothing == [kind |-> "none"]

(* What a message can be: connect is a non-empty account or context, pinned an
   endpoint with an API version, ownSession a log of the CLI's own request. *)
Webhook == [kind : {"webhook"}, connect : BOOLEAN, type : Types, pinned : BOOLEAN]
Thin == [kind : {"v2"}, connect : BOOLEAN, type : Types]
RequestLog == [kind : {"log"}, ownSession : BOOLEAN]
Malformed == [kind : {"malformedWebhook", "malformedV2", "malformedLog"}]
Content == Webhook \cup Thin \cup RequestLog \cup Malformed \cup {[kind |-> "other"]}

(* Which of the forward flags were given, and --use-configured-webhooks. *)
Flags == [forward : BOOLEAN, connect : BOOLEAN, thin : BOOLEAN,
          thinConnect : BOOLEAN, configured : BOOLEAN]

-----------------------------------------------------------------------------
(* Init's routes. *)

(* from is the flag or the endpoint that the route was made for: two endpoints with
   one path make two routes. *)
Route(from, url, connect, types, dest) ==
    [from |-> from, url |-> url, connect |-> connect, types |-> types, dest |-> dest]

(* The URL of --forward-connect-to is that of --forward-to unless it is given. *)
ConnectURL(f) == IF f.connect THEN "connect" ELSE "forward"
ThinConnectURL(f) == IF f.thinConnect THEN "thinConnect" ELSE "thin"

FlagRoutes(f) ==
    (IF f.forward THEN {Route("forward", "forward", FALSE, Events, FALSE)} ELSE {})
    \cup (IF f.forward \/ f.connect
          THEN {Route("connect", ConnectURL(f), TRUE, Events, FALSE)} ELSE {})
    \cup (IF f.thin THEN {Route("thin", "thin", FALSE, ThinEvents, TRUE)} ELSE {})
    \cup (IF f.thin \/ f.thinConnect
          THEN {Route("thinConnect", ThinConnectURL(f), TRUE, ThinEvents, TRUE)} ELSE {})

(* One route per endpoint that is enabled and whose URL can be parsed: its path on
   the forward URL of its kind. *)
EndpointRoute(p) == Route(p.id, p.url, p.application, p.types, FALSE)

EndpointRoutes == {EndpointRoute(p) : p \in {q \in Endpoints : q.enabled /\ q.valid}}

Routes(f) == IF f.configured THEN EndpointRoutes ELSE FlagRoutes(f)

AllRoutes == EndpointRoutes \cup UNION {FlagRoutes(f) : f \in Flags}

-----------------------------------------------------------------------------
VARIABLES
    flags,      \* how the listener was started
    feature,    \* "webhooks" or "request_logs"
    consumer,   \* who receives from OutCh: "cli" or "rpc"
    content,    \* what each message is, once it has arrived
    pc,         \* the ProcessEvent goroutine of each message
    post,       \* the POST goroutine of each message and route
    shown,      \* what OutCh has carried, in order
    sent,       \* what was handed to the websocket client, in order
    crashed     \* a goroutine has panicked

config == <<flags, feature, consumer>>
vars == <<config, content, pc, post, shown, sent, crashed>>

PostPC == {"none", "posting", "failed", "unread", "answered", "shown", "done"}

Shown == [what : {"event"}, msg : Msgs]
            \cup [what : {"answer", "error"}, msg : Msgs, route : AllRoutes]
Sent == [what : {"ack"}, msg : Msgs]
            \cup [what : {"response"}, msg : Msgs, route : AllRoutes]

TypeOK ==
    /\ flags \in Flags
    /\ feature \in {"webhooks", "request_logs"}
    /\ consumer \in {"cli", "rpc"}
    /\ content \in [Msgs -> Content \cup {Nothing}]
    /\ pc \in [Msgs -> {"waiting", "ack", "show", "done"}]
    /\ post \in [Msgs -> [AllRoutes -> PostPC]]
    /\ shown \in Seq(Shown)
    /\ sent \in Seq(Sent)
    /\ crashed \in BOOLEAN

Init ==
    /\ flags \in {f \in Flags : f.configured => f.forward}
    /\ feature \in {"webhooks", "request_logs"}
    /\ consumer \in (IF feature = "webhooks" THEN {"cli", "rpc"} ELSE {"cli"})
    /\ content = [e \in Msgs |-> Nothing]
    /\ pc = [e \in Msgs |-> "waiting"]
    /\ post = [e \in Msgs |-> [r \in AllRoutes |-> "none"]]
    /\ shown = <<>>
    /\ sent = <<>>
    /\ crashed = FALSE

-----------------------------------------------------------------------------
(* ProcessEvent, processRequestLogEvent: a malformed webhook event or one of the
   other feature is dropped; a malformed log is not. *)
Accepted(c) ==
    \/ feature = "webhooks" /\ c.kind \in {"webhook", "v2"}
    \/ feature = "request_logs" /\ c.kind \in {"log", "malformedLog"}

Arrives(e) ==
    /\ ~crashed
    /\ pc[e] = "waiting"
    /\ \E c \in Content :
          /\ content' = [content EXCEPT ![e] = c]
          /\ pc' = [pc EXCEPT ![e] = IF Accepted(c) THEN "ack" ELSE "done"]
    /\ UNCHANGED <<config, post, shown, sent, crashed>>

(* filterWebhookEvent: events in the other API version are for another listener. *)
FilterWebhookEvent(c) == c.pinned # UseLatest

Listened(types, c) == "*" \in types \/ c.type \in types

(* After the acknowledgement: is the message shown, and forwarded? *)
Wanted(c) ==
    CASE c.kind = "webhook" -> ~FilterWebhookEvent(c) /\ Listened(Events, c)
      [] c.kind = "v2" -> Listened(ThinEvents, c)
      [] c.kind = "log" -> ~c.ownSession
      [] c.kind = "malformedLog" -> TRUE

(* Mutant: thin events are not acknowledged. *)
AckWebhooksOnly(e) ==
    /\ ~crashed
    /\ pc[e] = "ack"
    /\ sent' = IF content[e].kind = "v2" THEN sent
               ELSE Append(sent, [what |-> "ack", msg |-> e])
    /\ pc' = [pc EXCEPT ![e] = IF Wanted(content[e]) THEN "show" ELSE "done"]
    /\ UNCHANGED <<config, content, post, shown, crashed>>

(* The acknowledgement of a valid message. *)
Ack(e) ==
    /\ ~crashed
    /\ pc[e] = "ack"
    /\ sent' = Append(sent, [what |-> "ack", msg |-> e])
    /\ pc' = [pc EXCEPT ![e] = IF Wanted(content[e]) THEN "show" ELSE "done"]
    /\ UNCHANGED <<config, content, post, shown, crashed>>

(* Mutant: webhook routes take the events of every account. *)
SupportsAnyAccount(r, c) ==
    \/ c.kind = "webhook" /\ ~r.dest /\ Listened(r.types, c)
    \/ c.kind = "v2" /\ r.dest /\ r.connect = c.connect

(* SupportsEventType, SupportsContext: thin routes take thin events, of every
   type listened for; the others take webhook events of their own types. *)
Supports(r, c) ==
    \/ c.kind = "webhook" /\ ~r.dest /\ r.connect = c.connect /\ Listened(r.types, c)
    \/ c.kind = "v2" /\ r.dest /\ r.connect = c.connect

(* The message reaches the listener, and its POSTs start. *)
Show(e) ==
    /\ ~crashed
    /\ pc[e] = "show"
    /\ shown' = Append(shown, [what |-> "event", msg |-> e])
    /\ post' = [post EXCEPT ![e] =
                  [r \in AllRoutes |-> IF r \in Routes(flags) /\ Supports(r, content[e])
                                       THEN "posting" ELSE @[r]]]
    /\ pc' = [pc EXCEPT ![e] = "done"]
    /\ UNCHANGED <<config, content, sent, crashed>>

-----------------------------------------------------------------------------
(* EndpointClient.Post, PostV2 and processEndpointResponse. *)

(* Nobody looks at the error of a request that cannot be built. *)
CannotBuild(e, r) ==
    /\ ~crashed
    /\ post[e][r] = "posting"
    /\ r.url \in Unparsable
    /\ post' = [post EXCEPT ![e][r] = "done"]
    /\ UNCHANGED <<config, content, pc, shown, sent, crashed>>

(* The request fails or times out, or its answer breaks off, or is read. *)
Answered(e, r) ==
    /\ ~crashed
    /\ post[e][r] = "posting"
    /\ r.url \notin Unparsable
    /\ \E result \in {"failed", "unread", "answered"} :
          post' = [post EXCEPT ![e][r] = result]
    /\ UNCHANGED <<config, content, pc, shown, sent, crashed>>

(* Mutant: the error is not shown. *)
ShowErrorSilently(e, r) ==
    /\ ~crashed
    /\ post[e][r] \in {"failed", "unread"}
    /\ post' = [post EXCEPT ![e][r] = "done"]
    /\ UNCHANGED <<config, content, pc, shown, sent, crashed>>

ShowError(e, r) ==
    /\ ~crashed
    /\ post[e][r] \in {"failed", "unread"}
    /\ shown' = Append(shown, [what |-> "error", msg |-> e, route |-> r])
    /\ post' = [post EXCEPT ![e][r] = "done"]
    /\ UNCHANGED <<config, content, pc, sent, crashed>>

(* The RPC listener reads the event of a webhook from the answer to a thin one. *)
ShowAnswer(e, r) ==
    /\ ~crashed
    /\ post[e][r] = "answered"
    /\ shown' = Append(shown, [what |-> "answer", msg |-> e, route |-> r])
    /\ post' = [post EXCEPT ![e][r] = "shown"]
    /\ crashed' = (consumer = "rpc" /\ content[e].kind = "v2")
    /\ UNCHANGED <<config, content, pc, sent>>

(* Mutant: Stripe is told first. *)
RespondBeforeShown(e, r) ==
    /\ ~crashed
    /\ post[e][r] = "answered"
    /\ sent' = Append(sent, [what |-> "response", msg |-> e, route |-> r])
    /\ post' = [post EXCEPT ![e][r] = "done"]
    /\ UNCHANGED <<config, content, pc, shown, crashed>>

Respond(e, r) ==
    /\ ~crashed
    /\ post[e][r] = "shown"
    /\ sent' = Append(sent, [what |-> "response", msg |-> e, route |-> r])
    /\ post' = [post EXCEPT ![e][r] = "done"]
    /\ UNCHANGED <<config, content, pc, shown, crashed>>

Forward(e, r) ==
    \/ CannotBuild(e, r) \/ Answered(e, r)
    \/ ShowError(e, r) \/ ShowAnswer(e, r) \/ Respond(e, r)

Settled ==
    /\ \A e \in Msgs : pc[e] = "done"
    /\ \A e \in Msgs, r \in AllRoutes : post[e][r] \in {"none", "done"}

Resting == (crashed \/ Settled) /\ UNCHANGED vars

Next ==
    \/ \E e \in Msgs : Arrives(e) \/ Ack(e) \/ Show(e)
    \/ \E e \in Msgs, r \in AllRoutes : Forward(e, r)
    \/ Resting

Spec == Init /\ [][Next]_vars

-----------------------------------------------------------------------------
(* Properties. *)

Posted(e) == {r \in AllRoutes : post[e][r] # "none"}

(* Where the flags' documentation says an event goes: to the URL given for its
   kind, Connect events "by default same as normal events". *)
FlagDestination(c) ==
    CASE c.kind = "webhook" /\ ~c.connect -> IF flags.forward THEN {"forward"} ELSE {}
      [] c.kind = "webhook" /\ c.connect ->
            IF flags.connect THEN {"connect"}
            ELSE IF flags.forward THEN {"forward"} ELSE {}
      [] c.kind = "v2" /\ ~c.connect -> IF flags.thin THEN {"thin"} ELSE {}
      [] c.kind = "v2" /\ c.connect ->
            IF flags.thinConnect THEN {"thinConnect"}
            ELSE IF flags.thin THEN {"thin"} ELSE {}
      [] OTHER -> {}

(* An event that was shown has one POST, to the URL the flags name for its kind and
   to no other, whatever combination of flags was given; an event that was not
   shown has none. *)
ForwardedWhereAsked ==
    \A e \in Msgs : pc[e] = "done" /\ ~flags.configured =>
        LET seen == [what |-> "event", msg |-> e] \in {shown[i] : i \in DOMAIN shown}
        IN  /\ {r.url : r \in Posted(e)} = IF seen THEN FlagDestination(content[e]) ELSE {}
            /\ Cardinality(Posted(e)) <= 1

(* Of each message the websocket client is handed the acknowledgement before any
   answer, and neither of them twice, although different goroutines hand them over.
   (Stripe may hear of them in another order: a client whose write fails puts the
   message back behind those that wait.) *)
AckedOnceThenAnswered ==
    \A i, j \in DOMAIN sent :
        /\ sent[i].what = "response" =>
              \E k \in 1..(i - 1) : sent[k] = [what |-> "ack", msg |-> sent[i].msg]
        /\ i # j /\ sent[i].msg = sent[j].msg /\ sent[i].what = sent[j].what =>
              sent[i].what = "response" /\ sent[i].route # sent[j].route

(* What Stripe is told of an endpoint's answer the user has seen, and has seen
   after the event itself. *)
ToldAfterShown ==
    \A i \in DOMAIN sent : sent[i].what = "response" =>
        \E j, k \in DOMAIN shown :
            /\ j < k
            /\ shown[j] = [what |-> "event", msg |-> sent[i].msg]
            /\ shown[k] = [what |-> "answer", msg |-> sent[i].msg, route |-> sent[i].route]

(* A POST that could be made does not end in silence: the user sees its answer or an
   error, exactly one of the two.  A POST to a URL that does not parse does: nothing
   is ever shown of it.  (Every message runs to its end: the runs allow rest only
   when all is done.) *)
Reports(e, r) ==
    {i \in DOMAIN shown : shown[i].what # "event" /\ shown[i].msg = e /\ shown[i].route = r}

EveryPostIsReported ==
    \A e \in Msgs, r \in AllRoutes :
        Cardinality(Reports(e, r)) =
            IF post[e][r] \in {"shown", "done"} /\ r.url \notin Unparsable THEN 1 ELSE 0
=============================================================================
