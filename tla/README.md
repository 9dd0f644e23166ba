# A formal model of the Stripe CLI

TLA+ modules, TLC configurations and TLAPS proofs about the parts of the Stripe
CLI whose correctness depends on order: goroutines around one websocket, a
session that is renewed while events arrive, an OAuth token shared by threads
and processes, commands that write credentials to a file and a keyring, the two
stores below them, a plugin that is installed and removed in many steps, and a
reader whose answers arrive in any order.
Paths below are relative to the repository; `client.go:498` means a line of it.

1. [The system](#1-the-system)
2. [The modules](#2-the-modules)
3. [The runs](#3-the-runs)
4. [The proofs](#4-the-proofs)
5. [Where the code departs from what it says](#5-where-the-code-departs-from-what-it-says)
6. [What is not modelled](#6-what-is-not-modelled)
7. [Plan](#7-plan)

To check a model: `tlc -config Config.cfg MCConfigProfiles`; to check the proofs
of a module: `tlapm ConfigProfilesProofs.tla`.

## 1. The system

| component | code | state it keeps | operations | what is hard |
|---|---|---|---|---|
| websocket client | `pkg/websocket` | connection, send buffer, `done`, `notifyClose`, `NotifyExpired` | `Run`, `readPump`, `writePump`, `SendMessage`, `Stop`, `Close` | two pumps per connection, resets, closing channels others send on |
| listener session | `pkg/proxy/proxy.go` | current client, `nAttempts`, `OutCh` | `Run`, `createSession`, the goroutine behind `Ready` | unsynchronized counter, unbuffered channel, expiry against cancellation |
| consumers | `pkg/cmd/listen.go`, `pkg/rpcservice/listen.go` | - | range over `OutCh`, or select with the stream | one leaves while the sender stays |
| event processing | `pkg/proxy`: event processor, endpoints | routes, filters | `ProcessEvent`, `Post`, `PostV2`, `processEndpointResponse` | one goroutine per event and per POST, order of acknowledgement and answer |
| log tailing | `pkg/logtailing`, `pkg/cmd/logs`, `pkg/rpcservice/logs_tail.go` | as the listener, and whether a warning was sent | `Run`, `processRequestLogEvent` | the same session loop |
| OAuth session | `pkg/config/profile.go`, `pkg/login/oauth_*.go`, `pkg/requests/base.go` | access token, refresh token, expiry, context (keyring), `p.UAT` | `ResolveCredentials`, `refreshOAuthToken`, `performRequest` | single-use refresh token, mutex per process only, three writes |
| profiles and logins | `pkg/config`, `pkg/login`, `pkg/logout`, `pkg/cmd` | config file, live mode key, OAuth entries | log in (six ways), log out, switch, remove, unset | several writes per command, a kill between two of them |
| secure store | `pkg/keyring` | system keyring, fallback file, `wroteToFallback` | `Get`, `Set`, `Remove` | a call that was given up and completes later, an entry in both stores, a file written by two processes |
| plugins | `pkg/plugins`, `pkg/cmd/plugin` | a directory per version, metadata file, `installed_plugins` | install, upgrade, uninstall, backfill, run | rollback, three records that must agree, half-written files |
| documentation reader | `pkg/docs` | page, history, palette, generation of the search | keys, resizes, answers of commands | answers for a palette, query, page or width that is gone |
| device login | `pkg/login` | pending authorization file | request a code, poll, save | intervals, expiry, two commands |
| fixtures | `pkg/fixtures` | responses so far | run requests in order | references to earlier answers |

How they interact: a command resolves credentials (OAuth session, profiles,
secure store), authorizes a session with them and starts the listener session,
which starts a websocket client; the client calls the event processor in a
goroutine per message; the processor sends to the client (`SendMessage`) and to
the consumer (`OutCh`). Everything that is persistent is in the config file and
in the keyring, which all processes of the user share without a lock. Plugins and
the documentation reader use none of this but the config file and HTTP.

What makes each part correct, in a sentence: the websocket client loses no
answer it accepted and always comes back to a connection or to an end; the
session loop drives one client at a time and gives up only for the reason it
states; every event goes where the flags say and its fate is shown; a refresh
never makes the session worse; no command that was killed leaves an account
lost or a mixture of two accounts that the next login does not repair; the
secure store is a map until a failure that concerns the key; a plugin keeps a
binary that runs, and what a command reports of it is so; and the reader shows
the page it is on and the results of what is typed.

## 2. The modules

### WebSocketClient, MessageOutbox and SessionClient

`WebSocketClient` has the goroutine of `Client.Run` (`run` is where it stands),
a `readPump` and a `writePump` per connection (`rp`, `wp`), a handler goroutine
per incoming message, the owner that waits on `NotifyExpired`, and the network.
An action is a stretch of code between two points where another goroutine can
interfere: a channel operation, a network call, `wg.Wait`. The channels are the
state `send`/`sendClosed`, `notifyClose` (capacity one), `doneClosed`,
`stopped`, `expiredClosed`. A Go panic (send on or close of a closed channel)
sets `crash`, after which nothing moves.

`MessageOutbox` is what the goroutines that call `SendMessage` rely on: a message
accepted stays pending until it is delivered, once, and is delivered in the end
while the client is open. `WebSocketClient` implements it with
`pending = Queued \cup Held` and `delivered = written`.

`SessionClient` is what the loop that runs a session relies on: the client dials
and loses its connection any number of times; an expired session is never
dialled again, and its owner hears of the expiry once, in the end if the context
lives; nothing but an expiry or `Stop` sounds like one. `WebSocketClient`
implements it, reading its phase off `run`, `isConnected` and `owner`. It is what
`ProxySession` reduces its clients to: `ClientConnects`, `ClientLosesConnection`,
`ClientExpires` and `SelectExpired` follow `Connect`, `Lose`, `Expire` and
`Signal`. No run and no theorem claims a refinement between the two modules: it
would hold by the shape of these four actions, whatever the loop does.

### ProxySession

The loop of `Proxy.Run` and of `logtailing.Tailer.Run`: `createSession` with its
retries, the client reduced to dialing, connected, expiring and gone, `nAttempts`
with its two unsynchronized writers, the goroutine that polls `Connected` and
announces `Ready`, and the consumer of the unbuffered `OutCh`. `consumer` says
which of the `Programs` it is: "listen" and "logsTail" are the commands, which
range over `OutCh`; "Listen" and "LogsTail" are the RPC service, which selects
between it and its stream, and may leave when the stream ends or when it cannot
convert an event (`SendEvent`). What `stream.Send` returns the code ignores. A
send to `OutCh` is a state of the sender and becomes a step when the consumer
receives.

The increment of `nAttempts` is two steps (`LoadAttempts`, `StoreAttempts`) and
the reset of any session's goroutine may fall anywhere (`ResetAttempts`). The
history variable `lost` collects the sessions whose reset did not count: it came
before the increment for its own session, fell inside an increment, or came when
`Run` had given up. A connection is polled until it is seen, because a
websocket client stays `isConnected` for a second while it closes, and the poll
comes ten times in that second; this is the one guard of
`ClientLosesConnection` that `Lose` does not have. What depends on it is only
how soon a session counts as connected, and every property treats a session that
is still polled as one whose reset is to come.

The programs differ in two places of `AuthorizeSucceeds`. The tailer's first session
may be preceded by a warning (`sendWarning`, `warned`). The listener stores the
device token through `p.cfg.DeviceToken` (`proxy.go:170`), which the `Listen` of
the RPC service does not set (`rpcservice/listen.go:62`), so that there the
program panics (`nilDeviceToken`) as soon as a session is authorized.

### EventProcessor

From a message to the local endpoints: the routes that the flags or the
account's webhook endpoints produce, the filters, the acknowledgement, one POST
goroutine per route, and the answer or the error that is shown. The contents of
messages are records of what the filters tell apart (kind, Connect or not, type,
API version); `Init` starts with every combination of flags. A route is made for
a flag or for one endpoint (`from`), so that two endpoints with one path are two
routes, and an endpoint whose URL does not parse is none. `shown` is what the
consumer receives, in order; `sent` is what is handed to `SendMessage`, in order,
which is not the order in which Stripe hears it: a websocket client whose write
fails puts the message back behind those that wait (`client.go:498`). `post[m][r]`
is the goroutine that POSTs message `m` on route `r`. A URL of `Unparsable` is
one that `http.NewRequest` does not take: the POST ends there and nobody looks at
the error (`CannotBuild`; `endpoint.go:106`, `webhook_event_processor.go:169`).

### OAuthSession

Threads of several processes, each one request: `ReadUAT` to `Recheck` are
`ResolveCredentials`, `ReadRefresh` to `SaveExpiry` are `refreshOAuthToken`,
`ClearUAT` to `ClearExpiry` what it does on `invalid_grant`, and the last group
is `performRequest`. Tokens are numbered by the exchange that issued them; the
server accepts the last refresh token once. Each keyring write is a step of its
own and may fail, the answer of an exchange may be lost after the server made
it, and a process may be killed anywhere.

### ConfigProfiles

The config file (`file`, per profile: the account its keys and `account_id` are
of, its `display_name`, the kind of its test mode key), the account of the live
mode key in the keyring (`ring`) and the OAuth entries (`oauth`: by which login
the access token came, whether there is a refresh token, the context). Commands
run one at a time: `stripe login` by browser, by pasting a key, or by OAuth; the
login of the RPC service; `stripe sandbox create`; `stripe switch context`;
`stripe login switch`; `stripe config --remove-profile` and `--unset`; the
removal of an expired sandbox (`expire`); `stripe logout`, with and without
`--all`. Each write to the keyring or the file is a step, in the order of the
code: `RemoveAuthFields` (`Clear...`), `CopyProfile` (`Backup`, `CopyOut`,
`CopyIn`), `CreateProfile` (`Create...`), `DeleteConfigField` (`Unset...`).
`Crash` ends a command between any two, and `KilledInWrite` within a write of
the file: `writeConfig` truncates it first (`config.go:632`), so that every
profile is gone.

`NamesOf` gives the display names an account may come with. Two accounts may have
the same one, and `None` among them is an account that comes without. The older
browser login and that of the RPC service may bring an access token, which is
saved with the profile (`configurer.go:44`); an OAuth login brings its own.
`Settings` are what users unset. `p` is the `config.Profile` of the command that
runs and `uat` the access token in it; after the profile of a sandbox the
code writes its other fields one by one, the same values, which is not a step
here. Two history variables serve the properties only: `before`, the account
that was active when a browser login started, and `gap`, what the active profile
has been through since a login last completed: a login that was killed while it
saved (`cutShort`), or a profile without display name (`unnamed`), because the
login got none, or it was unset, or the file was lost.

### SecureStore and CredentialMap

`CredentialMap` is the map that the config package takes the store for: a `Get`
returns a value the key had while it ran, a `Set` or `Remove` that reports
success has had its effect. A key is `sure` while that is promised. A failure
that concerns a key ends the promise, an answered `Set` renews it.

`SecureStore` has the two stores under it (`ring`, `file`) and the processes of
the user, each in one operation: the keyring first, then, when that fails or has
no entry, the fallback file, read and written as a whole. `late` holds the calls
that were given up after three seconds and are carried out by the service all
the same. Two writers at once, or a kill while writing, leave a file that does
not parse (`Broken`), which reads as empty; reading it may also fail for a reason
of its own (`LoadFails`). `fallbackStore.Remove` reports
nothing when removing from the file fails, and so does the model. `seen` collects
the values a key had during an operation, which is what makes the refinement a
mapping of states.

### PluginLifecycle

One plugin: of each version whether its directory is absent, empty, or has a
half-written or complete binary (`binary`); the metadata file (`meta`), which an
interrupted write leaves unreadable; its entry in `installed_plugins` (`list`),
and the copy of that list in the process (`mem`). A command starts with the
backfill (`Backfill`), then installs or upgrades (`Resolve`, `MakeDir` to
`FillBinary`), uninstalls (`StartUninstall` to `Delete`) or runs the plugin
(`FindInstalled`, `Execute`), which installs it first if no version is there.
`Save`, `Describe`, `Record` are `PersistInstalledPluginState`, `Undo` and
`UndoList` its rollback, `CleanUp` is `cleanUpPluginPath`, which removes one
other version and stops. With `Faults` every write, removal and download may
fail, half done, the removal of a directory by `CleanUp`, `Discard` and `Delete`
included; `Kill` ends a command between any two steps. Three history variables
say what a command found (`had`, `was`, and `half`: the versions whose binary an
earlier command had left half written), and `botched` that a second fault hit
its rollback. Left out:
`local.build.dev`, `STRIPE_PLUGINS_PATH`, a pinned version, other plugins, two
commands at once, and a config file that cannot be read back.

### DocsBrowser

The loop of the reader: `User` are keys, pastes and resizes, `Answer` the
messages that commands send back. A command under way is in the bag `inflight`
and its message arrives at any time, in any order. Pages are numbered by their
fetch (documents are compared by pointer); a page has a palette of its own, with
the generation of its search (`searchGen`) and the query typed (`input`), so a
timer or an answer may meet another palette than the one it was meant for.
`Unrenderable` pages are those whose rendering fails: the view keeps what it
showed before (`tui/model.go:373`).
Left out: facets (the reader has none), scrolling, quitting, the cache of pages,
widths above the maximum of the word wrap.

## 3. The runs

Every run checks for deadlock, except those of the OAuth session, the secure
store, the plugins and the reader, where all requests or commands may have ended
and the user may pause. In the other modules the ends that the program really
has are named (`AtRest`, `Settled`) and every other standstill is an error.

| run | instance | what it shows |
|---|---|---|
| `websocket` | three incoming messages, one malformed, buffer of two, three connections | one reader and one writer per connection; no accepted answer lost or doubled; a dead pump is always noticed, by the right connection; until the context is cancelled or `Stop` is called nothing panics; the client implements `MessageOutbox` and `SessionClient`, liveness included; while `Run` waits for the pumps of a closed connection they only come nearer to their end; every reset, with a buffer that has room for the answers, and every cancellation comes to its end |
| `proxy` | three sessions, two attempts, two tries, one event, all four programs | never a client that nobody hears; giving up only after as many sessions as attempts in a row, each of which never connected or lost the race on `nAttempts`; a cancelled `Run` only comes nearer to its end; cancellation and expiry are always acted on; the RPC service meets the closed channel only when its stream is over |
| `event` | two messages of any content, all flag combinations, account endpoints enabled and not, two with one path, a URL that does not parse | each event is POSTed to exactly the URL its flags name; the client is handed the acknowledgement before the answer, each once; no answer is handed over that the user has not seen; every POST whose URL parses is reported |
| `oauth_one_process` | three requests, four tokens, no failures, access tokens honoured until they expire | the threads of one process that see the expiry never spend a refresh token twice, so none logs the user out; every request ends |
| `oauth_shared` | two processes, four tokens, all faults | no old access token is put back; no refresh token is saved ahead of its access token; a mutex is held only by a thread that is about to release it, or was killed with its process; true with crashes, lost answers and failed writes |
| `config` | two accounts that share a display name, every command, killed anywhere and while it writes the file | a switch, a sandbox or an RPC login loses no account but one of the same display name; the OAuth context follows the active profile; a logout leaves nothing of a profile that it can see, or that no accident made invisible |
| `store` | two processes, two keys, two values, three operations, all faults | each key is an entry of `CredentialMap` until a failure that concerns it |
| `plugin` | three versions, two of them cached releases, four commands, all faults | no install, upgrade or run costs the last complete binary; a failed command has undone what it recorded; what is reported is so |
| `docs` | one query, two widths, five keys or resizes, all orders of answers | results are those of what is typed; the screen shows the page the reader is on; what makes it spin is on its way back; spinning ends |

The remaining three runs end in a counterexample; they are in
[section 5](#5-where-the-code-departs-from-what-it-says). The type invariants
(`TypeOK`) are proved, for every value of the constants, and no run repeats them.

**Bounds.** Three connections let an old, a current and a next one coexist; two
messages fill the buffer and a third makes handlers race for it. Two attempts and three
sessions are a session that connects, and resets `nAttempts`, followed by as many
failures as the limit allows; the code's number is three, and the proof covers
every number. Two tries of an authorization (six in the code) have a first and a
last. Two events, and the routes of each, give every order of two acknowledgements and two
POSTs, and the model has no state that relates three. Four tokens allow a
refresh by each of three threads; with two processes, a refresh after a refresh
by the other. Two accounts suffice for one to be active and one to be stored;
each file has a table for either name besides `default`, and one account goes by
both names, so that a name may be shared or not. Users unset the three settings
that the other properties tell apart; `account_id`, which doubles the states
(8 million), passes too and is left to the proofs, which
leave `Settings` open. Three operations of two
processes are enough for one whose keyring call was given up, one that acts on
the fallback file and one that reads while the late call arrives. Three versions
leave two old directories at the clean-up, and four commands an install over the
remains of two killed ones. Five keys or resizes are the least with which the
debounce timer of a former page's palette meets a new one; the third page
fetched is the one that is not rendered, so that pages are shown before and
after it. Counters bounded by
these constants stop the action that would exceed them (`DialSucceeds`,
`AuthorizeSucceeds`, `ExchangeSucceeds`); the bound on exchanges then reads as a
server that answers with an error.

**Fairness.** A goroutine that can take a step takes one: weak fairness, which is
what the Go scheduler provides. Strong fairness is assumed in four places. A
server that is dialled again and again accepts in the end (`DialSucceeds`). In a
`select` between a cancelled context and a timer the context is ready at once
and the timer a second later, so the timer does not win for ever
(`RetryWaitCancelled`, `AuthWaitCancelled`). A thread gets `refreshMu` when
others keep passing it on (`Lock`; a Go mutex is starvation free). In the reader a
command sends its message (weak fairness of `Answer`): timers fire, and the HTTP
client gives up after ten seconds. Nothing is assumed of messages, failures, expiry, cancellation or users.

## 4. The proofs

Eight modules, each EXTENDing its component and TLAPS, prove for every value of
the constants what the runs show on an instance. Each proves type correctness,
then a strengthening, action by action (`StepCases` takes a step apart; one case
per action follows).

Five of the liveness properties have a safety part that says why they hold, and
that part is proved: a number that can only fall until the end is reached
(`PumpsLeft` for `ResetEnds`, `RunLeft` for
`CancelEndsRun` of the session loop), somebody who is
there to hear what is to be acted on (`EveryClientIsHeard` for `ExpiryIsHandled`),
a mutex whose holder will release it (`MutexIsPassedOn` for `EveryRequestEnds`),
a message on its way back (`SpinnerHasCause` for `Settles`). What is left to
fairness in each is that steps which can be taken are taken.

**WebSocketClientProofs.** `IInv` adds to the checked invariants where the pumps
of earlier and later connections are (`PumpsInv`: those below `conn` have
exited, those above do not exist, and between connections both have exited,
which is what `wg.Wait` is for), that a writePump holds a message exactly while
it writes or requeues it (`HeldInv`), and that a closed channel implies a
cancelled context or `Stop` (`ShutdownInv`). From it: `PumpsNeverOverlap`,
`MessagesAreConserved`, `FailuresReachRun`, `ResetsOwnConnection`,
`NoPanicWhileOpen`, and `ImplementsOutbox`, the safety part of the refinement.
`ImplementsSession` is that of `SessionClient`; it rests on `SessionInv`, which
says where `Run` may be given what its owner sees. `WedgeNeedsOverload` adds a
counting argument to the run `websocket_requeue`, which shows that the requeue can
wedge a reset: when it does, one more answer is accepted and unwritten than the
buffer holds, eleven with the code's ten. Nothing is assumed of how many messages
there are. `CloseInv` says that `Run` waits for its pumps only when
it has closed their connection and before `send` is closed
(`WaitFindsConnectionClosed`); on a closed connection no read blocks and no write
succeeds, so that each pump only goes forward and `WaitIsBounded` follows: six
steps of theirs, at most, end the wait.

**ProxySessionProofs.** `ClientsInv` says which clients exist, `CountInv` bounds
`nAttempts`, and `FailedInv` relates its value to the last sessions: as many of
them as it says are `Unheeded`, which means not seen connected, or connected with
a reset that is to come or was lost. All of it holds with the race on
`nAttempts`, which no hypothesis excludes. `NoDeafSession` is
`EveryClientIsHeard`; `TerminatesOnlyForLostResets` is `GivesUpOnlyForLostResets`,
so `Run` gives up after `MaxAttempts` sessions at the earliest, and each of the
last `MaxAttempts` is accounted for. `CancelledRunIsBounded` is the descent of
`RunLeft`, for any number of tries and sessions. `ConsumerOutlastsRun`: whatever
`Run` still has to send finds a receiver, unless the program is the RPC service
and leaves, because its stream is over or an event could not be converted, with
the cancellation of the context in either case. `ClosingInv` says who has left
when `OutCh` is closed, and from it follows `ClosedOutChMetAtStreamEnd`.

**EventProcessorProofs.** `SentInv` relates how far each POST is to what the
websocket client was handed of its message, in order; `ShownInv` to what the user was shown;
`PostedInv` to the URL it went to. `StepCases` splits a step, and for each part
one lemma says what a step may do to it (`PostGoesOn`, `ShowsMore`,
`PostedAgain`). `FlagsDecide` turns the routes into the URLs the flags name. All
four properties of the run follow, for any messages, filters, endpoints and URLs that
do not parse. `ProcessorAckedOnceThenAnswered` ends at the hand-over: what the
client's requeue does to the order afterwards is in `WebSocketClient`, whose
outbox promises delivery once and no order.
`ProcessorForwardedWhereConfigured` says the same of `--use-configured-webhooks`,
where the account's endpoints and not the flags decide: those that are enabled
and subscribed to the event get it, and no other URL does. `CrashInv` says what a panic of
the processor needs: the RPC listener, which takes the event out of an answer for
a webhook, was shown the answer to a thin event. Such an answer exists only where
thin events are forwarded (`ProcessorPanicNeedsThinForwarding`).

**OAuthSessionProofs.** `SavingInv`: at most one thread is between an exchange
and the saving of its refresh token, because until then no refresh token anyone
else holds is good. `AccessBeforeRefresh` and `TokensOnlyMoveForward` follow, with all
faults, if nobody else's answer can clear the profile of the thread that
refreshes (`ProfileIsOwn`): the API accepts a token until it expires, or each
process has one thread, or there is one process. The condition is needed: with
two processes, two threads in one of them, and tokens refused early, a second
thread may set `p.UAT` between the clearing of the first and the write that
follows it, while the other process moves on; what the first then writes is not
the last. TLC refutes both theorems there.
`HolderInv` says where the holder of `refreshMu` is; `MutexIsReleased` and
`ResolvesAreSerialized` follow from it without a condition.
`MutexInv` follows `refreshMu` and the second look under it where the API
honours access tokens to their expiry, and `SurvivalInv` leads from there to
`OneProcessKeepsItsSession`: without faults, any number of requests of one
process never log the user out. That one thread at a time is at the token
endpoint is no theorem: the refresh after an "unauthorized" answer
(`base.go:365`) does not take the mutex, and `OAuthEndpoint.cfg` refutes it.

**ConfigProfilesProofs.** `IInv`: a named table other than `default` holds the
profile of its name (`NamedForTable`), and what a command overwrites next it has
copied (`CopiedBefore`). `NoAccountLost` follows, for any accounts, display names
and commands: what the property excepts is in its statement, the account whose
display name the active one has too, and the kill in the middle of a write of
the file. `CredentialsInv` adds where the live mode key may be (`RingInv`), what
a profile without display name may hold (`UnnamedInv`), the order in which the
OAuth entries go (`OAuthClearedInv`), the access token a command was given
(`TokenInv`) and the context it fits (`ContextInv`); from it
`ContextFollowsProfile`, in which only a login killed while it saved is excused,
and `LogoutIsComplete`, which is unconditional for an active profile with a
display name. `KeyInv` says at which steps of a login the key in the keyring may
be ahead of the profile; with it `LiveKeyFollowsLogins`: among all the commands
only `stripe login switch` leaves the key of another account behind
(`ConfigSwitch.cfg` shows that it does).

**SecureStoreProofs.** The whole refinement of `CredentialMap`, fairness having
no part in it: a key with a late call is not `sure` (`LateInv`), an operation on
a key that is not may return anything (`DoubtInv`), what a `Get` is about to find
in the file has been the value since it was called (`GetInv`), and a `Remove`
half done has seen its key without a value or still has one to remove from the
file (`RemoveInv`). What a failure ends the promise for is in `CredentialMap`'s
`sure`; the theorem says nothing of a key after a failure that concerns it, until
it is set again.

**PluginLifecycleProofs.** The invariant says, at each `pc`, what binary,
metadata, list and snapshot stand for: which version is the new one, that the
old one is there until it is complete and recorded, and that what a rollback
will write is what the command found. `PluginReportsAreTrue` lets an install
report success over a half-written binary only if that file was half written
when the command started: what the command itself writes is complete.
(`PluginHalf.cfg` shows that it does report success over the other.)
`KillsLeaveNoGhost` says what kills alone
can do: without failing writes a plugin that is listed or has metadata has a file
to run, wherever commands were killed. It needs `~Faults`: a removal that fails half
way restores the list of what it has removed.

**DocsBrowserProofs.** A palette that is closed is empty (`ClosedIsEmpty`), and
the renderer is there once the width is known (`RendererIsThere`); with these
`SettledIsCurrent` and `ShownIsDoc` are inductive; the second excepts the pages
whose rendering fails, for any set of them. `BrowserSpinnerHasCause` is
about the commands under way: the bag lemmas (`InWith`, `InMinus`, `InCancelled`)
say that sending, receiving or cancelling one of them leaves the others, so that
a spinner that goes on turning still has its answer to come.

Every safety property that a run checks is proved. Only model-checked is
liveness (`ResetEnds`, both `CancelEndsRun`, `ExpiryIsHandled`,
`EveryRequestEnds`, `Settles`, and the liveness of `MessageOutbox` and
`SessionClient`), since proofs about fairness need ENABLED, which is out of the
prover's reach. No module that is proved about uses recursion.

## 5. Where the code departs from what it says

Each of these configurations checks one statement, and TLC finds a behaviour of
the code that breaks it. A comment or a message of the repository makes the
statement, but for `ConfigContext.cfg` and `ConfigLost.cfg`, which show why two
properties of section 3 have their conditions. The first three are runs of the
project:

- `websocket_requeue`: "Requeue the message to be processed when writePump
  restarts" (`client.go:497`). With the buffer full, the requeue blocks, `Run`
  waits in `wg.Wait` for that very pump, and the client hangs, deaf even to its
  context. The buffer holds ten; eleven answers have to be outstanding.
- `config_login`: "First, back up the current profile before default is
  overwritten" (`configurer.go:37`). `stripe login` clears the profile first, so
  its display name is gone and `CopyProfile` fails silently. The login of the
  RPC service and the sandbox command do back up.
- `plugin_cleanup`: "cleanUpPluginPath empties the plugin folder except for the
  version specified" (`plugin.go:138`). The walk stops at the first directory it
  has removed. What is left counts: the next command runs the version whose name
  comes first, and a half-written binary counts as installed.

The others can be repeated by hand, each with its configuration file:

- `ProxyListen.cfg` (`MCProxySession`): "Receive webhook events from the Stripe
  API to your local machine. Like `stripe listen`." (`rpc/commands.proto:29`). The
  `Listen` of the RPC service leaves `DeviceToken` nil in the configuration of the
  proxy (`rpcservice/listen.go:62`), which stores the token through it
  (`proxy.go:170`): the first session that is authorized ends in a panic.
- `ProxyRace.cfg` (`MCProxySession`): "terminating after %d failed attempts"
  (`proxy.go:215`). The reset of `nAttempts` by the goroutine of an earlier
  session may fall inside or just before its increment and be lost, so `Run`
  gives up although a session had connected.
- `OAuthReuse.cfg` (`MCOAuthSession`): "others re-use the result after the lock"
  (`profile.go:29`). The thread that waited keeps the access token it read
  before the refresh.
- `OAuthEndpoint.cfg` (`MCOAuthSession`): "only one goroutine hits the token
  endpoint at a time" (`profile.go:28`). The refresh after an "unauthorized"
  answer does not take the mutex.
- `PluginHalf.cfg` (`MCPluginLifecycle`): "IsVersionInstalled returns true if the
  given version of the plugin is already installed on disk" (`plugin.go:254`). A
  binary that a failed or killed install has left half written counts, and the
  next install of that version reports success over it.
- `ConfigSwitch.cfg` (`MCConfigProfiles`): "This makes the target profile the
  active one" (`config.go:348`). The live mode key in the keyring stays that of
  the account that was active.
- `ConfigContext.cfg` (`MCConfigProfiles`): the access token that a login of the RPC
  service brings is sent with the context of the OAuth session before it, of
  another account. That login clears nothing first, unlike `stripe login`.
- `ConfigLost.cfg` (`MCConfigProfiles`): a kill between the truncation and the
  write of the config file (`config.go:632`) costs every account in it.
- `DocsWrap.cfg` (`MCDocsBrowser`): "The TUI rebuilds the renderer on each window
  resize" (`tui/model.go:109`). Only the page that is open is rendered anew; the
  next one has the width the window had first.

Behaviours seen while modelling that no statement of the repository is about:
the message that closes the palette after an item was executed may close one
that was opened since; any status message ends the spinning of a page that is still
being fetched; pages are shown in the order in which they arrive, not in which
they were asked for; the RPC log tailer exchanges the filters for failed and
succeeded requests (`rpcservice/logs_tail.go:179`) and, like the listener, does
not test whether `OutCh` is closed (`logs_tail.go:69`).

Seven properties are stated with a condition that the code makes necessary.

- `LogoutLeavesNothing` holds of a logout from a profile with a display name. From
  one without, `RemoveAuthFields` does not see the profile (`config.go:506`), and
  the property then excepts the ways such a profile comes about: a login killed
  while it saved, an account whose login brought no name (a key pasted while its
  account could not be fetched), `stripe config --unset display_name`, and a file
  lost in a write.
- `ContextIsActive` excepts a login killed while it saved, until the next one that
  completes, and the token of an RPC login. The token of the older browser login
  may come with no context, as nothing saves one for it.
- `AccountsAreKept` excepts an account whose display name the active one has too:
  its table is overwritten, as the TODO at `config.go:341` says. It excepts the
  truncated file.
- `GivesUpOnlyForLostResets` allows for the resets of `nAttempts` that do not count.
- `EveryPostIsReported` excepts URLs that `http.NewRequest` does not take, of which
  nothing is ever shown (`webhook_event_processor.go:169` has a TODO). A
  `--forward-to` with a space in its host is enough.
- `ReportsAreTrue` excepts a binary that an earlier command left half written.
- `CancelEndsRun` of the websocket client allows for an owner that has returned on
  the same context, for which `Run` then waits (`client.go:152`), and for a panic
  at shutdown (`client.go:158`, `166`).

PROJECT.json lists, under "hazards", what else is hard to test in this code, each
with its line and the property that covers it, or the reason why none does.

## 6. What is not modelled

- In the websocket client: dialer options, TLS, unix sockets, ping and pong as
  messages (a failed ping is a failed write).
- In the listener session: the cause of an authorization failure beyond
  "transient" and "client error"; printing; the flags.
- In event processing: signatures, header filtering and truncation, output
  formats.
- In the OAuth session: the Stripe-Context header, revocation, the choice between
  live and test mode.
- In profiles: profiles chosen with `--project-name`, names with a period (the
  code addresses them as nested tables), the legacy `user_info`, the redacted
  live mode key that the file shows, access tokens other than OAuth's, two
  commands at once, and failing operations on the keyring (which
  `RemoveAuthFields` ignores) or the file, other than by a kill.
- In the secure store: how a key and its value are written down.
- In plugins and in the reader: what section 2 names.
- The generated resource commands, samples, the reader of terminals, the setup of
  agents, code generation, and the small utilities: sequential calls without
  state that outlives them. PROJECT.json says so component by component. These
  are most of the repository: the tables of generated commands alone
  (`pkg/cmd/resources/specs_gen.go`) are 52 of its 97 thousand lines, so the
  share of lines that the models stand for says little about the share of the
  behaviour.

## 7. Plan

Done: all modules of section 2 with their proofs.

Open, in this order:

1. `DeviceLogin`: the pending authorization (`oauth_pending.json`), polling with
   `slow_down`, expiry, and a second `stripe login` that overwrites it.
2. Two commands at once on the config file (read, change, write) and on the
   plugin directory, as a second actor in ConfigProfiles and PluginLifecycle.
3. `FixtureRun`: requests in order with references to earlier answers.
4. Pure algorithms against reference definitions: `pickActiveContext`, `truncate`,
   version comparison.
5. An event processor of many events in flight over a client that reconnects:
   EventProcessor on top of `MessageOutbox`.
