# Verification of signal-websocket-bridge

TLA+ models of the bridge in `src/src/swb`, the TLC runs that check them on small
instances, and TLAPS proofs of the safety of its connection, its stream of events, its
sessions, its subscription, its requests and its routing by account. Paths below are
relative to `src/src/swb` unless they start with `src/`.

## The system

The bridge is one Python process with one asyncio event loop. On one side it talks to
signal-cli over DBus; on the other it serves WebSocket and HTTP clients. Nothing is
persisted, and no thread touches shared state: what happens between two awaits is atomic,
and everything hard happens at the awaits.

| Part | State | Operations | Interacts with |
|---|---|---|---|
| `SignalClient` (`dbus_client.py`) | `bus`, `_signal_iface`, `_account_ifaces`, `connected`, `_initial_connect`, `_reconnect_task`, `_reconnect_wake`, `_watch_task` | `connect`, `_handle_message`, `_watch_transport`, `_on_connection_lost`, `_reconnect_loop`, `note_error`, `interface`, `sub_interface`, `subscribe_receive`, `unsubscribe_receive`, `_broadcast` | DBus daemon, signal-cli; shares the set of clients with the server |
| `WebSocketServer` (`websocket_server.py`) | `connected_clients`, one handler coroutine per connection | `websocket_handler`, `send_handler`, `/health`, `/asyncapi.*` | one dispatcher per connection; `is_connected`, `subscribe`, `unsubscribe` of the client |
| signal handler (`signals.py`) | `event_buffer` (a `deque` with `maxlen`) | `handler`: serialize, buffer, schedule a send to every client | called by `_handle_message` |
| `MethodDispatcher` (`dispatch.py`) | `_iface` of the running dispatch | `dispatch`: resolve the interface, run the handler under `CALL_TIMEOUT`, report errors | `SignalClient.interface`, `note_error` |
| entry point (`__main__.py`) | – | connect with backoff, then serve | wires all of the above |
| conversions (`types.py`), AsyncAPI (`asyncapi.py`), configuration (`config.py`) | none | pure functions, read once or per request | – |

What is hard here: three sources report the same outage (an ownership notice, the
transport watcher, a failing call) while a reconnection is in progress; `connect()` has up
to seven awaits, at each of which signal-cli, the daemon, a client or a call may change the
world; calls in flight outlive the bus they were made on; clients join and leave while the
subscription calls of others are on their way; and the event buffer and the live stream
must meet without a gap; a reply and a broadcast about the same outage are written by
different tasks; and signal-cli may change its mode and its accounts between two answers.
`PROJECT.json` lists these hazards at the lines where they bite.

What makes each part correct:

- **connection**: one reconnect loop, none beside a working link; no outage overlooked; no
  call on a replaced bus; a link that is down is being worked on and comes up again once
  signal-cli stays; every client is told of each loss and recovery once and in order;
- **WebSocket sessions**: no event lost between replay and live stream, repeats only where
  they are unavoidable, every handler ends and discards its client, every request answered;
- **keep-alive**: signal-cli holds a subscription exactly while there are clients;
- **the whole path**: no signal lost on a bus, none handled more than twice, and no client
  that waits for `Reconnected`, as `METHODS.md` tells it to, misses it;
- **requests**: a refused one has done nothing, one that is valid as published in
  `/asyncapi.json` reaches signal-cli, none that was not sent disturbs the others, and each
  is carried out by the account it is for, or by none.

## Modules

| Module | Models | Lines |
|---|---|---|
| `Link` | abstract: a link that is up or down, and the control messages clients get | what `_broadcast` promises |
| `SignalClient` | the connection lifecycle, calls and their errors, `_run`'s initial loop | `dbus_client.py`, `dispatch.py:94-192,300-343`, `__main__.py:26-51` |
| `WebSocketSession` | `websocket_handler` and the signal handler | `websocket_server.py:67-177`, `signals.py:76-105` |
| `KeepAlive` | subscribe and unsubscribe over restarts and reconnections | `websocket_server.py:115-119,170-175`, `dbus_client.py:158-185,315-331` |
| `Bridge` | composition: signals, buses, calls, replies and clients that follow the retry rule | `dbus_client.py:54-65,111-185,222-282,337-348`, `websocket_server.py:115-172` |
| `Methods` | the methods: calls, arguments and conversions | `dispatch.py:27-91,111-167,198-482`, `types.py:27-54` |
| `AsyncApi` | what is published of requests and events, and how events look | `asyncapi.py:10-75,111-194`, `types.py:10-24,57-98`, `signals.py:37-73` |
| `Api` | one request through dispatcher and endpoint, one signal to the clients | `dispatch.py:176-192`, `websocket_server.py:148-163,194-221`, `dbus_client.py:54-72,274-282` |
| `Accounts` | which account a request is for and an event is of | `dbus_client.py:105-175,207-216,296-307`, `signals.py:15-26,85-91`, `websocket_server.py:203-220` |
| `SignalClientProofs`, `BridgeProofs`, `WebSocketSessionProofs`, `KeepAliveProofs`, `AccountsProofs`, `ApiProofs` | theorems about the module they are named for | – |
| `WebSocketRepeatsProofs` | how often an event reaches a client, from the invariant of `WebSocketSessionProofs` | – |
| `SequenceInduction` | induction and recursion over sequences, for the proofs of `KeepAlive` and `Api` | – |
| `MC*` | model values, bounds and symmetry for TLC | – |

`Link` is what `SignalClient` and `Bridge` both implement: each has `L == INSTANCE Link`,
checks `L!Spec` and proves it. `Bridge` composes what the first three detailed modules have
apart: buses and outages of `SignalClient`, the signal handler, and the handlers and clients
of `WebSocketSession`. `Api` composes `Methods` with `AsyncApi`.

### SignalClient

A task (the initial connect `Main`, or a reconnect loop) stands at a place `pc[t]`:

| Place | In the code |
|---|---|
| `idle` | no such task, or it is done |
| `head` | a new `_reconnect_loop` before its `while` (`:262`) |
| `wait` | `wait_for(_reconnect_wake.wait(), backoff)` (`:265`), or `asyncio.sleep` in `_run` |
| `open` | `bus.connect()` (`:114`) |
| `root`, `probe`, `node` | introspection of the root, `listAccounts` or `version`, introspection of the selected object (`:122-149`) |
| `match1`, `match2` | the two `AddMatch` calls (`:153-156`) |
| `ready` | the last reply is there and the rest of `connect()` is about to run (`:157-175`) |
| `resub` | `subscribeReceive` inside `connect()` (`:181`) |
| `serve` | `_run` serves (`__main__.py:39-51`) |

`fresh[t]` is `connect()`'s local `bus`; `Adopt` is the block that makes it `self.bus`.
`notices[b]` holds the NameOwnerChanged messages a bus has received and not read,
`watching` the buses whose `_watch_transport` has not ended (`WatchReports`: the wait
returns; `WatchDies`: it raises, and nobody is told). `on[c]` is the bus of the interface a
dispatch holds; `stage[c]` says whether it is only `bound` to it, its call has been `asked`,
or the reply is there (`answered`) and the handler has yet to go on; `more` are the
dispatches whose handler makes a second call (`_get_group_interface`,
`_get_identity_interface`). `HandlerInTask` chooses the `asyncio.wait_for` of Python 3.11,
where a handler starts in a task of its own, a turn after its interface has been resolved, or
that of 3.12 and later, where it starts at once. signal-cli and the daemon are
external: they stop and start at any time, and a call whose destination has gone is
`doomed` to fail. `cache[a]` is the bus an entry of `_account_ifaces` is bound to.

A client of the WebSocket server appears here only as a member of `connected_clients` and
the last control message scheduled to it (`seen`); `Join` and `Leave` are the points where
the server adds and discards it.

### WebSocketSession

`place[w]` follows the handler: `auth`, `subscribe` (awaits `subscribe_receive`), `replay`
(awaits a `send_str` of the replay), `loop`, `call` (awaits `dispatch`), `unsubscribe`,
`ended`. Events are numbered by their emission, which stands for `event_id`. A live send is
a task: it waits in `queue[w]` until it is written (`Deliver`), in the order of creation,
since the event loop starts tasks first in, first out. `got[w]` is what was written, and
`since`, `taken` record when the client was added and when its snapshot was taken.
Control messages are left to `SignalClient` and `Bridge`. A live event may be written before
the replay of older ones, as the order of the two is up to the event loop; what is checked
is that none is missing and which ones repeat.

### KeepAlive

`wire` holds the `subscribeReceive` and `unsubscribeReceive` calls on their way, in order;
signal-cli counts subscriptions, as the docstrings of `dbus_client.py:316` and `:325` say,
and forgets them when it stops. `After` is the count once everything on the wire has been
handled. The connection is condensed: it is down when an outage is noticed or a call fails;
`Ask` is the last answer of signal-cli to `connect()`, and `Reconnect` the adoption some
awaits later, when signal-cli may have vanished again (`gone`), which the new bus may have
heard or not. `failed` records that the last `subscribeReceive`, of `connect()` or of a first
client, found nobody to go to. The details of the connection are in `SignalClient`. Calls on
a bus that is being replaced may get through or be lost, each on its own.

### Bridge

Signals are numbered by their emission; `inbox` is what the adopted bus has received and
`_handle_message` has not seen, where 0 stands for the notice that signal-cli vanished, and
`fresh` is the same for the bus of a running `connect()`, which has match rules before it
has a handler (`dbus_client.py:153-157`). `bus` counts the buses adopted, `handled` lists
the signals handled with the bus each was read from, `since` is the last signal emitted when
the current bus was adopted. `loop` condenses `connect()` to `asked`, `matched` (the rule for
signals is there), `ready` (the rule for owners, too) and `resub`, the steps at which what is
heard, or what an outage does, differs; `SignalClient` has all of them.

A client is at `place[w]`: `away`, `idle`, in a call that signal-cli has (`calling`), that
fails because signal-cli went away (`doomed`) or that was made on a bus since replaced
(`stale`; it may still end normally, if its reply came before the change of bus), or
`waiting`: it was told `"reconnecting": true` and, as `METHODS.md:21` says, retries once it
hears `Reconnected`. Scheduled control messages wait in `queue[w]` until they are written.
The reply says `reconnecting` if the link is down when it is put together, after
`note_error` has run. `Link` is implemented with the clients present and the last control
message scheduled to each.

### Methods, AsyncApi and Api

A JSON value is one of 14 kinds, chosen so that each conversion and each DBus type treats all
values of a kind alike (`text`, `base64`, `digits`, integers of 32 bits, of 64 bits and
beyond, `infinity`, ...); `Missing` stands for a parameter that is not given. A method is a
sequence of forms, of which the handler takes the first whose parameter is given
(`isRegistered`, `updateProfile`); a form is the calls it makes, and a call the DBus types it
announces with the arguments made of the parameters, in the order in which Python evaluates
them. A conversion ends in `ok`, `bad` (KeyError, TypeError, ValueError: answered with bad
params), `dies` (caught by no clause) or `os` (an OSError, not caught either, and taken for a
transport error by `note_error`). A DBus type or JSON schema is how many arrays are around
what leaf.

`Api` runs one request: `Receive` prepares and makes the first call, `Return` the next one or
the reply, `Fail` raises; `reply` is a kind of answer of either endpoint. `LinkDown` and
`LinkUp` are other tasks changing the connection meanwhile. What is published of a method
follows from a list of variants that signal-cli introspects (`Introspections`): in any order,
with the names of their arguments or without, those the dispatcher calls and those with one
recipient in the place of several, which it does not. Arguments without a name are published
as `arg0`, `arg1`, ... (`ParseArgs`).

### Accounts

An account as written, and the last part of an object path, are a prefix (`+`, `_`, `%2B`, a
blank) and a number, so that the two conversions in different files
(`dbus_client.py:108,305` and `signals.py:15-26`) are what they are: a change of prefix.
`loop` follows `connect()` over every answer of signal-cli; `mode` and `exported` are
signal-cli's, which restarts in either mode and whose accounts come and go at any moment,
`default` is the path of `_signal_iface`, and `disturbed` records that signal-cli has changed
since `connect()` began to look. `resub` is the renewal of the subscription after an
adoption, during which a loss starts no new loop. A request is one step, its end: the object
it is for and what becomes of it are decided at once, and it may always end with a timeout or
an OSError, or belong to a bus given up meanwhile, which `note_error` takes for a lost link
(`transport`). Where calls in flight stand is in `SignalClient` and `Bridge`.
An autodiscovered account stays the default as long as the link lasts, and so does the root
object of a multi-account signal-cli without accounts, which then serves nobody.

## Runs

| Run | Checks | Bounds | States |
|---|---|---|---|
| `connection_safety` | `TypeOK`, `OneReconnectLoop`, `LoopsWorkOnlyWhileDown`, `OutagesAreNoticed`, `CallsUseCurrentBus`, `OnlyRenewalsStrand`, `LinkSpec` | 4 buses, 2 tasks, 1 call, 1 account, 2 clients, 2 unread notices per bus; `wait_for` of Python 3.12 | 448 000 |
| `connection_live` | `AlwaysRecovering`, `EventuallyConnected`, `PromptReconnect` | 3 buses, 1 task, 1 call, no clients; `wait_for` of Python 3.11 | 136 000 |
| `stranded` | `AlwaysRecovering` is violated with a client | as `connection_safety`, 1 client | – |
| `missed_outage` | `LastingOutageShows` is violated | 3 buses, 1 task, no calls | – |
| `session` | `TypeOK`, `NoGap`, `RepeatsOnlyWhileSubscribing`, `EndedIsDiscarded`, `HandlersEnd` | 2 clients, token required, buffer of 2, 3 events, 1 request per client | 205 000 |
| `ghost_client`, `in_flight` | `OnlyConnectedCount`, `InFlightCallsAnswered` are violated | as `session` | – |
| `keep_alive` | `TypeOK`, `OneWhileConnected`, `NeverUnsubscribed`, `LeakIsBounded` | 3 clients, 3 outages | 4 900 |
| `keep_alive_leak` | `NoneWithoutClients` is violated | as `keep_alive` | – |
| `bridge` | `TypeOK`, `NoStuckWaiter`, `StreamIsComplete`, `RepeatedOnlyByNextBus`, `WaitersGoOn`, `LinkSpec` | 2 clients, 2 calls, 1 outage, 1 event | 145 000 |
| `api` | `TypeOK`, `RefusedIsUndone`, `UnsentKeepsLink`, `SilenceHasCause`, `ValidIsAccepted`, `WidestIsPublished`, `EventsLookAsPublished` | all 48 methods on both endpoints; any parameter of any kind or missing, and a second one missing, a text or infinite; lists of up to 3 variants; 1 outage | 486 000 |
| `accounts` | `TypeOK`, `NeverAnotherAccount`, `EventsNameTheirAccount`, `DefaultKeepsLink`, `ConfiguredInTheEnd` | 2 numbers, 1 stop of signal-cli, 2 changes of its accounts | 560 000 |

Why the bounds are enough to be interesting. *Buses*: one adopted, one of a running
attempt, one still held by a call or an unresolved watcher, and one to spare; an object
that nothing refers to is reused, so histories are unbounded. *Tasks*: two, so that a
second loop could start beside the first if the code let it; `OneReconnectLoop` shows that
one identity suffices, which the liveness runs use. *MaxNotices* is 2: a vanish and an
appearance that are both unread. The bound also keeps signal-cli from changing its state
while a bus has two unread notices, so three changes before the loop reads one are not
explored; the proofs hold for every bound. *Buffer of 2 and 3 events*: a full buffer that
evicts while a client waits. *Bridge*: two clients and two calls, so that one client waits
while the call of the other reports the outage, or leaves the link stranded. With one event,
the run shows it lost or repeated over the buses; that several events stay in order on a bus
is what the theorem `RepeatedAtMostOnce` adds, for any number of them. *Accounts*: one stop
lets signal-cli come back in the other mode in the middle of `connect()`; two changes let
an account go and another come, or come late.

*Deadlock* is checked but in the runs of `WebSocketSession`, `Bridge` and `Api`: there
clients connect once, make a bounded number of calls, or make one request, and in the end
nothing may be left to do.

Buses and tasks (and the clients of `KeepAlive`) are compared only for equality and are
symmetry sets in the safety runs; the liveness runs use no symmetry.

### Fairness

`Coroutines`: the event loop runs every coroutine that can go on, and each call of
`connect()` is answered or fails (signal-cli answers or vanishes). `BackoffElapses`: the
timer of the loop runs out; `EventuallyConnected` assumes it and `PromptReconnect` does
not, so there the loop goes on only when it is woken. Nothing is assumed of signal-cli or
of the daemon staying, of calls being made, failing or returning, or of clients. In
`WebSocketSession` every handler step that can run is run, and a call returns or times out
(`CALL_TIMEOUT`); signals, requests and connections come as they like. `Bridge` assumes the
same of its event loop (reading the buses, `connect()`, scheduled sends, calls that return,
fail or time out) and that signal-cli comes back, without which no client could go on.
`Accounts` assumes only that `connect()` and the reading of notices go on; what signal-cli
exports for good is a premise of `ConfiguredInTheEnd`.

## Proofs

Each proof module proves its theorems for all values of the constants, from the assumption on
constants that its model names alone (`ConstantsAssumption`: identities of different kinds
differ; `BoundsAssumption`, `LoopAssumption`: bounds are natural numbers, the numbers of
accounts are finitely many, the reconnect loop is no client).

| Module | Theorem | Says |
|---|---|---|
| `SignalClientProofs` | `Invariance`, `TypeCorrect` | `IInv`, the inductive invariant; `TypeOK` |
| | `SingleLoop`, `LoopOnlyWhileDown` | `OneReconnectLoop`, `LoopsWorkOnlyWhileDown` |
| | `CallsStayCurrent` | `CallsUseCurrentBus`, unless `HandlerInTask` |
| | `NoOutageOverlooked` | `OutagesAreNoticed` |
| | `ImplementsLink` | `SignalClient` implements `Link` |
| | `StrandedByRenewals` | `OnlyRenewalsStrand` |
| | `NeverStranded` | `AlwaysRecovering`, if there are no clients |
| `BridgeProofs` | `TypeCorrect`, `WaitersAreCalled`, `NothingLostOnABus` | `TypeOK`, `NoStuckWaiter`, `StreamIsComplete` |
| | `RepeatedAtMostOnce` | `RepeatedOnlyByNextBus` |
| | `ImplementsLink` | `Bridge` implements `Link` |
| `WebSocketSessionProofs` | `TypeCorrect`, `NothingMissed`, `EndedAreDiscarded` | `TypeOK`, `NoGap`, `EndedIsDiscarded` |
| `WebSocketRepeatsProofs` | `RepeatsAreExplained` | `RepeatsOnlyWhileSubscribing` |
| `KeepAliveProofs` | `TypeCorrect`, `OneSubscription`, `ClientsAreSubscribedFor` | `TypeOK`, `OneWhileConnected`, `NeverUnsubscribed` |
| | `LeakBounded` | `LeakIsBounded` |
| `AccountsProofs` | `TypeCorrect`, `DefaultIsSafe` | `TypeOK`, `DefaultKeepsLink` |
| | `RequestsReachTheirAccount`, `EventsAreRoutable` | `NeverAnotherAccount`, `EventsNameTheirAccount` |
| `ApiProofs` | `TypeCorrect`, `RefusalsAreUndone`, `SilenceIsExplained` | `TypeOK`, `RefusedIsUndone`, `SilenceHasCause` |
| | `UnsentIsHarmless` | `UnsentKeepsLink` |
| | `PublishedIsWidest`, `ValidReachesSignal` | `WidestIsPublished`, `ValidIsAccepted` |
| | `EventsFollowSchema`, `OthersLookAsDescribed` | `EventsLookAsPublished`; the same for signals of any number and depth of arguments |

**SignalClient.** `OneReconnectLoop` and `LoopsWorkOnlyWhileDown` are not inductive without
`Phases` (the initial connect comes first and alone). `CallsStayCurrent` needs
`CacheIsCurrent`, which holds because `connect()` clears the cache in the step that replaces
the bus, and `CallsStartAtOnce`, which is where the version of Python comes in: the theorem
assumes `~HandlerInTask`. With `HandlerInTask` set in `SignalClientSafety.cfg` TLC finds a
first call that goes out on a bus that has been replaced; second calls are safe in either
version. `NoOutageOverlooked` needs `AdoptedBus`: as long as the adopted bus is open and the
link up, it has its match rule and its watcher. A bus that has died may have lost its watcher
without a report, so nothing can be said of it, and the property names that step as its one
exception. `AdoptedBus` in turn needs `FreshBuses`: a bus that is `ready` and open has its
match rule, and is not the adopted one; and `ClosedBuses`: nothing arrives on a bus that is
closed. `ImplementsLink` needs that a connection is made only while the
link is down, which is `LoopsWorkOnlyWhileDown`, and that clients join only after the
first connection. `StrandedByRenewals`
takes the run `stranded` to every value of the constants: of all steps only the return of
`subscribeReceive` inside `connect()` leaves the link down with no loop, because every other
step that takes the link down starts one or finds one that goes on; and any call that fails
with a transport error brings it back. `NeverStranded` follows, as without clients there is
no renewal.

**Bridge.** `CInv` is `TypeOK`, `Phases`, `NoStuckWaiter` and `StreamIsComplete` together.
`Phases` is needed because a link that is up must not be connected again (the clients would
hear `Reconnected` without a loss) and because before the first bus nothing is read. A client
begins to wait only in a step that leaves the link down; the link comes up only in
`Connected`, which schedules `Reconnected` to everybody present; and what is scheduled leaves
the queue only by `Deliver`, which ends the wait. `RepeatedOnlyByNextBus` needs `Order`: what
waits on either bus is in the order of emission, the fresh bus has nothing from before the
adoption of the current one, and whatever was handled precedes what waits on the current
bus, unless the previous bus handled it.

**WebSocketSession.** `SInv` adds to `TypeOK` that the buffer holds the latest events
(`BufferIsLatest`), where each handler stands and what is empty there (`Ordered`), that no
request is answered twice (`Counted`), and that from registration on every new event reaches
the client (`Streamed`). `NoGap` alone says nothing of a client that still waits for
`subscribeReceive`, and its snapshot would not be known to be the right one.

`RepeatsOnlyWhileSubscribing` counts, and is proved without counting: what was written live
and then what waits in the queue ascend, all later than `since`; what was replayed and then
what is left of the snapshot ascend, up to `taken`. So an event stands in each at most once,
and in both only if it is between the two.

**Induction.** The induction theorems of the library take an operator as a parameter, which
the provers cannot instantiate. `SequenceInduction` states them for sets: a set that has 0 and
with `n` also `n + 1` has every natural number, and a function that is described by its first
value and its steps exists and is unique. It rests on the order of the natural numbers being
well-founded.

**KeepAlive.** `After` is a recursive function over the calls on the wire. By induction over
them it is a number, a call that is sent is applied last (`CountAppend`), and handling the
first leaves it as it is (`CountTail`); so whichever calls of a replaced bus get through, the
renewal that follows them counts. `KInv` joins to the three properties that `connected_clients`
is what the handlers say (`ClientsAreThere`), that a signal-cli that has stopped is known of or
will be, or the last `subscribeReceive` has `failed` (`OutageShows`), that what `connect()`
misses is an outage of its own (`AskedWhileDown`), and that before the first outage nothing has
happened to the connection (`Unbroken`). `ClientsAreSubscribedFor` has the exception `failed` because the code
has it: without it TLC finds clients that are left without a subscription, as `connect()` has
adopted a bus when signal-cli had vanished again, and the renewal was never repeated.

`LeakIsBounded` is tight: the run of three outages reaches seven subscriptions. It is not
inductive, since an unsubscription on the wire that `After` counts on may still be lost. So
`LInv` bounds both what is left behind and what would be if every unsubscription on the wire
were lost (`Coming`, the subscriptions on the wire counted by cardinality), by the outages the
connection has already been through (`Past`, which does not count the one that a running
`connect()` has missed). The second bound is one higher while the first
client waits for its `subscribeReceive`. It falls back when that call is handled because the
handlers are served in order: nobody is the last to leave while the first still waits, so no
unsubscription stands behind its call (`FirstIsLast`), the two counts agree at that moment, and
the first bound gives the second.

**Accounts.** `AInv` adds `ChoiceIsConfigured`: with `SIGNAL_ACCOUNT`, the path under way and
the default are its object or the root. The root serves an account in single-account mode
only, so a request without an account never reaches another one in multi-account mode, even
if signal-cli has changed its mode since the choice. `DefaultKeepsLink` needs `LinkInv`: as
long as nothing is `disturbed`, what `connect()` has seen so far, and the default afterwards,
is what signal-cli has. So a call to the default object does not end in UnknownObject or
ServiceUnknown, and takes the link down only by an error of the transport.

`NeverAnotherAccount` and `EventsNameTheirAccount` are about the last request or event, so the
theorems cover every one.

**Api.** The table of methods is gone through once (`MethodsSound`), with the result that
every handler has a form it can fall back on, makes one call or a lookup and one, and that
every argument `Fits` the type it is announced as: only attachments are looked up as files,
what is needed is published as required, and what looks as published is converted and
carried by DBus. From there on the proofs are about the handlers alone: `AInv` says how far
one is and what it has called, so that one that raises after a call has made a lookup and
nothing else.

What is registered of a list of variants is one of them and no narrower than any, by
induction over the list (`WidestIsRegistered`). `ValidIsAccepted` needs in addition that what
is published, if the dispatcher reads all its arguments (`Foreign` says which it does not), is
a form of the method (`PublishedIsAForm`), and that the handler chooses the form of just that
variant (`ChosenIsPublished`): all methods but two have
one form; `isRegistered` and `updateProfile` are published with the parameter that makes
their handler choose the widest form, or for `isRegistered` one of the two widest. Its
exceptions are where an argument does not fit: `remove` of the two reactions, attachments,
and `expiration`.

An event of the table of known signals is compared with its schema case by case; an argument
of any other is looked at by the depth of its arrays, and looks as its schema says exactly if it
is `Described`: the schema has no words for `u`, `d`, `v`, arrays of paths or of dictionaries,
and arrays of arrays. The run has
few types; `OthersLookAsDescribed` has all of them.

Model-checked only: liveness, which the provers cannot reach (`EventuallyConnected`,
`PromptReconnect`, `HandlersEnd`, `WaitersGoOn`, `ConfiguredInTheEnd`), each for the bounds of
its run. All other properties that the runs check are proved.

## Findings

Each is a violation run whose counterexample contradicts what the repository says.

1. `stranded` – an outage during `subscribeReceive` inside `connect()` starts no reconnect
   loop; the link stays down until something else reports an outage.
2. `missed_outage` – a lasting outage of an idle bridge is not always noticed, in two ways, each
   a finding: the transport ends with an error, which `wait_for_disconnect()` raises, and the
   watcher dies without a report (the counterexample TLC shows); or signal-cli vanishes while
   the match rules are registered (the one it shows with `[]daemon` as a premise). Either way
   the link is taken for up until a call is made.
3. `ghost_client` – a client that hangs up before or in its replay stays in
   `connected_clients`.
4. `in_flight` – a call that times out or meets a transport error ends the client's
   handler without a reply.
5. `keep_alive_leak` – subscribing again after an outage that was no restart leaves a
   subscription behind (at most two per outage, with one whose unsubscription was lost, as
   `LeakBounded` proves).

Properties that hold name some more limits of the code in what they except: a renewal of the
subscription that fails is never repeated, and the clients that stayed have none
(`NeverUnsubscribed`, `failed`), although `dbus_client.py:178` says that it is renewed "if
clients were connected during the outage"; on Python 3.11, which `src/pyproject.toml:10`
allows, a first call may go out on a bus that has been replaced, fail and take the new link
down, although `dispatch.py:97-99` says that no stale reference is held (`CallsUseCurrentBus`,
`HandlerInTask`); a call left on
the old bus takes the new link down when it ends (`CallDies` of a `stale` client in
`Bridge`); an attachment whose path cannot be looked up does so too (`UnsentKeepsLink`); an
infinite number, `params` that are no object and values that DBus cannot carry end a
WebSocket session (`SilenceHasCause`); reactions need `remove`, which is published as
optional, and where signal-cli lists an overload with one recipient first, or arguments
without names, what is published is not what the dispatcher takes (`ValidIsAccepted`); a
timeout, or an attachment that cannot be looked up, takes the link down for all
(`DefaultKeepsLink`); a plus that is not escaped in `?account=` arrives as a blank
and the request is refused (`Outcomes` in `Accounts`); a stranded bridge leaves its clients
waiting (`WaitersGoOn`); a restart in the other mode that `connect()` overlooks, as in
the second of `missed_outage`, leaves `SIGNAL_ACCOUNT` unused, and so does a stranded bridge
(`ConfiguredInTheEnd`).

## Assumptions about what is outside the repository

- `asyncio.wait_for` starts its coroutine at once from Python 3.12 on (`.python-version` says
  3.13), and in a task of its own in 3.11; `HandlerInTask` chooses, and both are checked.
- `MessageBus.wait_for_disconnect()` returns or raises when the transport ends;
  `disconnect()` does not raise, and nothing is delivered after it. A bus of a failed attempt
  delivers nothing to the bridge, as it has no handler.
- A signal-cli that is there carries out `subscribeReceive` and `unsubscribeReceive`.
- The daemon delivers the messages of one sender in order, and answers calls to a name
  that is not owned, or whose owner has gone, with an error.
- In `KeepAlive`, what gets through of the calls on a replaced bus reaches signal-cli before
  the calls on the new one. (Were an unsubscription on the old bus overtaken by the
  subscription on the new one, right after a restart, the two would cancel out.)
- `send_str` writes at once and may then wait for the connection to drain; on a closed
  connection it raises. `receive()` hands out what arrived before it reports a close. So an
  error reply is written in the step that puts it together, before sends that are only
  scheduled.
- In `Bridge` the account stays exported, so an attempt fails only while signal-cli is away.
- dbus-fast raises an error for a body that it cannot carry, of a type that the endpoints
  answer or not; a string passes for a list of its characters; a path with a blank is
  refused with an error that is answered.
- `Path.exists` raises some OSErrors, as it does up to Python 3.13.
- signal-cli introspects each method with some of the variants that the dispatcher calls, in
  any order and with the DBus types that the dispatcher announces, or variants of these with
  one recipient for several; a list of variants has the names of all its arguments, equal to
  the parameters, or none.
- The root object of a single-account signal-cli serves its account; that of a multi-account
  one serves none. A call to an object that does not exist is answered with UnknownObject.
- aiohttp decodes a plus in a query as a blank.

## Not modelled

- The values of the backoffs (1 to 60 s, 1 to 30 s) and of the timeouts: a wait may take
  any time. Hangs of signal-cli without an end: `connect()`, `subscribe_receive` and
  `unsubscribe_receive` have no timeout, so everything behind them waits as long.
- What methods return: results are wrapped by the handlers and published as the DBus return
  type, and nothing in the bridge reads either. The fall-back of `asyncapi.py` to
  SignalControl and the document around the schemas, for the same reason.
- `/health` and `/asyncapi.*`, which read one attribute.
- Configuration (read once, before anything runs; its values are constants), cancellation
  at shutdown, packaging and supervision.

## Plan

What is left: `Accounts` and `KeepAlive` composed with the buses of `Bridge`; and the results
of methods, if something comes to depend on them.
