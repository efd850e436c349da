# Verification of the Viam TypeScript SDK

TLA+ specifications of the Viam TypeScript SDK: how it connects to a robot and
keeps that connection, how calls and streams go through it, how a session keeps
a robot moving only while somebody watches, and what the clients built on top
make of the answers. TLC checks every module on a small instance; TLAPS proves
the safety of eight of them for every value of their constants. Source paths
below are relative to `src/` of the SDK.

## The system

| Component | State it keeps | Operations and callbacks |
|---|---|---|
| `RobotClient` (`robot/client.ts`) | `connecting`, `closed`, `isReconnecting`, `dialing` with its abort signal, saved options, `peerConn`, `dataChannel`, `transport`, the listeners | `dial`, `connect`, `disconnect`, `onDisconnect`, backoffs |
| `GRPCConnectionManager` (`robot/grpc-connection-manager.ts`) | `connecting`, a heartbeat loop | `start`, `heartbeat` |
| Dial options, tokens, ICE servers (`rpc/dial.ts`) | the options and credentials of the application, which it may write to; an access token | `dialDirect`, `dialWebRTC`, `makeAuthenticatedTransport`, `processWebRTCOpts` |
| `SignalingExchange` (`rpc/signaling-exchange.ts`) | `exchangeDone`, `iceComplete`, `haveInitResponse`, `callUuid`, `sentDoneOrErrorOnce`, the dial's timer | `doExchange`, `processCallResponses`, `onLocalICECandidate`, `terminate` |
| `BaseChannel`, `ClientChannel` (`rpc/*-channel.ts`) | `closed`, `ready`, `streamIDCounter`, the map `streams` | `unary`, `stream`, `closeWithReason`, data channel and ICE events |
| `ClientStream` and its two subclasses, `BaseStream` (`rpc/*-stream.ts`) | `closed`, `headersReceived`, `trailersReceived`, the promise of the call, the packet buffer, the queue of writes and the response iterable | `onResponse`, `writeMessage`, `resetStream`, `closeWithRecvError` |
| `SessionManager`, `SessionTransport` (`robot/session-*.ts`) | `sessionsSupported`, `currentSessionID`, `starting`, heartbeat loops, the table of monitored methods | `getSessionMetadata`, `reset`, `heartbeat` |
| `StreamClient`, `EventDispatcher` (`extra/stream/client.ts`, `events.ts`) | the names of added streams, listeners, a timer for each `getStream` | `add`, `remove`, `getStream`, re-adding after a reconnection |
| Component and service clients, the robot API (`components/`, `services/`, `robot/client.ts`) | headers of their call options, the transport a client was made with | one request per method |
| Application clients (`app/`) | pages that remember where they ended | one request per method, uploads, exports, `connectToMachine` |

`RobotClient.dial` runs a backoff around `connect`, first over WebRTC, then over
gRPC. `connect` calls `rpc.dialWebRTC`, which buys tokens, makes the peer
connection and runs a `SignalingExchange`; the exchange owns a `ClientChannel`,
whose `ready` promise it awaits. The channel becomes the client's transport.
Calls of the resource clients go through `SessionTransport`, which asks
`SessionManager` for metadata, and then to the channel's `unary` or `stream`.
When the data channel closes, `RobotClient.onDisconnect` starts a reconnection,
which is another backoff around `connect`. A gRPC connection has no close event:
the heartbeat of `GRPCConnectionManager` calls `onDisconnect` when it fails.
`StreamClient` hears of a reconnection and of new tracks by the events of
`RobotClient`. `ViamClient` talks to the app over a direct transport of its own,
and dials a machine by way of `createRobotClient`.

### What is hard here

JavaScript runs each callback to completion, so there are no data races; what
is hard is everything between two `await`s.

- Several dials, reconnections and connects of the application overlap, and a
  disconnect comes at any moment. They share one client and its flags.
- Listeners move from one data channel to the next while close events of old
  channels are still due.
- The robot and the signaling server answer late, twice, in the wrong order or
  never; the channel ends between the registration of a call and its write.
- Messages arrive as packets, are written to an iterable by a queue of
  promises, and are read at the application's own pace, while trailers, resets
  and the end of the channel overtake them.
- Timers (backoff, dial, heartbeat, `getStream`) race the answers.
- Promises must settle: `connecting`, `ready`, `starting`, and that of each call.
- One object of options serves WebRTC, its fallback and every reconnection, and
  holds credentials for two servers.
- Lists grow while they are paged through, machines get other main parts and
  secrets while they are looked up.

What makes each component correct: one connect at a time dials and nothing it
opens is lost (`RobotClient`); credentials and tokens reach only the server they
are for (dial options); a channel that became ready is announced, candidates are
only of a call the other peer knows and none follows the end, and the dial ends
(`SignalingExchange`); a response reaches
exactly the call it is for and only a complete answer is a success
(`ClientChannel`); a reader gets whole messages in their order and an end only
where the server made one (streams); monitored calls carry a session that
heartbeats keep alive (`SessionManager`); the set of streams is what the robot
streams (`StreamClient`); what a stream brings reaches the application in order
and once (resource clients); pages, uploads and exports are whole, and a part's
secret goes to an address of that part (application clients).

## The modules

| Module | Models | Builds on |
|---|---|---|
| `RobotClient` | the connection lifecycle, with `GRPCConnectionManager` | `DialEnds` of `SignalingExchange` justifies that a dial ends |
| `DialOptions` | options, credentials, tokens and ICE servers of a dial | |
| `SignalingExchange` | one WebRTC dial | an instance of `ClientChannel` |
| `ClientChannel` | calls multiplexed over a data channel | |
| `MessageStream` | abstract: a queue of messages that is read | |
| `ResponseStream` | packets, queue, iterable and request framing of one stream call | implements `MessageStream` |
| `SessionManager` | the session of one client, its starts and heartbeats | `ThrowsClosed` and unsettled calls as `ClientChannel` has them |
| `StreamClient` | camera streams and tracks around a reconnection | calls end as in `ClientChannel` |
| `ResourceMethods`, `ResourceCalls` | every method of the resource clients by what it makes of the answer; calls of them | lost and ended streams as in `ClientChannel` and `ResponseStream`, metadata as in `SessionManager` |
| `FleetMethods`, `FleetClient` | every method of the application clients; calls of them, pages, uploads, `connectToMachine` | |

`MC*` modules give small values to the constants. `*Proofs` modules hold the
theorems; `DialProofs` those of both dial modules, for which the definitions of
`DialOptions` that both would have bear `Options` in their names (`OptionsInit`,
`OptionsSpec`, ...). Operators marked as mutants are changed forms of the
operator after them that a plausible bug would make; no specification uses them.

### RobotClient

A *task* is a call chain that ends in `connect`: a dial, a connect of the
application, or a reconnection. `onDisconnect` starts at most one reconnection
for each connection, so a reconnection bears that connection's number. `task`
says where a task stands: about to make an attempt, waiting for another
connect, dialing, verifying a gRPC transport, with an error for its retry
callback, or sleeping in its backoff.

| In the model | In the code |
|---|---|
| `Dial`, `UserConnect`, `Disconnect` | `dial`, `connect`, `disconnect` up to their first `await` |
| `Connect` | `connect` to its first `await`: waiting, or taking `connecting` and closing the connection held |
| `ConnectedWebRTC`, `DialedDirect`, `ConnectedDirect`, `ConnectFails` | the rest of `connect`, its `catch` and its `finally` |
| `Finish`, `Return` | what `finally` sets off in the same turn: waiting connects return, a waiting `disconnect` tears down |
| `AttemptDial`, `AttemptAborted`, `AttemptRefused` | `dialWebRTC`, `dialDirect` |
| `Retry`, `DialAborted`, `FallBack`, `DialFailed`, `ReconnectionFailed` | the retry callbacks, `tryWebRTCDial`, `tryDirectDial`, `performDial`, `dial` |
| `UserAbort`, `Aborted` | the application's `reconnectAbortSignal`, looked at between phases only |
| `OnDataChannelClose`, `HeartbeatFails` | `onDisconnect` and its two callers |

Continuations that are due run before any timer, event or application call
(`Macrotask`). `exponential-backoff` is external: it makes the first attempt at
once, asks the retry callback after an error, and sleeps. The value of
`shouldRetryOnError`, asked anew at each error of a reconnection, is a
nondeterministic choice. Without `reconnectMaxAttempts` a dial's backoff gets
`numOfAttempts: undefined`, which overrides the library's default: it is
unlimited (`NoMaximum`, `Unlimited`), and counts no attempts. A dial whose
`dialTimeoutMs` disables the timer may stay in its attempt for ever (`Untimed`,
`MayHang`). A channel may close between its `ready` and the line of `connect`
that listens for its close event, through the peer, the network or a dial timer
that fires there: `ConnectedWebRTC` chooses, and such an event is `"missed"`. The
ICE listener is left out: it calls
`onDisconnect` on the state `closed`, which a peer connection that was closed
locally does not report.

### DialOptions

One set of options serves a series of attempts, direct or WebRTC. An attempt is
the requests it makes: an authentication, one for another entity, the request
for more ICE servers, and the calls that follow. What is sent with each
(`sent`) and what the transport would add (`bearer`) are state; a token is who
made it and for whom. An access token may be absent, given or the empty string,
which some lines of `dial.ts` take for absent and others do not. Credentials are objects, so the entity that a WebRTC
attempt writes into credentials the application owns stays for its next dial.
TURN servers are records of scheme, host, port and transport; `IceConfig`
filters, overrides, strips and adds them in the order of `processWebRTCOpts`.

### SignalingExchange

One WebRTC dial from its peer connection on. It composes with `ClientChannel`:
the four variables of the data channel are handed to an instance of that module
without calls, whose actions (`OnChannelOpen`, `CloseWithReason`, ...) are
conjoined here with what the exchange does. `ChannelSpec` says that the dial
implements `ClientChannel`, which is also proved. The loop over the responses
is explicit about each of its awaits. `Decided` makes the end of `dialWebRTC`
follow its outcome before anything else happens. The timer is disabled where
`dialTimeoutMs` is 0 (`timer`). The uuid of an init response may be the empty
string, for which nothing is sent (`callUuid`, `MaySend`, `Dispatched`).
Responses are unbounded; the state is finite.

### ClientChannel

Each call has a kind (unary, stream), an id, its stream's flags and the promise
it waits for. `streams` holds the keys of the map. The server may send any
response for any id at any moment; responses that the code ignores are not
steps. The close event is split from the closing: between the two the channel
is not `closed` and writes fail. A unary call's cancellation and deadline are
those of Connect's `runUnaryCall` around the promise and do not reach the
stream. A message is one event here; its packets are in `ResponseStream`.

### ResponseStream

What goes through one stream call. A packet is the stretch of a message that it
carries: which message, from where on, how much. The server cuts messages into
packets of any size; `processPacketMessage` adds them up and drops a buffer that
grows too large, in the middle of a message, so that what is put together next
begins in the middle of one. Each message enters a queue of writes (`respStreamQueue`)
whose next write begins when the last has settled, that is when the reader has
taken it or the iterable was closed. A message that does not parse is skipped,
whole or torn, and the queue goes on (`ParseFails`). Trailers close the iterable
at once, past writes that wait, which are lost. An application that aborts, before
the headers or after, resets the stream and still reads (`Abort`). In
`MessageStream` a message that comes is queued, readable or dropped, and the end
is taken only from a queue that is shut and read out. Sizes are in units of the smallest packet.

### SessionManager

Monitored calls, the promise `starting`, one heartbeat loop per start, the
connection with its losses and replacements, the resets of `RobotClient`, and
the sessions the robot knows. `webRTC` says what becomes of a request in flight
when its connection ends: over gRPC-web it fails, over a `ClientChannel` it
never settles (`BaseStream.closeWithRecvError` settles nothing, which is what
`ClosedStreamsAreInert` of `ClientChannel` shows). The monitored calls are
driven as the spec tests drive them, by calling `getSessionMetadata`: inside the
SDK no call gets there (see the run `unwatched_motion`).

### StreamClient

The calls `add`, `remove`, the options calls and `getStream`; where the robot
refuses the track name, each asks again by the camera's own (`attempt`). The
robot's offers bring the tracks
(`TrackArrives`, through `peer.ts`), which `RobotClient` renames and emits. A
name is the sequence of its parts, so what replaces `:` by `+` and what replaces
`+` by `:` are modelled as that (`Replaced`), and the second does not undo the
first for a name with a `+`.
`unclear` collects the names two calls overlapped on or a call failed for:
nobody can know what the robot made of those.

### ResourceMethods and ResourceCalls

`ResourceMethods` lists every method of every resource client and of the robot
API in one of ten kinds, by what it does with the answer: drop it, hand it on,
put something in the place of what is missing, throw at it, read a stream to
its end, push it on a queue or yield it. `ResourceCalls` makes calls of them:
which transport it takes (`TransportFor`: that of the moment, or, when sessions
are disabled, the one the client was made with), whether it waits for a session,
and what the application gets. A client that keeps a transport is refused once
that one is lost, though the client has another (`RefusedOnlyWhenDown` does not
hold).

### FleetMethods and FleetClient

The same for the application clients, over one direct transport, with what is
particular to them: the page objects of `listDataPipelineRuns`, whose
`nextPage` may be called twice, on an old page and while the list grows;
`fileUploadRequests`, whose chunks are intervals of the file; streams that are
read into an array or a queue; methods that throw on arrays that do not
pair, or answer `undefined`, `null` or `''` for what is missing; and
`connectToMachine`, which looks up parts and secrets while others change them.
An address is the sequence of its labels. `getRobotSecretFromHost` cuts a name and
a location out of it (`LocationOf`, `PartOfHost`): at an address of a part they
are that part's, and at another, in no domain or a foreign one, they may be a
part's as well.

## What is checked

Every run is exhaustive within its bounds.

| Run | Instance | States | Shows |
|---|---|---|---|
| `client_dials` | 2 dials, one of them without a maximum and without a timer, 2 connections, 2 attempts, 1 disconnect | 42 074 | one connect at a time; every task with a maximum and a timer ends; the loss of the held connection is replaced or reported, unless its event was missed |
| `client_reconnect` | 1 dial, 1 connect, 3 connections with their reconnections, 2 attempts, 1 disconnect | 867 672 | an aborted dial enters no other phase; nobody waits for a connect that is over; nothing leaks; a closed client holds nothing; the held one is watched; `isReconnecting` is true of a reconnection; every step of a connect, or of a dial or reconnection with a maximum, brings it nearer to its end |
| `channel` | 2 unary and 2 stream calls | 686 110, up to symmetry | the map holds the open streams; only complete answers succeed; closed streams are inert; an ended channel holds nothing |
| `signaling` | 2 candidates, with and without trickle ICE, with and without a timer | 23 238 | no early candidate and none after done; ready is announced; errors after `ready` are harmless; a dial with a timer ends; the channel is used as `ClientChannel` allows |
| `session` | 3 monitored calls, both kinds of connection, 3 connections, 2 resets | 732 978 | a session has a heartbeat loop that goes on, unless it is stranded on a lost WebRTC connection; calls carry theirs; over gRPC-web every call that waits returns |
| `response_stream` | 4 units in packets of one or three, messages of up to two, 2 requests | 784 394 | messages are whole both ways; they are read as from one queue; an end is the server's; trailers end the reading |
| `dial_options` | 3 attempts over 2 credential objects; 4 ICE servers, 3 answers of the signaling server | 48 658 | credentials and tokens go to their server; the calls carry the external token; a given entity is kept; the ICE servers are those asked for |
| `stream_client` | 2 cameras, `east:cam` and `east+cam`, 2 calls, 1 `getStream`, 2 connections | 1 560 362 | the set of streams is the robot's; no track of a name without `+` is missed; the timer ends a listener |
| `resource_calls` | 1 client of any of 7 classes and the robot API, 2 calls, 2 connections, 2 messages | 964 840 | streams come in order and once; over gRPC-web their end is one |
| `fleet_client` | 3 calls, 2 parts, 7 addresses, files of 0 to 5 bytes in chunks of 2, pages of 1 | 198 144 | pages go on; uploads and exports are whole; a secret is of the part at the address, or of one it names |
| `client_disconnect_retries` | 1 dial, 2 connections | | a violation, see below |
| `unwatched_motion` | 1 client of any class, 2 calls, 2 connections | | a violation, see below |

The bounds: two dials are what it takes for one to abort the other, while one
falls back and one may not reconnect; the one that falls back has neither a
maximum of attempts nor a timer, so that the other must end beside it; three connections let the loss of a first
and of a second overlap with the making of a third; two attempts reach the
backoff's sleep and its end. Two calls of a kind let one be closed while the
other lives on. Two candidates let one come before and one after the remote
description. Three monitored calls let one start, one wait, and one start again
after a reset; the third connection replaces one that was lost in a start. A
message of two units and packets of one and three fits exactly, is too large by
one packet, or has a packet too large by itself, and four units are enough for a
message that is whole behind one that was too large; requests of 0, 3 and 4 units
cut to no, an uneven and an even number of packets. Three attempts are WebRTC,
fallback and one that finds what they left in the credentials. Two cameras let
one be added again while the other is added, and their names differ in what the
two renamings change. Two resource calls are one of any
kind beside a stream, on the same queue where both push. Files of 0, 1, 2, 4 and
5 bytes end before, at and after a chunk. The addresses are those of the parts,
three that have the name and the location of one in no domain or a foreign one,
and two of no part. More of each adds interleavings of the
same kinds. `fleet_client` has a constraint, `Apart`: `connectToMachine` and the
other calls share no state, so they need not be interleaved.

Deadlock is not an error in the runs whose application may stop calling; in
`ClientChannel` an ICE event may always come.

### Type invariants

Every type invariant is proved, and not run again. `MessageStream`, whose three
variables `ResponseStream` gives their values, has none.

### Disagreements with the code's own statements

| Run | Statement | What the code does |
|---|---|---|
| `client_disconnect_retries` | `robot/__tests__/client.spec.ts:579`: disconnect should stop retries | a sleeping backoff wakes after `disconnect`, clears `closed` and dials |
| `unwatched_motion` | `robot/session-manager.ts:252`: defaults are used where reflection fails | the table of monitored methods starts empty, and only a call of a method that is in it fills it; a motion goes out without a session |

More of these are stated in the modules as the definitions named here. TLC
refutes each; they are not among the runs.

| Definition | Statement | What the code does |
|---|---|---|
| `RobotClient!OldHandlerRemoved` | `robot/__tests__/client.spec.ts:149`: the old handler is removed before the new one is added | `cleanupEventListeners` runs when `dataChannel` is the new channel already; the old one keeps its handler |
| `RobotClient!SecondDialConnects` | `robot/__tests__/client.spec.ts:515`: the second dial should succeed | a dial that waited for a connect resolves although that connect failed |
| `RobotClient!MaximumByDefault` | `robot/client.ts:71`: the default of `reconnectMaxAttempts` is 10 | `performDial` passes `numOfAttempts: undefined`, which overrides the default of the backoff: it is unlimited |
| `RobotClient!AbortStopsRetries` | `robot/__tests__/client.spec.ts:519`: with abort, the first dial stops retrying | the retry callback sees the flags of the beginning of the dial; the backoff sleeps and counts on, without dialing |
| `RobotClient!NoLossIsMissed` | `robot/client.ts:1214`: listens to the data channel closing, and disconnects when that occurs | a channel that closed between `ready` and that line has had its close event |
| `RobotClient!DirectDialIsConnected` | `robot/dial.ts:4`: connect via WebRTC or gRPC and return a client | `isConnected` is false of a gRPC connection, and `createRobotClient` throws |
| `ClientChannel!StreamLimit` | `rpc/client-channel.ts:27`: the maximal number of streams | `Object.keys` of a `Map` is empty, so no call is refused |
| `SessionManager!ClosingResetsSession` | `robot/session-manager.ts:118`: the closing of the connection resets the session | the heartbeat in flight never settles over WebRTC, so nothing resets |
| `DialOptions!RefusesContradictions` | `rpc/__tests__/dial.spec.ts:297`: `signalingAccessToken` alone is legal | `dialWebRTC` makes it the `accessToken` of the signaling dial, whose second validation finds both and throws |
| `DialOptions!TurnListIsFiltered` | `rpc/dial.ts:116`: the TURN list is filtered to the server whose URI matches | servers whose URI does not parse stay |
| `DialOptions!AccessTokenIsFinal` | `rpc/dial.ts:48`: with `accessToken` the other authentication options have no effect | with external authentication the access token buys a token of the external service, which the calls carry |
| `DialOptions!SignalingCredentialsAreUsed` | `rpc/dial.ts:85`: `signalingCredentials` authenticate to the signaling server | with an `accessToken` of `''` the options keep `credentials`, which the signaling server gets instead |
| `ResponseStream!TooLargeIsDiscarded` | `rpc/base-stream.ts:33`: a message larger than the maximum is discarded | the packets after the one too many are put together and handed on as a message |
| `StreamClient!IdMatchesTheName` | `robot/client.ts:1236`: the stream id is overridden to match the name of the resource | a `+` that is in that name becomes a colon too, and its `getStream` misses the track |
| `StreamClient!GetStreamTimesOut` | `extra/stream/client.ts:171`: times out if no stream comes within 5 seconds | `add` is awaited first; where its call never settles, neither does `getStream` |

One more was met that no definition states: `robot/robot.ts:196` says a direct
connection that is lost emits no disconnect event, while `onDisconnect` emits one.

What a user may expect and no document promises is stated and refuted in the
same way:

| Definition | Expectation | What the code does |
|---|---|---|
| `ResponseStream!GoodEndIsComplete` | after trailers that say ok, the reader had every message that came | trailers close the iterable before writes that wait, which are lost |
| `ResourceCalls!RefusedOnlyWhenDown` | a call is refused for lack of a connection only while there is none | with sessions disabled a client keeps the transport it was made with, when another one took its place |
| `DialOptions!EntityFollowsTheAddress` | credentials without an entity are shown for the address that is dialed | an entity that one dial filled in stays for the next |
| `FleetClient!SecretOnlyToItsPart` | the secret of a part is used at that part's address only | an address in another domain, or in none, is dialed with the secret of the part that its name and location are of |

### Fairness

`RobotClient`: continuations and backoff timers run, a dial that is going on
ends one way or the other, if it has a timer (`DialEnds` of `SignalingExchange`;
a gRPC request has the browser's own limits), and an event that is due is
delivered. A dial with neither a maximum nor an answer keeps coming back, and
timers only run between its turns, so fairness is strong: a timer that is due
again and again runs, as the event loop has it. Nothing makes the application
act, a dial without a timer end, or a connection be lost; `TasksEnd` is of tasks
with a maximum, unless a dial without a timer hangs, for which all wait. `SessionManager`: a request
the robot can answer is answered and timers fire; a lost connection may stay
lost. `SignalingExchange`: the timer fires, if there is one, the browser's
promises settle, and the signaling server does not keep a call open for ever;
nothing makes the peers connect. `dialTimeoutMs` of 0 disables the timer, and of
such a dial `DialEnds` says nothing. `ResponseStream`: an application that is in its loop takes what is there
and hears of the end; nothing makes the server send. The other modules assume
no fairness.

## What is proved

For any values of the constants that satisfy the assumptions the modules name
(bounds are numbers, names of nobody are nobody's names, a call is not both
unary and stream). An invariant is seldom inductive as it stands; each proof
module begins with the strengthening `IInv`, whose preservation has one case
per action or kind of action.

**RobotClientProofs**: `TypeCorrect`, `OneConnectAtATime`, `WaitersAreServed`,
`ReconnectingIsTrue`, `NothingLeaks`, `ClosedIsEmpty`, `HeldHasListener`, and
the action property `AbortStopsAtThePhase`. That nothing
leaks needs that a connect which dials holds nothing (`DialingHoldsNothing`).
That no reconnection starts over needs that a loss is reported once
(`ReportedOnce`), which rests on what a close event, a heartbeat and a
verification each say of their connection (`Making`). Of the two liveness
properties, what needs no fairness is proved too. `StepsAreUsedUp`: each step of a
task that has a maximum lowers what it has to go, by an attempt or by a stage of
the attempt, and no step of another raises it, so `TasksEnd` only rests on steps
being taken; that a loss reported twice would start a reconnection anew is again
`ReportedOnce`. `LossReachesItsHandler`: the close event of the connection held,
if it comes after `connect` listened, finds its handler, which reconnects or
reports; what is left of `LossIsNoticed` is the delivery.

**DialProofs**, of `DialOptions`: `OptionsTypeCorrect`, `ExternalTokenIsUsed`,
`CredentialsAreSeparate`, `IceServersAreAsAsked` and `EntitiesAreAsGiven`. What a call carries was decided two requests ago and is
followed through each of them (`AttemptUses`, `ExternalIsAsked`,
`BearerIsBought`). Types need to know who may have made a token and whom a
request was sent to (`TInv`). What the peer connection is given is `IceConfig`
of what the signaling server named (`IceInv`), of which lemmas say what
filtering keeps, what overriding and stripping change, and what is added.

**DialProofs**, of `SignalingExchange`: `TypeCorrect`, `ReadyAnnounced`,
`CandidatesWait`, `DoneIsLast`, `ReadySurvives`, and
`ImplementsChannel`: `Spec => ChannelSpec`, so what a dial does to its data
channel, its timer and its giving up included, is a behaviour of `ClientChannel`
without calls. That a ready channel was announced rests on the order of the
handshake: the channel opens only when ICE connected, which takes a remote
description (`ConnectedHasRemote`), which takes the uuid of the call
(`InitThenRemote`). `done` is sent only after the remote description, when no
candidate waits any more (`DoneIsLate`, `NothingWaits`). The refinement needs one
invariant more: a closed data channel has had its close event or will
(`CloseIsDue`). What of `DialEnds` needs no fairness: `TimerGuardsReady`, that
a dial with a timer never awaits `ready` after it, since a timer that fired closed
the channel (`FiredCloses`) and a closed channel released `ready`; and `DialGoesOn`,
that such a dial, not decided, has a step of its own to come, of its timer or
of its loop over the responses.

**ClientChannelProofs**: `TypeCorrect`, `IdsAreUnique`, `MapAgrees`,
`TerminationIsFinal`, `ClosingReleases`, `AnswersAreComplete`, `TrailersAnswer`,
and the action property `InertOnceClosed`. Uniqueness of ids needs that every id
is below the counter (`IdsTaken`). That a closing stream takes exactly its own
key out of the map needs uniqueness. What a new call finds needs that a call not
made yet left no trace (`UnmadeIsClean`).

**ResponseStreamProofs**: `TypeCorrect`, `EndsAreTheServers`, `ResetsAreWanted`,
`MessagesAreKept`, and `ImplementsMessageStream`: packets, queue and iterable
together implement the one queue of `MessageStream`, over the messages that could
be parsed. What was taken, what is in
the iterable and what waits count on from one another, and a queue that failed
writes no more (`InOrder`); who closed the iterable is followed by `Closing`.
`MessagesAreWhole` says of any limits and sizes that what is handed on is put
together of the packets of one message up to its end, and that what the request
was cut into puts together again. Its invariant says what the buffer holds: the
packets of the message under way from some place on, which is its beginning
unless more than the limit of it came before (`Buffered`); that what was handed
on is of messages that are complete (`HandedOn`); and that the wire ends where
the last message written does (`RequestSent`). The cutting is arithmetic of
rounding up (`Count`, `Multiples`, `PacketsOf`). `TrailersAlwaysClose` and
`ClosedIsReadOut` are what of `TrailersEndReading` needs no fairness: after the
trailers the iterable is closed and with the application, and what is left in
it only gets less.

**SessionManagerProofs**: `TypeCorrect`, `SessionsAreKeptAlive`,
`CallsAreProtected`, `NobodyIsLeftBehind`. That a session has a loop that goes on
is proved with its one exception, a heartbeat that was in flight when a WebRTC
connection went (`Stranded`). That a call carries a session needs
what a start leaves behind at each of its awaits (`Decided`).

**StreamClientProofs**: `TypeCorrect`, `SetIsTheRobots`, `TracksAreHeard`,
`TracksOfTheirAsker`, `TimersEnd`. A name without a `+` is renamed and back to
itself (`NameComesBack`). The set of streams agrees with the robot only
between calls; during one, `NameKept` says how far the call got on either side.
Without a usable connection nothing is in flight (`ConnectionKept`).

**FleetClientProofs**: `TypeCorrect`, `SecretsStayWithTheirPart`,
`MainPartsAreDialed`, `PagesAreInOrder`, and `TransfersReachTheirEnd`, of
uploads, collected streams and logs. What is cut out of a part's own address is
that part (`CutOut`). A page's token is within the list that was,
so what is appended later comes after it (`PagesKept`); chunks are counted by the
arithmetic of rounding up (`ChunkCount`); calls that share a queue of logs each
push theirs behind what is there (`LogStep`).

**ResourceCallsProofs**: `TypeCorrect` and `StreamsReachTheApplication`. One predicate of a call (`Good`) is what every
step keeps of every call: where it comes from and went to (`Sender`), how much
of an answer there is before it can be read (`Unanswered`), and what a loop or a
generator has of its stream and gave of it to the application (`StreamRead`,
`Yielded`). A call of a client that keeps its first transport is the only one
that may go out on an older one.

Every invariant, action property and refinement of the passing runs is proved.
Only model-checked is liveness: `TasksEnd`, `LossIsNoticed`, `DialEnds`,
`WaitingCallsReturn`, `TrailersEndReading`. Proofs under fairness need `ENABLED`,
which is out of the prover's reach; that calls wait for a session exactly while one
is being started (`NobodyIsLeftBehind`) is what is proved towards the fourth, and
the theorems named above towards the others. `FoldSeq` in the bound of
`ResponseStream` is a fold, about which nothing can be proved, and no proof uses
that bound.

## What is not modelled

- `RobotClient` is modelled in part: the saved credentials and extra headers
  are in `DialOptions` as one set of options, debug logging and the ICE
  listener are left out.
- `peer.ts` and descriptions: negotiation is a step of the browser. Glare
  between two offers is left out, since the robot is the only one to offer
  again.
- A full send buffer: a write fails only when the channel is not open.
- `EventDispatcher.once`, which nothing in the SDK calls.
- The heartbeat loops of direct connections are state of `RobotClient`
  (`heartbeats`), but nothing says how many there may be.
- The fields of requests and answers, except where a method throws at them,
  drops them or puts something in their place.
- `debug.ts`, `main.ts`, `types.ts`, `assert.ts`, generated code and the
  examples: wrappers, lists of names, plain values and applications.

Read on the way and not expressed by a property, being matters of one line:
`disableDebugLogging` takes off a header named `_` and leaves `dtname`, the one
`enableDebugLogging` sets; `heartbeatMonitoredMethods` is static, so clients of different robots
share it; `hasHeartbeatOption` skips every other option as if it were a string;
`listRegistryItems` gives no token for the next page; the chunks of an upload are
cut when they are sent, from a buffer the application may have changed;
`dialTimeoutMs` starts to run after the authentication; a number with a fraction
makes `BigInt` throw where one is expected; `timeReceived` is filled from
`timeRequested` in tabular data.
