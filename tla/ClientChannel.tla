--------------------------- MODULE ClientChannel ---------------------------
(***************************************************************************)
(* gRPC calls multiplexed over one WebRTC data channel: BaseChannel,       *)
(* ClientChannel, ClientStream, UnaryClientStream and StreamClientStream   *)
(* of src/rpc.  A call is started by the application, gets a stream id,    *)
(* is registered in the channel's map of streams, and is driven by the     *)
(* responses the server sends for that id, in whatever order they come:    *)
(* the code does not trust the server, so neither does this model.         *)
(*                                                                         *)
(* JavaScript runs every callback to completion, so each callback is one   *)
(* action.  Message bytes, metadata and status texts are left out, and so  *)
(* is what the application reads from a response stream.                   *)
(***************************************************************************)
EXTENDS Integers, FiniteSets

CONSTANTS
    UnaryCalls,     \* the calls made with ClientChannel.unary
    StreamCalls,    \* the calls made with ClientChannel.stream
    MaxStreamCount  \* the constant of the same name (256 in the code)

Calls == UnaryCalls \union StreamCalls

ASSUME KindsAssumption == UnaryCalls \intersect StreamCalls = {}
ASSUME MaxStreamCountAssumption == MaxStreamCount \in Nat

NoId == -1

VARIABLES
    dc,                 \* RTCDataChannel.readyState; "closing" is taken with "closed"
    closeEvent,         \* the data channel's "close" event: "none", "pending", "delivered"
    closed,             \* BaseChannel.closed
    ready,              \* the promise BaseChannel.ready
    streamIDCounter,    \* ClientChannel.streamIDCounter
    streams,            \* keys of the map ClientChannel.streams
    id,                 \* the stream id a call was given, NoId before it is made
    streamClosed,       \* BaseStream.closed of each call's stream
    headersReceived,    \* ClientStream.headersReceived
    trailersReceived,   \* ClientStream.trailersReceived
    message,            \* UnaryClientStream.message is set
    result,             \* UnaryClientStream.result or awaitingHeadersResult: the promise
                        \* the call waits for (connect adds the caller's own deadline)
    inputDone           \* the stream call's input iterable has ended

chanVars == <<dc, closeEvent, closed, ready>>
mapVars  == <<streamIDCounter, streams, id>>
respVars == <<headersReceived, trailersReceived, message>>
vars     == <<chanVars, mapVars, streamClosed, respVars, result, inputDone>>

-----------------------------------------------------------------------------
Init ==
    /\ dc = "connecting"
    /\ closeEvent = "none"
    /\ closed = FALSE
    /\ ready = "pending"
    /\ streamIDCounter = 0
    /\ streams = {}
    /\ id = [c \in Calls |-> NoId]
    /\ streamClosed = [c \in Calls |-> FALSE]
    /\ headersReceived = [c \in Calls |-> FALSE]
    /\ trailersReceived = [c \in Calls |-> FALSE]
    /\ message = [c \in Calls |-> FALSE]
    /\ result = [c \in Calls |-> "none"]
    /\ inputDone = [c \in Calls |-> FALSE]

(* A promise settles once; later resolve and reject calls do nothing. *)
Settle(c, v) ==
    IF result[c] = "pending" THEN [result EXCEPT ![c] = v] ELSE result

Reject == ready' = IF ready = "pending" THEN "rejected" ELSE ready

(* The calls whose stream the channel's map still holds. *)
Registered == {c \in Calls : id[c] \in streams}

(* RTCPeerConnection.close and RTCDataChannel.close: nothing can be sent    *)
(* any more and the channel's close event is on its way, unless it came.    *)
CloseTransport ==
    /\ dc' = "closed"
    /\ closeEvent' = IF closeEvent = "none" THEN "pending" ELSE closeEvent

CloseKeepsId(c) ==                                  \* mutant of CloseWithRecvError
    streamClosed' = [streamClosed EXCEPT ![c] = TRUE] /\ UNCHANGED streams

(* BaseStream.closeWithRecvError of one stream: the id leaves the map. The  *)
(* promise of the call is not touched.                                      *)
CloseWithRecvError(c) ==
    /\ streamClosed' = [streamClosed EXCEPT ![c] = TRUE]
    /\ streams' = streams \ {id[c]}

(* dataChannel.send throws unless the channel is open; every write of a     *)
(* stream is wrapped in a catch that closes the stream.                     *)
CanSend == dc = "open"

WriteOrClose(c) ==
    IF CanSend THEN UNCHANGED <<streamClosed, streams>> ELSE CloseWithRecvError(c)

-----------------------------------------------------------------------------
(* The data channel's and the peer connection's callbacks. *)

(* The channel opens. *)
OnChannelOpen ==
    /\ dc = "connecting"
    /\ dc' = "open"
    /\ ready' = IF ready = "pending" THEN "resolved" ELSE ready
    /\ UNCHANGED <<closeEvent, closed, mapVars, streamClosed, respVars, result, inputDone>>

(* The channel is closed under the ClientChannel: by the server, by the     *)
(* network, or by RobotClient, which closes the peer connection and the     *)
(* data channel itself.  The close event has not been dispatched yet.       *)
ChannelLost ==
    /\ dc # "closed"
    /\ CloseTransport
    /\ UNCHANGED <<closed, ready, mapVars, streamClosed, respVars, result, inputDone>>

OnConnectionTerminatedOnce ==                       \* mutant: returns when closed
    /\ closed' = TRUE
    /\ IF closed THEN UNCHANGED <<ready, streamClosed, streams>>
       ELSE /\ Reject
            /\ streamClosed' = [c \in Calls |-> streamClosed[c] \/ c \in Registered]
            /\ streams' = {}
    /\ UNCHANGED <<streamIDCounter, id, respVars, result, inputDone>>

(* onConnectionTerminated: close the channel, then every stream it holds. *)
OnConnectionTerminated ==
    /\ closed' = TRUE
    /\ IF closed THEN UNCHANGED ready ELSE Reject
    /\ streamClosed' = [c \in Calls |-> streamClosed[c] \/ c \in Registered]
    /\ streams' = {}
    /\ UNCHANGED <<streamIDCounter, id, respVars, result, inputDone>>

(* The close event: BaseChannel's listener, then ClientChannel's. *)
OnChannelClose ==
    /\ closeEvent = "pending"
    /\ closeEvent' = "delivered"
    /\ OnConnectionTerminated
    /\ UNCHANGED dc

(* closeWithReason from the channel's error event or from the signaling     *)
(* exchange: the streams stay registered until the close event.             *)
CloseWithReason ==
    /\ ~closed
    /\ closed' = TRUE
    /\ Reject
    /\ CloseTransport
    /\ UNCHANGED <<mapVars, streamClosed, respVars, result, inputDone>>

(* ICE reports failed, disconnected or closed: BaseChannel rejects ready,   *)
(* then ClientChannel terminates, which closes the transport the first time.*)
OnICEDown ==
    /\ IF closed THEN UNCHANGED <<dc, closeEvent>> ELSE CloseTransport
    /\ OnConnectionTerminated

-----------------------------------------------------------------------------
(* Calls of the application. *)

nextStreamID == streamIDCounter

(* unary and stream: the id is taken before newStream looks at anything. On *)
(* a closed channel newStream throws; the check of MaxStreamCount compares  *)
(* Object.keys of a Map, which is always empty, so it never refuses a call. *)
(* Otherwise the stream is registered and the headers are written, and for  *)
(* a unary call the message too; when the transport is already closed but   *)
(* its close event has not come, the write fails and closes the stream.     *)
NewStream(c) ==
    /\ result[c] = "none"
    /\ id' = [id EXCEPT ![c] = nextStreamID]
    /\ streamIDCounter' = streamIDCounter + 1
    /\ \/ /\ closed
          /\ result' = [result EXCEPT ![c] = "failure"]
          /\ UNCHANGED <<streams, streamClosed>>
       \/ /\ ~closed
          /\ result' = [result EXCEPT ![c] = "pending"]
          /\ IF CanSend
             THEN /\ streams' = streams \union {nextStreamID}
                  /\ UNCHANGED streamClosed
             ELSE /\ streamClosed' = [streamClosed EXCEPT ![c] = TRUE]
                  /\ UNCHANGED streams
    /\ UNCHANGED <<chanVars, respVars, inputDone>>

(* sendMessages of a stream call: the input iterable yields another message *)
(* or it ends and the end-of-stream message is written.  The loop never     *)
(* looks at the state of the stream, and a write on a closed stream that    *)
(* fails closes nothing more.                                               *)
SendMessages(c) ==
    /\ c \in StreamCalls
    /\ c \in Registered \/ streamClosed[c]
    /\ ~inputDone[c]
    /\ \E last \in BOOLEAN : inputDone' = [inputDone EXCEPT ![c] = last]
    /\ WriteOrClose(c)
    /\ UNCHANGED <<chanVars, streamIDCounter, id, respVars, result>>

(* The input iterable of a stream call throws: the catch of sendMessages    *)
(* closes the stream.                                                       *)
InputFails(c) ==
    /\ c \in StreamCalls
    /\ c \in Registered \/ streamClosed[c]
    /\ ~inputDone[c]
    /\ inputDone' = [inputDone EXCEPT ![c] = TRUE]
    /\ CloseWithRecvError(c)
    /\ UNCHANGED <<chanVars, streamIDCounter, id, respVars, result>>

(* The abort signal of a stream call fires: resetStream writes a reset and  *)
(* leaves the stream registered, or closes it when the write fails.         *)
ResetStream(c) ==
    /\ c \in StreamCalls \intersect Registered
    /\ WriteOrClose(c)
    /\ UNCHANGED <<chanVars, streamIDCounter, id, respVars, result, inputDone>>

-----------------------------------------------------------------------------
(* onChannelMessage: a response for a registered stream; a response without *)
(* a stream, or for an id the map does not hold, is discarded.  A message   *)
(* already received may still be dispatched until the close event.          *)
OnChannelMessage(c) == closeEvent # "delivered" /\ c \in Registered

(* onHeaders: the second headers, and headers after trailers, are ignored. *)
OnHeaders(c) ==
    /\ OnChannelMessage(c)
    /\ ~headersReceived[c]
    /\ ~trailersReceived[c]
    /\ headersReceived' = [headersReceived EXCEPT ![c] = TRUE]
    /\ result' = IF c \in StreamCalls THEN Settle(c, "success") ELSE result
    /\ UNCHANGED <<chanVars, mapVars, streamClosed, trailersReceived, message, inputDone>>

(* onMessage, for a complete message; one before the headers is ignored. A  *)
(* unary call takes one message: the second one fails the call.             *)
OnMessage(c) ==
    /\ OnChannelMessage(c)
    /\ headersReceived[c]
    /\ ~trailersReceived[c]
    /\ message' = [message EXCEPT ![c] = TRUE]
    /\ result' = IF c \in UnaryCalls /\ message[c] THEN Settle(c, "failure") ELSE result
    /\ UNCHANGED <<chanVars, mapVars, streamClosed, headersReceived, trailersReceived, inputDone>>

TrailersOutcomeNoMessage(c, ok) ==                  \* mutant of TrailersOutcome
    IF c \in UnaryCalls
    THEN IF ok /\ headersReceived[c] THEN "success" ELSE "failure"
    ELSE IF ok \/ headersReceived[c] THEN "success" ELSE "failure"

(* What onTrailers does to the caller's promise, given the call's status. *)
TrailersOutcome(c, ok) ==
    IF c \in UnaryCalls
    THEN IF ok /\ headersReceived[c] /\ message[c] THEN "success" ELSE "failure"
    ELSE IF ok \/ headersReceived[c] THEN "success" ELSE "failure"

(* processTrailers: onTrailers settles the call and the stream closes,      *)
(* whether the status is OK or not.                                         *)
OnTrailers(c, ok) ==
    /\ OnChannelMessage(c)
    /\ trailersReceived' = [trailersReceived EXCEPT ![c] = TRUE]
    /\ result' = Settle(c, TrailersOutcome(c, ok))
    /\ CloseWithRecvError(c)
    /\ UNCHANGED <<chanVars, streamIDCounter, id, headersReceived, message, inputDone>>

-----------------------------------------------------------------------------
Callback == OnChannelOpen \/ ChannelLost \/ OnChannelClose \/ CloseWithReason \/ OnICEDown

Application(c) == NewStream(c) \/ SendMessages(c) \/ InputFails(c) \/ ResetStream(c)

Response(c) == OnHeaders(c) \/ OnMessage(c) \/ \E ok \in BOOLEAN : OnTrailers(c, ok)

Next == Callback \/ \E c \in Calls : Application(c) \/ Response(c)

Spec == Init /\ [][Next]_vars

-----------------------------------------------------------------------------
(* Type invariant.  A key of the map is an id that was handed out: the code's *)
(* assertion "invariant: stream should not exist yet" of newStream.           *)
TypeOK ==
    /\ dc \in {"connecting", "open", "closed"}
    /\ closeEvent \in {"none", "pending", "delivered"}
    /\ closed \in BOOLEAN
    /\ ready \in {"pending", "resolved", "rejected"}
    /\ streamIDCounter \in Nat
    /\ streams \subseteq 0 .. streamIDCounter - 1
    /\ id \in [Calls -> Nat \union {NoId}]
    /\ streamClosed \in [Calls -> BOOLEAN]
    /\ headersReceived \in [Calls -> BOOLEAN]
    /\ trailersReceived \in [Calls -> BOOLEAN]
    /\ message \in [Calls -> BOOLEAN]
    /\ result \in [Calls -> {"none", "pending", "success", "failure"}]
    /\ inputDone \in [Calls -> BOOLEAN]

(* Two calls never share a stream id, so a response reaches one call only,    *)
(* whatever calls were refused by a closed channel in between (nextStreamID). *)
UniqueIds ==
    \A c, d \in Calls : id[c] # NoId /\ id[c] = id[d] => c = d

(* The map and the streams agree: a stream the map holds is open, and a call  *)
(* that still waits on an open stream is in the map, so that its answer can   *)
(* reach it (newStream, removeStreamByID and every closeWithRecvError).       *)
MapHoldsOpenStreams ==
    /\ \A c \in Registered : ~streamClosed[c]
    /\ \A c \in Calls : result[c] = "pending" => streamClosed[c] \/ c \in Registered

(* After the close event the channel is closed and holds no stream: a call    *)
(* made around the loss of the connection cannot register after the loop of   *)
(* onConnectionTerminated has run.                                            *)
TerminatedHoldsNothing == closeEvent = "delivered" => closed /\ streams = {}

(* Whoever closes the channel, the waiters of BaseChannel.ready (dialWebRTC   *)
(* and the signaling exchange) are released.                                  *)
ClosedReleasesReady == closed => ready # "pending"

(* A unary call succeeds only when headers, a message and trailers arrived,   *)
(* in whatever order the server sent responses (onTrailers of the unary       *)
(* stream and the guards of onResponse).                                      *)
SuccessIsComplete ==
    \A c \in UnaryCalls :
        result[c] = "success" => headersReceived[c] /\ message[c] /\ trailersReceived[c]

(* A call whose trailers arrived is settled, whatever came before them.       *)
TrailersSettle ==
    \A c \in Calls : trailersReceived[c] => result[c] \in {"success", "failure"}

(* A late, repeated or misordered response never touches a stream that is     *)
(* closed.  As nothing else settles a call, a call that was pending when its  *)
(* stream closed (the connection ended) stays pending.                        *)
ClosedStreamsAreInert ==
    [][\A c \in Calls : streamClosed[c] =>
            /\ headersReceived'[c] = headersReceived[c]
            /\ trailersReceived'[c] = trailersReceived[c]
            /\ message'[c] = message[c]
            /\ result'[c] = result[c]]_vars

(* "MaxStreamCount is the max number of streams a channel can have."          *)
StreamLimit == Cardinality(streams) <= MaxStreamCount

=============================================================================
