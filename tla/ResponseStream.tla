--------------------------- MODULE ResponseStream ---------------------------
(***************************************************************************)
(* The messages of one stream call over a ClientChannel: BaseStream puts   *)
(* the packets of a response together, StreamClientStream writes the       *)
(* messages to an iterable the application reads, and ClientStream cuts    *)
(* the messages of the request into packets.  ClientChannel has the calls, *)
(* their ids and their promises; this module has what goes through one.    *)
(*                                                                         *)
(* A packet is the stretch of a message it carries: which message, from    *)
(* where, and how much.  A message that was put together is the sequence   *)
(* of its packets; further on it is a number, in the order in which        *)
(* messages were parsed.                                                   *)
(***************************************************************************)
EXTENDS Integers, Sequences, SequencesExt

CONSTANTS
    MaxMessageSize,     \* the constant of the same name (2^25 in the code)
    MaxPacketDataSize,  \* maxRequestMessagePacketDataSize (16373 in the code)
    PacketSizes,        \* the sizes of the packets the server sends
    RequestSizes,       \* the sizes of the messages the application sends
    MaxSent,            \* bound: how much the server sends, of all messages
    MaxRequests         \* bound: messages of the request

ASSUME MaxMessageSizeAssumption == MaxMessageSize \in Nat \ {0}
ASSUME MaxPacketDataSizeAssumption == MaxPacketDataSize \in Nat \ {0}
ASSUME PacketSizesAssumption == PacketSizes \subseteq Nat
ASSUME RequestSizesAssumption == RequestSizes \subseteq Nat
ASSUME BoundsAssumption == MaxSent \in Nat /\ MaxRequests \in Nat

VARIABLES
    open,           \* RTCDataChannel.readyState is "open"
    closed,         \* BaseStream.closed
    headers,        \* gotHeaders
    trailers,       \* "none", or the status of the trailers: "ok" or "error"
    call,           \* the promise of stream(): "pending", "success" or "failure"
    response,       \* environment: per message the server began, how much of it was sent
    complete,       \* environment: the last of them has had its end of message
    packetBuf,      \* BaseStream.packetBuf
    packetBufSize,  \* BaseStream.packetBufSize
    messages,       \* the messages handed to onMessage, each as its packets
    parsed,         \* how many of them parseMessage could read
    queue,          \* respStreamQueue: the messages whose write has not begun
    writing,        \* the last write begun has not settled
    failed,         \* respStreamQueue is rejected
    items,          \* what respStream holds
    streamClosed,   \* respStream is closed
    taken,          \* the messages the application took from respStream
    reader,         \* the application: "none", "reading", "ended" or "stopped"
    aborted,        \* the application aborted the call's signal
    reset,          \* a reset was written
    written,        \* the sizes of the messages of the request
    inputDone,      \* the request has ended
    wire            \* the packets of the request

transportVars == <<open, closed, trailers>>
packetVars    == <<response, complete, packetBuf, packetBufSize, messages, parsed>>
queueVars     == <<queue, writing, failed>>
readVars      == <<items, streamClosed, taken, reader>>
requestVars   == <<written, inputDone, wire>>
vars == <<transportVars, headers, call, packetVars, queueVars, readVars, aborted, reset, requestVars>>

-----------------------------------------------------------------------------
Init ==
    /\ open = TRUE
    /\ closed = FALSE
    /\ headers = FALSE
    /\ trailers = "none"
    /\ call = "pending"
    /\ response = <<>>
    /\ complete = TRUE
    /\ packetBuf = <<>>
    /\ packetBufSize = 0
    /\ messages = <<>>
    /\ parsed = 0
    /\ queue = <<>>
    /\ writing = FALSE
    /\ failed = FALSE
    /\ items = <<>>
    /\ streamClosed = FALSE
    /\ taken = <<>>
    /\ reader = "none"
    /\ aborted = FALSE
    /\ reset = FALSE
    /\ written = <<>>
    /\ inputDone = FALSE
    /\ wire = <<>>

(* resetStream: nothing on a closed stream; else a reset is written, and a  *)
(* write that fails closes the stream.                                      *)
ResetStream ==
    /\ reset' = (reset \/ (~closed /\ open))
    /\ closed' = (closed \/ ~open)

-----------------------------------------------------------------------------
(* Responses. *)

(* onHeaders: the call returns to the application, which reads. *)
OnHeaders ==
    /\ ~closed
    /\ ~headers
    /\ headers' = TRUE
    /\ call' = "success"
    /\ reader' = "reading"
    /\ UNCHANGED <<transportVars, packetVars, queueVars, items, streamClosed, taken, aborted, reset,
                   requestVars>>

(* A write of the message m begins, when the one before has settled: on a   *)
(* closed iterable it fails, and so does every write that is queued behind. *)
Write(m, rest) ==
    IF streamClosed
    THEN /\ failed' = TRUE
         /\ writing' = FALSE
         /\ queue' = <<>>
         /\ ResetStream
         /\ UNCHANGED items
    ELSE /\ items' = Append(items, m)
         /\ writing' = TRUE
         /\ queue' = rest
         /\ UNCHANGED <<failed, reset, closed>>

NewestFirst(m) ==                                   \* mutant of OnMessage
    IF failed THEN ResetStream /\ UNCHANGED <<queueVars, items>>
    ELSE IF writing
    THEN queue' = <<m>> \o queue /\ UNCHANGED <<writing, failed, items, reset, closed>>
    ELSE Write(m, <<>>)

(* onMessage: the message goes behind the writes that have not settled; on  *)
(* a queue that failed its write is skipped and the stream is reset again.  *)
OnMessage(m) ==
    IF failed THEN ResetStream /\ UNCHANGED <<queueVars, items>>
    ELSE IF writing
    THEN queue' = Append(queue, m) /\ UNCHANGED <<writing, failed, items, reset, closed>>
    ELSE Write(m, <<>>)

Fits(size) == size + packetBufSize <= MaxMessageSize

(* The packet as the server sent it: the next one of the message under way. *)
NextPacket(size) ==
    [msg |-> IF complete THEN Len(response) + 1 ELSE Len(response),
     from |-> IF complete THEN 0 ELSE Last(response),
     size |-> size]

Sent(size) ==
    IF complete THEN Append(response, size)
    ELSE [response EXCEPT ![Len(response)] = @ + size]

KeepsBuffer(size, eom) ==                           \* mutant of processPacketMessage
    /\ packetBuf' = IF ~eom THEN Append(packetBuf, NextPacket(size)) ELSE packetBuf
    /\ packetBufSize' = IF ~eom THEN packetBufSize + size ELSE 0
    /\ messages' = IF eom THEN Append(messages, Append(packetBuf, NextPacket(size))) ELSE messages

(* processPacketMessage: a packet that does not fit empties the buffer, be  *)
(* it the message's last or not; the end of a message hands it on.          *)
processPacketMessage(size, eom) ==
    /\ packetBuf' = IF eom \/ ~Fits(size) THEN <<>> ELSE Append(packetBuf, NextPacket(size))
    /\ packetBufSize' = IF eom \/ ~Fits(size) THEN 0 ELSE packetBufSize + size
    /\ messages' = IF eom /\ Fits(size) THEN Append(messages, Append(packetBuf, NextPacket(size)))
                   ELSE messages

(* parseMessage throws on what is no message of the method, such as the end *)
(* of one that was too large: nothing else of onMessage happens.            *)
ParseFails == UNCHANGED <<parsed, queueVars, items, reset, closed>>

(* processMessage: a packet arrives, after the headers.  (Before them it is *)
(* ignored.)                                                                *)
OnPacket(size, eom) ==
    /\ ~closed
    /\ headers
    /\ response' = Sent(size)
    /\ complete' = eom
    /\ processPacketMessage(size, eom)
    /\ IF eom /\ Fits(size)
       THEN (parsed' = parsed + 1 /\ OnMessage(parsed + 1)) \/ ParseFails
       ELSE UNCHANGED <<parsed, queueVars, items, reset, closed>>
    /\ UNCHANGED <<open, trailers, headers, call, streamClosed, taken, reader, aborted, requestVars>>

CloseBehind(ok) ==                                  \* mutant of CloseResponse
    streamClosed' = (streamClosed \/ queue = <<>>)

(* respStream.close(), whatever is queued to be written to it. *)
CloseResponse(ok) == streamClosed' = TRUE

(* onTrailers, and the closing of the stream: the iterable is closed; an    *)
(* error reaches the application only when the headers have not come.       *)
OnTrailers(ok) ==
    /\ ~closed
    /\ trailers' = IF ok THEN "ok" ELSE "error"
    /\ CloseResponse(ok)
    /\ closed' = TRUE
    /\ call' = IF headers THEN call ELSE IF ok THEN "success" ELSE "failure"
    /\ reader' = IF ~headers /\ ok THEN "reading" ELSE reader
    /\ UNCHANGED <<open, headers, packetVars, queueVars, items, taken, aborted, reset, requestVars>>

(* A write settles (when the message was taken, or before): the next one    *)
(* that waits for it begins.                                                *)
WriteSettles ==
    /\ writing
    /\ IF queue # <<>> THEN Write(Head(queue), Tail(queue))
       ELSE writing' = FALSE /\ UNCHANGED <<queue, failed, items, reset, closed>>
    /\ UNCHANGED <<open, trailers, headers, call, packetVars, streamClosed, taken, reader,
                   aborted, requestVars>>

-----------------------------------------------------------------------------
(* The application. *)

Read ==
    /\ reader = "reading"
    /\ items # <<>>
    /\ taken' = Append(taken, Head(items))
    /\ items' = Tail(items)
    /\ UNCHANGED <<transportVars, headers, call, packetVars, queueVars, streamClosed, reader,
                   aborted, reset, requestVars>>

ReadEnd ==
    /\ reader = "reading"
    /\ items = <<>>
    /\ streamClosed
    /\ reader' = "ended"
    /\ UNCHANGED <<transportVars, headers, call, packetVars, queueVars, items, streamClosed,
                   taken, aborted, reset, requestVars>>

(* The application leaves its loop, which may or may not close the iterable. *)
StopReading ==
    /\ reader = "reading"
    /\ reader' = "stopped"
    /\ \E stop \in BOOLEAN : streamClosed' = (streamClosed \/ stop)
    /\ UNCHANGED <<transportVars, headers, call, packetVars, queueVars, items, taken, aborted, reset,
                   requestVars>>

(* The application aborts its signal, before the headers or after: that     *)
(* resets the stream.  It neither settles the call nor ends the reading.    *)
Abort ==
    /\ ~aborted
    /\ aborted' = TRUE
    /\ ResetStream
    /\ UNCHANGED <<open, trailers, headers, call, packetVars, queueVars, readVars, requestVars>>

-----------------------------------------------------------------------------
(* The request. *)

(* How many packets writeMessage cuts a message into: an empty message is   *)
(* one empty packet.                                                        *)
PacketCount(size) ==
    IF size = 0 THEN 1 ELSE (size + MaxPacketDataSize - 1) \div MaxPacketDataSize

(* Each carries as much as one may; the last one has the rest and ends the  *)
(* message.                                                                 *)
Packets(m, size) ==
    [i \in 1 .. PacketCount(size) |->
        LET from == (i - 1) * MaxPacketDataSize
            last == i = PacketCount(size)
        IN  [msg |-> m, from |-> from, size |-> IF last THEN size - from ELSE MaxPacketDataSize,
             hasMessage |-> TRUE, eom |-> last, eos |-> FALSE]]

EndOfStream ==
    [msg |-> 0, from |-> 0, size |-> 0, hasMessage |-> FALSE, eom |-> TRUE, eos |-> TRUE]

(* sendMessages: a message of the input is written, or the end of the input.*)
(* On a channel that is not open the write fails and closes the stream; the *)
(* loop goes on all the same.                                               *)
SendMessage(size) ==
    /\ ~inputDone
    /\ Len(written) < MaxRequests
    /\ IF open
       THEN /\ written' = Append(written, size)
            /\ wire' = wire \o Packets(Len(written) + 1, size)
            /\ UNCHANGED closed
       ELSE closed' = TRUE /\ UNCHANGED <<written, wire>>
    /\ UNCHANGED <<open, trailers, headers, call, packetVars, queueVars, readVars, aborted, reset, inputDone>>

EndInput ==
    /\ ~inputDone
    /\ inputDone' = TRUE
    /\ IF open THEN wire' = Append(wire, EndOfStream) /\ UNCHANGED closed
       ELSE closed' = TRUE /\ UNCHANGED wire
    /\ UNCHANGED <<open, trailers, headers, call, packetVars, queueVars, readVars, aborted, reset, written>>

(* The input throws: sendMessages closes the stream. *)
InputFails ==
    /\ ~inputDone
    /\ inputDone' = TRUE
    /\ closed' = TRUE
    /\ UNCHANGED <<open, trailers, headers, call, packetVars, queueVars, readVars, aborted, reset, written,
                   wire>>

-----------------------------------------------------------------------------
CloseAndEnd ==                                      \* mutant of CloseWithRecvError
    /\ ~open
    /\ ~closed
    /\ closed' = TRUE
    /\ streamClosed' = TRUE
    /\ UNCHANGED <<open, trailers, headers, call, packetVars, queueVars, items, taken, reader, aborted,
                   reset, requestVars>>

(* The data channel goes. *)
ChannelLost ==
    /\ open
    /\ open' = FALSE
    /\ UNCHANGED <<closed, trailers, headers, call, packetVars, queueVars, readVars, aborted,
                   reset, requestVars>>

(* Its close event closes the stream, which settles nothing and closes no   *)
(* iterable.                                                                *)
CloseWithRecvError ==
    /\ ~open
    /\ ~closed
    /\ closed' = TRUE
    /\ UNCHANGED <<open, trailers, headers, call, packetVars, queueVars, readVars, aborted, reset,
                   requestVars>>

Packet ==
    \E size \in PacketSizes, eom \in BOOLEAN :
        FoldSeq(+, 0, response) + size <= MaxSent /\ OnPacket(size, eom)

Response == OnHeaders \/ Packet \/ \E ok \in BOOLEAN : OnTrailers(ok)

Request == EndInput \/ InputFails \/ \E size \in RequestSizes : SendMessage(size)

Next ==
    \/ Response \/ WriteSettles
    \/ Read \/ ReadEnd \/ StopReading \/ Abort
    \/ Request
    \/ ChannelLost \/ CloseWithRecvError

(* The application goes on reading until the end, or stops for good.        *)
Spec == Init /\ [][Next]_vars /\ WF_vars(Read) /\ WF_vars(ReadEnd)

-----------------------------------------------------------------------------
PacketRecord == [msg : Nat, from : Nat, size : Nat]
WireRecord ==
    [msg : Nat, from : Nat, size : Nat, hasMessage : BOOLEAN, eom : BOOLEAN, eos : BOOLEAN]

(* Type invariant.  What is put together never grows beyond the limit.       *)
TypeOK ==
    /\ open \in BOOLEAN /\ closed \in BOOLEAN /\ headers \in BOOLEAN
    /\ trailers \in {"none", "ok", "error"}
    /\ call \in {"pending", "success", "failure"}
    /\ response \in Seq(Nat)
    /\ complete \in BOOLEAN /\ (~complete => response # <<>>)
    /\ packetBuf \in Seq(PacketRecord)
    /\ packetBufSize \in 0 .. MaxMessageSize
    /\ messages \in Seq(Seq(PacketRecord))
    /\ parsed \in 0 .. Len(messages)
    /\ queue \in Seq(Nat) /\ items \in Seq(Nat) /\ taken \in Seq(Nat)
    /\ writing \in BOOLEAN /\ failed \in BOOLEAN /\ streamClosed \in BOOLEAN
    /\ reader \in {"none", "reading", "ended", "stopped"}
    /\ aborted \in BOOLEAN /\ reset \in BOOLEAN /\ inputDone \in BOOLEAN
    /\ written \in Seq(Nat) /\ wire \in Seq(WireRecord)

(* The packets p are all of message k, one goes on where the one before it   *)
(* ends, and together they carry it from one place to the other.             *)
Joined(p, k, from, to) ==
    /\ \A i \in DOMAIN p : /\ p[i].msg = k
                           /\ p[i].from = IF i = 1 THEN from ELSE p[i - 1].from + p[i - 1].size
    /\ to = IF p = <<>> THEN from ELSE Last(p).from + Last(p).size

(* The packets put together are those of one message, up to its end, and all  *)
(* of them unless that message is too large: no packet of another message     *)
(* gets in, none is missing, and messages come in the order in which they     *)
(* were sent (processPacketMessage over any packets).                         *)
ResponseIsWhole ==
    /\ \A m \in DOMAIN messages :
          LET p == messages[m]
              k == p[1].msg
          IN  /\ p # <<>> /\ k \in DOMAIN response
              /\ Joined(p, k, p[1].from, response[k])
              /\ response[k] <= MaxMessageSize => p[1].from = 0
    /\ \A m, n \in DOMAIN messages : m < n => messages[m][1].msg < messages[n][1].msg

(* Until a write fails, every message that could be parsed is with the        *)
(* application, in the iterable or in the queue, once and in its order        *)
(* (respStreamQueue), whatever was skipped between them.                      *)
NothingLost == ~failed => taken \o items \o queue = [i \in 1 .. parsed |-> i]

(* The application is told of an end only when the server sent its trailers:  *)
(* the loss of the connection in the middle never looks like an end.          *)
EndIsTheServers == reader = "ended" => trailers # "none"

(* A reset goes out only for an application that aborted or stopped reading:  *)
(* the writes that fail because trailers closed the iterable before them do   *)
(* not reset a stream the server is done with.                                *)
ResetIsWanted == reset => aborted \/ reader = "stopped"

(* The packets of the request, put together as they come: each goes on where  *)
(* the one before it ended, or begins the next message where that one has its *)
(* end of message, which is where the message ends and nowhere else.  So the  *)
(* server gets the messages that were written, whatever their sizes, of       *)
(* packets no larger than the limit, and the end of the stream is the last    *)
(* packet (writeMessage cuts as processPacketMessage joins).                  *)
Follows(p, q) ==
    IF p.eom THEN q.msg = p.msg + 1 /\ q.from = 0
    ELSE q.msg = p.msg /\ q.from = p.from + p.size

Framed(p, sizes) ==
    /\ p.hasMessage /\ ~p.eos
    /\ p.size <= MaxPacketDataSize
    /\ p.msg \in DOMAIN sizes
    /\ p.eom <=> p.from + p.size = sizes[p.msg]

RequestIsFramed ==
    /\ \A i \in DOMAIN wire :
          \/ wire[i] = EndOfStream /\ i = Len(wire)
          \/ /\ Framed(wire[i], written)
             /\ IF i = 1 THEN wire[i].msg = 1 /\ wire[i].from = 0
                ELSE Follows(wire[i - 1], wire[i])
    /\ \A m \in DOMAIN written : \E i \in DOMAIN wire : wire[i].msg = m /\ wire[i].eom

(* Messages are whole in both directions, whatever their sizes and packets.  *)
WholeMessages == ResponseIsWhole /\ RequestIsFramed

(* "message size larger than max; discarding": a message that is too large is *)
(* not handed on.                                                             *)
TooLargeIsDiscarded ==
    \A m \in DOMAIN messages : response[messages[m][1].msg] <= MaxMessageSize

(* What the application reads: the messages that could be parsed, in their    *)
(* order, none twice, all of those that got into the iterable before it was   *)
(* told of the end, and none after (the promise of MessageStream).            *)
Reads == INSTANCE MessageStream WITH
    arrived <- parsed, readable <- Len(taken) + Len(items), shut <- streamClosed,
    over <- (reader = "ended")
ReadsMessageStream == Reads!Spec

(* What does not hold: that the reader of a call the server ended without an  *)
(* error has all its messages.  Those whose writes wait when the trailers     *)
(* come fail, and are lost.                                                   *)
GoodEndIsComplete == trailers = "ok" /\ reader = "ended" => Len(taken) = parsed

(* With the trailers the iterable is closed and, unless the call failed, the  *)
(* application has it: no order of headers, messages and trailers leaves a    *)
(* reader with an iterable that stays open (onTrailers).                      *)
TrailersCloseReading ==
    trailers # "none" => streamClosed /\ (reader = "none" => call = "failure")

(* What is left to read in an iterable that is closed only gets less: writes  *)
(* that waited fail and put nothing into it.                                  *)
ClosedOnlyEmpties ==
    [][streamClosed => streamClosed' /\ (items' = items \/ items' = Tail(items))]_vars

(* The trailers end the application's reading, also when writes wait.         *)
TrailersEndReading ==
    trailers # "none" ~> reader \in {"ended", "stopped"} \/ call = "failure"
=============================================================================
