--------------------------- MODULE ResourceCalls ---------------------------
(***************************************************************************)
(* Calls of resource clients and of the robot API over one RobotClient: the *)
(* transport and the metadata each goes out with, through SessionTransport  *)
(* or, when sessions are disabled, straight on the transport the client was *)
(* made with; and what the application gets of the robot's answer.          *)
(*                                                                          *)
(* From the other modules: a ClientChannel that is closed throws at a new   *)
(* call and never settles one in flight (ClientChannel); the reader of a    *)
(* response over WebRTC sees an error that follows the headers as an end,   *)
(* and may miss what waited to be written to it (ResponseStream); a session *)
(* is started, or not (SessionManager).                                     *)
(***************************************************************************)
EXTENDS Integers, Sequences, SequencesExt, ResourceMethods

CONSTANTS
    Clients,        \* the resource clients
    Robot,          \* the RobotClient itself, whose robot API is called
    NoCaller,       \* no call was made
    Calls,          \* the calls the application makes
    Callable,       \* the methods each of them may be of
    Made,           \* the classes of the clients it makes
    Keys,           \* the headers the application may set
    OutsideStart,   \* getSessionMetadata is called from outside, as tests do
    RobotServices,  \* the services the robot's reflection lists
    RobotMonitors,  \* the paths among them it wants watched
    MaxMessages,    \* bound: the messages of a response stream
    MaxConnections  \* bound: the connections RobotClient makes

ASSUME CallersAssumption == {Robot, NoCaller} \intersect Clients = {} /\ Robot # NoCaller
ASSUME CallableAssumption == Callable \in [Calls -> SUBSET AllMethods]
ASSUME MadeAssumption == Made \subseteq Classes
ASSUME OutsideStartAssumption == OutsideStart \in BOOLEAN
ASSUME RobotMonitorsAssumption == \A p \in RobotMonitors : p[1] \in RobotServices
ASSUME MaxConnectionsAssumption == MaxConnections \in Nat \ {0}

VARIABLES
    webrtc,     \* the connections are WebRTC ones (else gRPC-web)
    raw,        \* sessionOptions.disabled
    conn,       \* the number of the connection whose transport RobotClient has
    up,         \* it is open
    monitored,  \* heartbeatMonitoredMethods, the paths that are true
    client,     \* each resource client: its class and the connection it was made on
    headers,    \* callOptions.headers of each resource client
    call,       \* each call
    queue       \* the tick queue the application gives every streamTicks

connVars == <<webrtc, raw, conn, up>>
vars == <<connVars, monitored, client, headers, call, queue>>

NotMade == [class |-> "none", made |-> 0]

NoMethod == [class |-> "none", rpc |-> "none", gives |-> "none"]

(* stage: idle, made (a generator nothing was asked of), metadata, sent,    *)
(* refused (nothing went out), resolved or rejected; conn: the connection   *)
(* it went to, met: the one there was (0: none); came, ended: what the robot's answer looks like    *)
(* from here; taken: how much of it was read, got: what the application was *)
(* given; whole: all the robot had to say came, and it was no error.        *)
NoCall == [by |-> NoCaller, method |-> NoMethod, stage |-> "idle", conn |-> 0, met |-> 0,
           headers |-> {}, session |-> "unasked", came |-> <<>>,
           ended |-> "no", taken |-> 0, got |-> <<>>, whole |-> FALSE]

Init ==
    /\ webrtc \in BOOLEAN
    /\ raw \in BOOLEAN
    /\ conn = 0
    /\ up = FALSE
    /\ monitored = {}
    /\ client = [i \in Clients |-> NotMade]
    /\ headers = [i \in Clients |-> {}]
    /\ call = [c \in Calls |-> NoCall]
    /\ queue = <<>>

Gives(c) == call[c].method.gives

-----------------------------------------------------------------------------
(* RobotClient *)

Connect ==
    /\ ~up
    /\ conn < MaxConnections
    /\ conn' = conn + 1
    /\ up' = TRUE
    /\ UNCHANGED <<webrtc, raw, monitored, client, headers, call, queue>>

Lose ==
    /\ up
    /\ up' = FALSE
    /\ UNCHANGED <<webrtc, raw, conn, monitored, client, headers, call, queue>>

(* A call on connection k gets to the robot: a transport of gRPC-web is but *)
(* an address and a token, one of WebRTC ends with its channel.             *)
Reaches(k) == up /\ (webrtc => k = conn)

(* createServiceClient, by a getter or the constructor of a client, which   *)
(* throws when sessions are disabled and there is no transport.             *)
MakeClient(i, class) ==
    /\ client[i] = NotMade
    /\ raw => conn > 0
    /\ client' = [client EXCEPT ![i] = [class |-> class, made |-> conn]]
    /\ UNCHANGED <<connVars, monitored, headers, call, queue>>

(* clientTransport: SessionTransport asks for RobotClient's transport when  *)
(* it sends, and connect makes the client of the robot API anew.            *)
TransportFor(by) == IF by = Robot \/ ~raw THEN conn ELSE client[by].made

(* applyHeartbeatMonitoredMethods: what reflection says is added to what is *)
(* there; the defaults replace it when reflection fails.                    *)
Reflected == RobotMonitors \union {p \in monitored : p[1] \notin RobotServices}

GetSessionMetadata ==
    /\ OutsideStart
    /\ up
    /\ monitored' \in {Reflected, DefaultMonitored}
    /\ UNCHANGED <<connVars, client, headers, call, queue>>

-----------------------------------------------------------------------------
(* The headers of a client's callOptions: addMetadata and                   *)
(* enableDebugLogging, deleteMetadata, disableDebugLogging (which takes off *)
(* the header named "_").                                                   *)

AddMetadata(i, k) == headers' = [headers EXCEPT ![i] = @ \union {k}]
DeleteMetadata(i, k) == headers' = [headers EXCEPT ![i] = @ \ {k}]
EnableDebugLogging(i) == AddMetadata(i, "dtname")
DisableDebugLogging(i) == DeleteMetadata(i, "_")

SetHeaders(i) ==
    /\ client[i] # NotMade
    /\ \/ \E k \in Keys : AddMetadata(i, k) \/ DeleteMetadata(i, k)
       \/ EnableDebugLogging(i)
       \/ DisableDebugLogging(i)
    /\ UNCHANGED <<connVars, monitored, client, call, queue>>

HeadersOf(by) == IF by = Robot THEN {} ELSE headers[by]

-----------------------------------------------------------------------------
(* Making a request *)

(* deferredTransport().unary or stream, with the metadata of the session.   *)
GoOut(k, session) ==
    [k EXCEPT !.stage = IF Reaches(TransportFor(k.by)) THEN "sent" ELSE "refused",
              !.conn = TransportFor(k.by),
              !.met = IF up THEN conn ELSE 0,
              !.session = session]

(* SessionTransport: a call of a watched method waits for the session.      *)
Waits(k) == ~raw /\ Path(k.method) \in monitored

(* The request of call k: its headers are copied before anything is waited for. *)
Request(k) ==
    LET with == [k EXCEPT !.headers = HeadersOf(k.by)]
    IN  IF Waits(k) THEN [with EXCEPT !.stage = "metadata"] ELSE GoOut(with, "unasked")

(* A method is called.  robotService throws before the first connection.    *)
Begin(c, by, m) ==
    /\ call[c] = NoCall
    /\ IF by = Robot
       THEN m.class = "Robot" /\ conn > 0
       ELSE client[by] # NotMade /\ m.class = client[by].class
    /\ LET k == [NoCall EXCEPT !.by = by, !.method = m, !.stage = "made"]
       IN  call' = [call EXCEPT ![c] = IF Lazy(m.gives) THEN k ELSE Request(k)]
    /\ UNCHANGED <<connVars, monitored, client, headers, queue>>

(* The first value of a generator is asked for. *)
AskFirst(c) ==
    /\ call[c].stage = "made"
    /\ call' = [call EXCEPT ![c] = Request(@)]
    /\ UNCHANGED <<connVars, monitored, client, headers, queue>>

WithMetadata(c, session) == GoOut(call[c], session)

(* getSessionMetadata settles: with the metadata of a session, with none    *)
(* because the robot has no sessions, or with an error.                     *)
MetadataComes(c) ==
    /\ call[c].stage = "metadata"
    /\ \/ \E session \in {"carried", "none"} : call' = [call EXCEPT ![c] = WithMetadata(c, session)]
       \/ call' = [call EXCEPT ![c].stage = "rejected"]
    /\ UNCHANGED <<connVars, monitored, client, headers, queue>>

-----------------------------------------------------------------------------
(* The robot's answer *)

InFlight(c) == call[c].stage = "sent" /\ call[c].ended = "no"
Answerable(c) == InFlight(c) /\ Reaches(call[c].conn)

(* A message may be bare, lacking the part a method is about, or odd, with  *)
(* that part not making sense.  What a method throws at:                    *)
Unusable(gives) ==
    CASE gives = "wanted" -> {"bare"}
      [] gives = "parsed" -> {"bare", "odd"}
      [] gives = "labels" -> {"odd"}
      [] OTHER -> {}

(* The messages it tells apart. *)
Kinds(gives) ==
    {"whole"} \union Unusable(gives)
              \union (IF gives \in {"orEmpty", "labels", "present"} THEN {"bare"} ELSE {})

(* What the application gets of the only message of an answer.              *)
Value(gives, msg) ==
    CASE gives = "nothing" -> <<>>
      [] gives = "orEmpty" /\ msg = "bare" -> <<"empty">>
      [] OTHER -> <<msg>>

Answer(c) ==
    /\ Answerable(c)
    /\ ~Streaming(Gives(c))
    /\ \/ \E msg \in Kinds(Gives(c)) :
            call' = [call EXCEPT ![c] =
                        IF msg \in Unusable(Gives(c))
                        THEN [@ EXCEPT !.stage = "rejected", !.came = <<msg>>]
                        ELSE [@ EXCEPT !.stage = "resolved", !.came = <<msg>>,
                                       !.whole = TRUE, !.got = Value(Gives(c), msg)]]
       \/ call' = [call EXCEPT ![c].stage = "rejected"]
    /\ UNCHANGED <<connVars, monitored, client, headers, queue>>

Push(ticks, tick) == Append(ticks, tick)

(* The loops of streamTicks and of the slam maps take a message at once.    *)
Message(c) ==
    /\ Answerable(c)
    /\ Streaming(Gives(c))
    /\ Len(call[c].came) < MaxMessages
    /\ \E msg \in Kinds(Gives(c)) :
        call' = [call EXCEPT ![c].came = Append(@, msg),
                             ![c].taken = IF Lazy(Gives(c)) THEN @ ELSE @ + 1]
    /\ queue' = IF Gives(c) = "queued" THEN Push(queue, <<c, call[c].taken + 1>>) ELSE queue
    /\ UNCHANGED <<connVars, monitored, client, headers>>

KeepChunks(k) ==                                    \* mutant of AtEnd
    IF Lazy(k.method.gives) THEN k ELSE [k EXCEPT !.stage = "resolved", !.got = k.came]

(* The loops end with the stream: concatArrayU8 makes one of the chunks, an *)
(* error drops them.  What a generator has not yielded it still yields.     *)
AtEnd(k) ==
    IF Lazy(k.method.gives) THEN k
    ELSE IF k.ended = "ok"
    THEN [k EXCEPT !.stage = "resolved",
                   !.got = IF k.method.gives = "collected" THEN k.came ELSE <<>>]
    ELSE [k EXCEPT !.stage = "rejected"]

(* A stream ended this way, kept of its messages being left. *)
Ended(k, ended, kept, whole) ==
    AtEnd([k EXCEPT !.ended = ended, !.came = SubSeq(@, 1, kept), !.whole = whole])

(* The robot's trailers.  Over WebRTC an error that comes after the headers *)
(* reads as an end, and what was not written to the iterable yet is lost.   *)
End(c) ==
    /\ Answerable(c)
    /\ Streaming(Gives(c))
    /\ \E ok, headersCame \in BOOLEAN, kept \in call[c].taken .. Len(call[c].came) :
        /\ call[c].came # <<>> => headersCame
        /\ ~webrtc => kept = Len(call[c].came)
        /\ call' = [call EXCEPT ![c] =
                        Ended(@, IF ok \/ (webrtc /\ headersCame) THEN "ok" ELSE "error",
                              kept, ok /\ kept = Len(call[c].came))]
    /\ UNCHANGED <<connVars, monitored, client, headers, queue>>

(* The connection went: fetch fails a request and drops what was not read,  *)
(* a closed ClientChannel does not settle one.                              *)
FailLost(c) ==
    /\ InFlight(c)
    /\ ~Reaches(call[c].conn)
    /\ ~webrtc
    /\ call' = [call EXCEPT ![c] =
                    IF Streaming(Gives(c))
                    THEN Ended(@, "error", call[c].taken, FALSE)
                    ELSE [@ EXCEPT !.stage = "rejected"]]
    /\ UNCHANGED <<connVars, monitored, client, headers, queue>>

YieldNext(k) ==                                     \* mutant of Yield
    [k EXCEPT !.taken = @ + 1, !.got = Append(@, k.taken + 1)]

(* A generator goes on to the next message it yields: getAudio and          *)
(* streamTransformChanges leave out those without their payload.            *)
Yield(k) ==
    [k EXCEPT !.taken = @ + 1,
              !.got = IF k.method.gives = "present" /\ k.came[k.taken + 1] = "bare" THEN @
                      ELSE Append(@, k.taken + 1)]

AskNext(c) ==
    /\ call[c].stage = "sent"
    /\ Lazy(Gives(c))
    /\ \/ /\ call[c].taken < Len(call[c].came)
          /\ call' = [call EXCEPT ![c] = Yield(@)]
       \/ /\ call[c].taken = Len(call[c].came)
          /\ call[c].ended # "no"
          /\ call' = [call EXCEPT ![c].stage = IF call[c].ended = "ok" THEN "resolved"
                                               ELSE "rejected"]
    /\ UNCHANGED <<connVars, monitored, client, headers, queue>>

-----------------------------------------------------------------------------
Application ==
    \/ \E i \in Clients : SetHeaders(i) \/ \E class \in Made : MakeClient(i, class)
    \/ \E c \in Calls :
        \/ \E by \in Clients \union {Robot}, m \in Callable[c] : Begin(c, by, m)
        \/ AskFirst(c)
        \/ AskNext(c)

Environment ==
    \/ Connect \/ Lose \/ GetSessionMetadata
    \/ \E c \in Calls : MetadataComes(c) \/ Answer(c) \/ Message(c) \/ End(c)

Next == Application \/ Environment \/ \E c \in Calls : FailLost(c)

Spec == Init /\ [][Next]_vars

-----------------------------------------------------------------------------
Stages == {"idle", "made", "metadata", "sent", "refused", "resolved", "rejected"}

ClientRecord == [class : Classes \union {"none"}, made : 0 .. MaxConnections]

HeaderNames == Keys \union {"dtname", "_"}

(* A message of an answer is whole, bare or odd. *)
Messages == {"whole", "bare", "odd"}

(* What the application gets of one: its number, when a generator yields it,  *)
(* else the message itself or something empty in its place.                  *)
Gotten(gives) == IF Lazy(gives) THEN Nat ELSE Messages \union {"empty"}

CallRecord(gives) ==
    [by : Clients \union {Robot, NoCaller}, method : AllMethods \union {NoMethod},
     stage : Stages, conn : 0 .. MaxConnections, met : 0 .. MaxConnections,
     headers : SUBSET HeaderNames,
     session : {"unasked", "carried", "none"}, came : Seq(Messages),
     ended : {"no", "ok", "error"}, taken : Nat,
     got : Seq(Gotten(gives)), whole : BOOLEAN]

(* Type invariant.  Reflection that ran once finds what it would find again, *)
(* and no more of a stream is read than came.                                *)
TypeOK ==
    /\ webrtc \in BOOLEAN /\ raw \in BOOLEAN /\ up \in BOOLEAN
    /\ conn \in 0 .. MaxConnections
    /\ monitored \in {{}, Reflected, DefaultMonitored}
    /\ client \in [Clients -> ClientRecord]
    /\ headers \in [Clients -> SUBSET HeaderNames]
    /\ call = [c \in Calls |-> call[c]]
    /\ queue \in Seq(Calls \X Nat)
    /\ \A c \in Calls :
        /\ call[c] \in CallRecord(Gives(c))
        /\ call[c].taken <= Len(call[c].came)

(* What a stream brought is whole when its loop or its generator comes to an *)
(* end without an error - over gRPC-web.  (Over WebRTC a map may end early.) *)
EndMeansWhole ==
    \A c \in Calls :
        call[c].stage = "resolved" /\ Streaming(Gives(c)) /\ ~webrtc => call[c].whole

Ascending(s) == \A i, j \in DOMAIN s : i < j => s[i] < s[j]

(* The application gets the chunks of a map, and the messages a generator    *)
(* yields, in the order they came, each once and none without its payload; of *)
(* a map that failed it gets nothing.                                        *)
YieldsInOrder ==
    \A c \in Calls :
        /\ Gives(c) = "collected" =>
                call[c].got = IF call[c].stage = "resolved" THEN call[c].came ELSE <<>>
        /\ Lazy(Gives(c)) =>
                /\ Ascending(call[c].got)
                /\ Range(call[c].got) = {n \in 1 .. call[c].taken :
                                            Gives(c) = "each" \/ call[c].came[n] = "whole"}

(* Where the ticks of a call are in the queue. *)
TicksOf(c) == {i \in DOMAIN queue : queue[i][1] = c}

(* Calls of streamTicks may share a queue: the ticks of each are there, in   *)
(* the order the robot sent them.                                            *)
TicksInOrder ==
    \A c \in Calls :
        Gives(c) = "queued" =>
            /\ \A i, j \in TicksOf(c) : i < j => queue[i][2] < queue[j][2]
            /\ {queue[i][2] : i \in TicksOf(c)} = DOMAIN call[c].came

(* What streams bring reaches the application in its order, whether it is    *)
(* collected, yielded or pushed to a queue that calls share.                 *)
StreamsInOrder == YieldsInOrder /\ TicksInOrder

(* A stream reaches the application whole: in order, without gaps, and with  *)
(* an end that is no error only when the robot made one.                     *)
StreamsAreWhole == EndMeansWhole /\ StreamsInOrder

(* What does not hold: that a call is refused only while there is no         *)
(* connection.  With sessions disabled a client keeps the transport of the    *)
(* connection it was made on, and over WebRTC that one is closed when the     *)
(* RobotClient has another (clientTransport).                                 *)
RefusedOnlyWhenDown == \A c \in Calls : call[c].stage = "refused" => call[c].met = 0

(* A call of a method the defaults name asks for a session first, when       *)
(* sessions are not disabled ("If can't get heartbeat monitored methods via  *)
(* reflection, use defaults": session-manager.ts).                           *)
MotionIsWatched ==
    \A c \in Calls :
        ~raw /\ Path(call[c].method) \in DefaultMonitored /\ call[c].stage = "sent" =>
            call[c].session # "unasked"
=============================================================================
