---------------------------- MODULE StreamClient ----------------------------
(***************************************************************************)
(* The camera streams of one RobotClient over WebRTC: StreamClient asks the *)
(* robot to add and remove streams, adds them again when the RobotClient   *)
(* has connected again, and hands out the MediaStreams that arrive as       *)
(* tracks.  The tracks come from the peer connection: peer.ts answers the   *)
(* offers of the robot, RobotClient renames the stream of a track event and *)
(* emits the event, EventDispatcher passes it to the listeners.             *)
(*                                                                          *)
(* Calls time out nowhere: one that is in flight when its ClientChannel     *)
(* closes never settles (see ClientChannel).  One made later throws at      *)
(* once.                                                                    *)
(***************************************************************************)
EXTENDS Integers, Sequences, FiniteSets

CONSTANTS
    Names,          \* the cameras, each name as the sequence of its parts
    Calls,          \* bound: calls in flight at once
    Asks,           \* the getStream calls of the application
    MaxConnections  \* bound: the connections RobotClient makes

ASSUME NamesAssumption == Names \subseteq Seq(STRING) \ {<<>>}
ASSUME MaxConnectionsAssumption == MaxConnections \in Nat \ {0}

VARIABLES
    conn,       \* the connection of the RobotClient
    up,         \* it is open
    raw,        \* sessions are disabled: StreamClient kept the transport it began with
    streams,    \* StreamClient.streams
    call,       \* what each call in flight is for and where it is
    ask,        \* each getStream
    added,      \* environment: the streams the robot has on this connection
    offered,    \* environment: those whose track it has offered and not delivered
    unclear     \* history: names with two calls at once, or a call that failed,
                \* on this connection

callVars  == <<streams, call>>
robotVars == <<added, offered>>
connVars  == <<conn, up, raw>>
vars == <<connVars, callVars, ask, robotVars, unclear>>

NoAsk  == "no ask"
NoName == <<>>
Idle   == [op |-> "none", name |-> NoName, attempt |-> 0, stage |-> "idle", by |-> NoAsk]

ASSUME NobodyAssumption == NoAsk \notin Asks

NotAsked == [name |-> NoName, stage |-> "idle", promise |-> "pending", got |-> NoName,
             listens |-> FALSE, timer |-> "off", heard |-> FALSE]

-----------------------------------------------------------------------------
Replaced(n, from, to) == [i \in DOMAIN n |-> IF n[i] = from THEN to ELSE n[i]]

(* getValidSDPTrackName: the name with which a stream is asked for, and the *)
(* id its track has.  The robot is taken to find the camera that is meant,  *)
(* also where two of its cameras have the same.                             *)
TrackName(n) == Replaced(n, ":", "+")

(* onTrack of RobotClient: the id that the listeners of a track see. *)
Renamed(id) == Replaced(id, "+", ":")

(* Of a track event without a stream. *)
NoStream == NoName

Init ==
    /\ conn = 1
    /\ up = TRUE
    /\ raw \in BOOLEAN
    /\ streams = {}
    /\ call = [c \in Calls |-> Idle]
    /\ ask = [g \in Asks |-> NotAsked]
    /\ added = {}
    /\ offered = {}
    /\ unclear = {}

(* The transport of StreamClient is that of an open connection. *)
Reachable == up /\ (raw => conn = 1)

InFlight(n) == \E c \in Calls : call[c].name = n

Request(op, n, by) == [op |-> op, name |-> n, attempt |-> 1, stage |-> "sent", by |-> by]

(* add, remove, setOptions, resetOptions and getOptions, the first request, *)
(* which has the track name.                                                *)
Begin(c, op, n, by) ==
    /\ call[c] = Idle
    /\ call' = [call EXCEPT ![c] = Request(op, n, by)]
    /\ unclear' = IF InFlight(n) THEN unclear \union {n} ELSE unclear

(* A call of the application that is not reachable throws and changes       *)
(* nothing.                                                                 *)
AddOrRemove(c, n) ==
    /\ Reachable
    /\ \E op \in {"add", "remove", "options"} : Begin(c, op, n, NoAsk)
    /\ UNCHANGED <<connVars, streams, ask, robotVars>>

-----------------------------------------------------------------------------
(* What becomes of a getStream when its add or its promise settles. *)
Settled(a) ==
    [a EXCEPT !.stage =
        IF @ # "waiting" THEN @
        ELSE CASE a.promise = "resolved" -> "returned"
               [] a.promise = "rejected" -> "threw"
               [] OTHER -> @]

ListenLater(a) == [a EXCEPT !.listens = FALSE]      \* mutant of Listening
Listening(a) == [a EXCEPT !.listens = TRUE]

(* getStream: the listener and the timer first, then add. *)
GetStream(g, n) ==
    /\ ask[g] = NotAsked
    /\ LET asked == Listening([NotAsked EXCEPT !.name = n, !.stage = "adding", !.timer = "on"])
       IN  IF Reachable
           THEN /\ \E c \in Calls : Begin(c, "add", n, g)
                /\ ask' = [ask EXCEPT ![g] = asked]
           ELSE /\ ask' = [ask EXCEPT ![g] = [asked EXCEPT !.stage = "threw"]]
                /\ UNCHANGED <<call, unclear>>
    /\ UNCHANGED <<connVars, streams, robotVars>>

StreamsAfter(c) ==
    CASE call[c].op = "add"    -> streams \union {call[c].name}
      [] call[c].op = "remove" -> streams \ {call[c].name}
      [] OTHER -> streams

AskAfter(c, stage) ==
    IF call[c].by \in Asks /\ ask[call[c].by].stage = "adding"
    THEN [ask EXCEPT ![call[c].by] = Settled([@ EXCEPT !.stage = stage])]
    ELSE ask

(* The answer of a request arrives.  An add that getStream made goes on to  *)
(* what came in for its promise meanwhile.                                  *)
Succeeds(c) ==
    /\ call[c].stage = "accepted"
    /\ streams' = StreamsAfter(c)
    /\ call' = [call EXCEPT ![c] = Idle]
    /\ ask' = AskAfter(c, "waiting")
    /\ UNCHANGED <<connVars, robotVars, unclear>>

(* The robot takes the requests in any order.  A stream that is added gets a *)
(* track, which the robot offers in a renegotiation.                        *)
RobotAccepts(c) ==
    /\ call[c].stage = "sent"
    /\ call' = [call EXCEPT ![c].stage = "accepted"]
    /\ LET n == call[c].name
       IN  CASE call[c].op = "add" ->
                    added' = added \union {n} /\ offered' = offered \union {n}
             [] call[c].op = "remove" ->
                    added' = added \ {n} /\ offered' = offered \ {n}
             [] OTHER -> UNCHANGED robotVars
    /\ UNCHANGED <<connVars, streams, ask, unclear>>

(* The robot refuses: "Try again with just the resource name".              *)
Fails(c) ==
    /\ call[c].stage = "sent"
    /\ IF call[c].attempt = 1
       THEN /\ call' = [call EXCEPT ![c].attempt = 2]
            /\ UNCHANGED <<ask, unclear>>
       ELSE /\ call' = [call EXCEPT ![c] = Idle]
            /\ ask' = AskAfter(c, "threw")
            /\ unclear' = unclear \union {call[c].name}
    /\ UNCHANGED <<connVars, streams, robotVars>>

-----------------------------------------------------------------------------
(* With the stream of camera n. *)
Resolve(a, n) ==
    Settled([a EXCEPT !.listens = FALSE,
                      !.promise = IF @ = "pending" THEN "resolved" ELSE @,
                      !.got = IF a.promise = "pending" THEN n ELSE @])

Reject(a) ==
    Settled([a EXCEPT !.listens = FALSE,
                      !.promise = IF @ = "pending" THEN "rejected" ELSE @])

(* handleTrack of one getStream, for the stream of camera n with this id. *)
HandleTrack(a, id, n) ==
    IF id = NoStream THEN Reject(a)
    ELSE IF id = a.name THEN Resolve(a, n) ELSE a

(* emit passes a track event to those that listen. *)
Emit(id, n) == [g \in Asks |-> IF ask[g].listens THEN HandleTrack(ask[g], id, n) ELSE ask[g]]

(* peer.ts takes the robot's offer and the track comes up (setRemote-       *)
(* Description), then it answers.  onTrack renames the stream and emits.    *)
TrackArrives(n) ==
    /\ up
    /\ n \in offered
    /\ offered' = offered \ {n}
    /\ LET after == Emit(Renamed(TrackName(n)), n)
       IN  ask' = [g \in Asks |->
                    [after[g] EXCEPT !.heard = @ \/ (ask[g].name = n /\ ask[g].timer = "on"
                                                                 /\ ask[g].promise = "pending")]]
    /\ UNCHANGED <<connVars, callVars, added, unclear>>

(* A track that belongs to no stream: every getStream that waits fails.     *)
StreamlessTrack ==
    /\ up
    /\ \E g \in Asks : ask[g].listens
    /\ ask' = Emit(NoStream, NoName)
    /\ UNCHANGED <<connVars, callVars, robotVars, unclear>>

KeepListening(a) == [Reject(a) EXCEPT !.listens = a.listens]    \* mutant of TimedOut
TimedOut(a) == Reject(a)

(* STREAM_TIMEOUT.  The timer runs on when the promise has settled.         *)
Timeout(g) ==
    /\ ask[g].timer = "on"
    /\ ask' = [ask EXCEPT ![g] = TimedOut([@ EXCEPT !.timer = "fired"])]
    /\ UNCHANGED <<connVars, callVars, robotVars, unclear>>

-----------------------------------------------------------------------------
(* The connection is lost: its requests never settle. *)
ConnectionLost ==
    /\ up
    /\ up' = FALSE
    /\ call' = [c \in Calls |-> Idle]
    /\ added' = {}
    /\ offered' = {}
    /\ unclear' = {}
    /\ UNCHANGED <<conn, raw, streams, ask>>

NothingAgain == {}                                  \* mutant of AddedAgain

(* The listener for CONNECTED: void this.add(name) of each stream.          *)
AddedAgain == streams

(* RobotClient connects again and emits CONNECTED.  Without a way to reach  *)
(* the robot every add throws at once, and nobody hears of it.              *)
Connected ==
    /\ ~up
    /\ conn < MaxConnections
    /\ conn' = conn + 1
    /\ up' = TRUE
    /\ IF raw
       THEN UNCHANGED call
       ELSE \E again \in [AddedAgain -> Calls] :
                /\ \A m, n \in AddedAgain : again[m] = again[n] => m = n
                /\ call' = [c \in Calls |->
                                IF \E n \in AddedAgain : again[n] = c
                                THEN Request("add", CHOOSE n \in AddedAgain : again[n] = c, NoAsk)
                                ELSE Idle]
    /\ UNCHANGED <<raw, streams, ask, robotVars, unclear>>

Next ==
    \/ \E c \in Calls : \/ Succeeds(c) \/ Fails(c) \/ RobotAccepts(c)
                        \/ \E n \in Names : AddOrRemove(c, n)
    \/ \E g \in Asks : Timeout(g) \/ \E n \in Names : GetStream(g, n)
    \/ \E n \in Names : TrackArrives(n)
    \/ StreamlessTrack
    \/ ConnectionLost \/ Connected

Spec == Init /\ [][Next]_vars

-----------------------------------------------------------------------------
(* Type invariant.  The add a getStream made is in flight while it is adding. *)
TypeOK ==
    /\ conn \in 1 .. MaxConnections
    /\ up \in BOOLEAN /\ raw \in BOOLEAN
    /\ streams \subseteq Names /\ offered \subseteq added /\ added \subseteq Names
    /\ unclear \subseteq Names
    /\ \A c \in Calls : call[c] = Idle
            \/ /\ call[c].op \in {"add", "remove", "options"}
               /\ call[c].name \in Names /\ call[c].attempt \in 1 .. 2
               /\ call[c].stage \in {"sent", "accepted"}
               /\ \/ call[c].by = NoAsk
                  \/ call[c].by \in Asks /\ ask[call[c].by].stage = "adding"
    /\ \A g \in Asks :
            /\ ask[g].stage \in {"idle", "adding", "waiting", "returned", "threw"}
            /\ ask[g].promise \in {"pending", "resolved", "rejected"}

(* The set StreamClient keeps is what the robot streams: with no call under   *)
(* way they agree, on the first connection and after every reconnection,      *)
(* on each name of which no call failed and no two overlapped.                *)
(* (Not with sessions disabled: then a later connection has no streams.)      *)
SyncedWhenQuiet ==
    Reachable /\ (\A c \in Calls : call[c] = Idle) =>
        \A n \in Names \ unclear : n \in streams <=> n \in added

(* No + is in the name, which onTrack would take for a colon of it. *)
Plain(n) == \A i \in DOMAIN n : n[i] # "+"

(* getStream does not miss its stream, if its camera has no + in its name: a  *)
(* track of that camera that comes in before anything else settled it is the  *)
(* one it gives, also when it comes before the answer to add, and whatever    *)
(* colons are in the name.                                                    *)
NoMissedTrack ==
    \A g \in Asks : ask[g].heard /\ Plain(ask[g].name) => ask[g].promise = "resolved"

(* Of several getStream calls each gets the stream of its own camera, or of   *)
(* one with a + in its name.                                                  *)
TracksGoToTheirAsker ==
    \A g \in Asks :
        ask[g].stage = "returned" /\ Plain(ask[g].got) => ask[g].got = ask[g].name

(* "Overriding the stream id to match the resource name"                      *)
IdMatchesTheName == \A g \in Asks : ask[g].heard => ask[g].promise = "resolved"

(* The listener of a getStream never outlives its timer, also where add threw *)
(* or never returned, so listeners do not pile up in the dispatcher.  And     *)
(* once its camera was added, as long as it waits its promise is open and the *)
(* timer is there to settle it.  (While it is adding, the timer settles the   *)
(* promise alone: on a connection that was lost it never ends.)               *)
TimerEndsListening ==
    \A g \in Asks :
        /\ ask[g].listens => ask[g].timer = "on"
        /\ ask[g].stage = "waiting" => ask[g].promise = "pending" /\ ask[g].timer = "on"

(* "Will time out if stream is not received within 5 seconds." *)
GetStreamTimesOut ==
    \A g \in Asks : ask[g].timer = "fired" => ask[g].stage \in {"returned", "threw"}
=============================================================================
