--------------------------- MODULE SessionManager ---------------------------
(***************************************************************************)
(* The robot session of one RobotClient: SessionManager, and SessionTransport *)
(* which asks it for metadata.  A call of a method the robot monitors first *)
(* gets the session's metadata; the first such call starts the session, the *)
(* others wait for it.  A background loop sends the session's heartbeats.   *)
(* RobotClient resets the session when it connects with other credentials   *)
(* and when it disconnects.                                                 *)
(*                                                                          *)
(* The robot is the environment: connections come and go, and the robot may *)
(* forget a session.  JavaScript runs to completion, so continuations that  *)
(* run back to back when a promise settles are one action.  Only monitored  *)
(* calls appear: the others pass SessionTransport unchanged.                *)
(***************************************************************************)
EXTENDS Integers

CONSTANTS
    Callers,        \* the monitored calls the application makes
    NoCaller,       \* no call
    MaxConnections, \* bound: the connections RobotClient makes
    MaxResets       \* bound: the resets RobotClient makes

ASSUME NoCallerAssumption == NoCaller \notin Callers
ASSUME MaxConnectionsAssumption == MaxConnections \in Nat \ {0}
ASSUME MaxResetsAssumption == MaxResets \in Nat

NoSession == 0      \* the empty string currentSessionID starts with
NoConn    == 0

VARIABLES
    webRTC,         \* the transport is a ClientChannel (else direct gRPC-web)
    supported,      \* sessionsSupported: "undefined", "true" or "false"
    sid,            \* currentSessionID
    starting,       \* the promise starting: "none", or where its function is
    starter,        \* the call whose getSessionMetadata made that promise
    startConn,      \* the connection the startSession request went out on
    caller,         \* where each monitored call is
    callerSid,      \* the session id each call carries
    loop,           \* where the heartbeat loop is that each call's start made
    loopConn,       \* the connection its heartbeat went out on
    conn,           \* the connection deferredTransport returns
    up,             \* that connection is open
    robotSessions,  \* environment: the sessions the robot knows
    issued,         \* environment: how many sessions the robot handed out
    declined,       \* environment: the robot answered Unimplemented before
    resets          \* how many resets RobotClient made

sessionVars == <<supported, sid>>
startVars   == <<starting, starter, startConn>>
callVars    == <<caller, callerSid>>
loopVars    == <<loop, loopConn>>
connVars    == <<webRTC, conn, up>>
robotVars   == <<robotSessions, issued, declined>>
vars == <<sessionVars, startVars, callVars, loopVars, connVars, robotVars, resets>>

-----------------------------------------------------------------------------
Init ==
    /\ webRTC \in BOOLEAN
    /\ supported = "undefined"
    /\ sid = NoSession
    /\ starting = "none"
    /\ starter = NoCaller
    /\ startConn = NoConn
    /\ caller = [c \in Callers |-> "idle"]
    /\ callerSid = [c \in Callers |-> NoSession]
    /\ loop = [c \in Callers |-> "none"]
    /\ loopConn = [c \in Callers |-> NoConn]
    /\ conn = 1
    /\ up = TRUE
    /\ robotSessions = {}
    /\ issued = 0
    /\ declined = FALSE
    /\ resets = 0

(* The robot can still answer a request that went out on connection k. *)
Answerable(k) == up /\ k = conn

(* A request in flight when its connection ends: fetch fails it, but        *)
(* closeWithRecvError of a ClientChannel's stream never settles it.         *)
FailsOnClose(k) == ~webRTC /\ ~Answerable(k)

(* newStream of a closed ClientChannel throws a ConnectionClosedError. *)
ThrowsClosed == webRTC /\ ~up

(* getSessionMetadataInner *)
Metadata(supp, s) == IF supp = "true" THEN s ELSE NoSession

(* SessionTransport goes on with the metadata: the call goes out on the     *)
(* transport there is by then, or throws.                                   *)
Sent == IF ThrowsClosed THEN "failed" ELSE "sent"

ResetAlways == supported' = "undefined"             \* mutant of Reset

(* reset: ignored while a session is being started. *)
Reset == supported' = IF starting = "none" THEN "undefined" ELSE supported

-----------------------------------------------------------------------------
(* getSessionMetadata: wait for a session that is being started; return     *)
(* when it was decided before whether there is one; else start one.         *)
AwaitStarting(c) ==
    /\ caller[c] = "idle"
    /\ starting # "none"
    /\ caller' = [caller EXCEPT ![c] = "waiting"]
    /\ UNCHANGED <<sessionVars, startVars, callerSid, loopVars, connVars, robotVars, resets>>

UseSession(c) ==
    /\ caller[c] = "idle"
    /\ starting = "none"
    /\ supported # "undefined"
    /\ caller' = [caller EXCEPT ![c] = Sent]
    /\ callerSid' = [callerSid EXCEPT ![c] = Metadata(supported, sid)]
    /\ UNCHANGED <<sessionVars, startVars, loopVars, connVars, robotVars, resets>>

StartSession(c) ==
    /\ caller[c] = "idle"
    /\ starting = "none"
    /\ supported = "undefined"
    /\ IF ThrowsClosed
       THEN /\ caller' = [caller EXCEPT ![c] = "failed"]
            /\ UNCHANGED startVars
       ELSE /\ caller' = [caller EXCEPT ![c] = "waiting"]
            /\ starting' = "startSession"
            /\ starter' = c
            /\ startConn' = conn
    /\ UNCHANGED <<sessionVars, callerSid, loopVars, connVars, robotVars, resets>>

WaitingStarter  == {starter}                        \* mutant of Waiting

Waiting == {c \in Callers : caller[c] = "waiting"}

ClearStarting == starting' = "none" /\ starter' = NoCaller /\ startConn' = NoConn

(* The promise starting settles and is cleared: every call that waits goes  *)
(* on, with the metadata there is by then or with the start's error.        *)
FinishStart(ok, supp, s) ==
    /\ ClearStarting
    /\ caller' = [c \in Callers |->
            IF c \in Waiting THEN IF ok THEN Sent ELSE "failed" ELSE caller[c]]
    /\ callerSid' = [c \in Callers |->
            IF c \in Waiting /\ ok THEN Metadata(supp, s) ELSE callerSid[c]]

(* startSession is answered with a session: the one to resume when the      *)
(* robot still knows it, else a new one.  Reflection comes next.            *)
StartSessionOk ==
    /\ starting = "startSession"
    /\ Answerable(startConn)
    /\ supported' = "true"
    /\ IF sid \in robotSessions
       THEN UNCHANGED <<sid, robotSessions, issued>>
       ELSE /\ issued' = issued + 1
            /\ sid' = issued + 1
            /\ robotSessions' = robotSessions \union {issued + 1}
    /\ starting' = "reflection"
    /\ UNCHANGED <<starter, startConn, callVars, loopVars, connVars, declined, resets>>

(* startSession is answered Unimplemented: there are no sessions. *)
StartSessionUnimplemented ==
    /\ starting = "startSession"
    /\ Answerable(startConn)
    /\ supported' = "false"
    /\ declined' = TRUE
    /\ FinishStart(TRUE, "false", sid)
    /\ UNCHANGED <<sid, loopVars, connVars, robotSessions, issued, resets>>

(* startSession fails, or its answer has no heartbeat window. *)
StartSessionError ==
    /\ starting = "startSession"
    /\ Answerable(startConn) \/ FailsOnClose(startConn)
    /\ FinishStart(FALSE, supported, sid)
    /\ UNCHANGED <<sessionVars, loopVars, connVars, robotVars, resets>>

SendHeartbeatNoReset(c) ==                          \* mutant of SendHeartbeat
    /\ UNCHANGED supported
    /\ IF ThrowsClosed
       THEN loop' = [loop EXCEPT ![c] = "ended"] /\ UNCHANGED loopConn
       ELSE loop' = [loop EXCEPT ![c] = "inFlight"] /\ loopConn' = [loopConn EXCEPT ![c] = conn]

(* doHeartbeat of loop c: the request carries the current session id and    *)
(* goes out on the current transport.  On a closed channel it throws, which *)
(* resets the session and ends the loop.                                    *)
SendHeartbeat(c) ==
    IF ThrowsClosed
    THEN /\ loop' = [loop EXCEPT ![c] = "ended"]
         /\ UNCHANGED loopConn
         /\ Reset
    ELSE /\ loop' = [loop EXCEPT ![c] = "inFlight"]
         /\ loopConn' = [loopConn EXCEPT ![c] = conn]
         /\ UNCHANGED supported

(* applyHeartbeatMonitoredMethods ends, whether it got the methods or fell  *)
(* back to the defaults (its requests have a deadline and it catches every  *)
(* error): the promise resolves, the calls go on, and heartbeat, which      *)
(* waited for starting to be cleared, sends the first heartbeat.            *)
ReflectionDone ==
    /\ starting = "reflection"
    /\ FinishStart(TRUE, supported, sid)
    /\ IF supported # "true"
       THEN UNCHANGED <<supported, loopVars>>
       ELSE IF ThrowsClosed
       THEN /\ supported' = "undefined"
            /\ loop' = [loop EXCEPT ![starter] = "ended"]
            /\ UNCHANGED loopConn
       ELSE /\ loop' = [loop EXCEPT ![starter] = "inFlight"]
            /\ loopConn' = [loopConn EXCEPT ![starter] = conn]
            /\ UNCHANGED supported
    /\ UNCHANGED <<sid, connVars, robotVars, resets>>

-----------------------------------------------------------------------------
(* A heartbeat is answered, or fails with an error the loop ignores (an     *)
(* expired session is one): the next one is due after the interval.         *)
HeartbeatAnswered(c) ==
    /\ loop[c] = "inFlight"
    /\ Answerable(loopConn[c]) \/ FailsOnClose(loopConn[c])
    /\ loop' = [loop EXCEPT ![c] = "sleeping"]
    /\ UNCHANGED <<sessionVars, startVars, callVars, loopConn, connVars, robotVars, resets>>

(* A heartbeat is answered Unimplemented: the loop ends, no more sessions. *)
HeartbeatUnimplemented(c) ==
    /\ loop[c] = "inFlight"
    /\ Answerable(loopConn[c])
    /\ loop' = [loop EXCEPT ![c] = "ended"]
    /\ supported' = "false"
    /\ declined' = TRUE
    /\ UNCHANGED <<sid, startVars, callVars, loopConn, connVars, robotSessions, issued, resets>>

(* The interval is over. *)
HeartbeatTimer(c) ==
    /\ loop[c] = "sleeping"
    /\ SendHeartbeat(c)
    /\ UNCHANGED <<sid, startVars, callVars, connVars, robotVars, resets>>

-----------------------------------------------------------------------------
(* RobotClient, and the robot. *)

ConnectionLost ==
    /\ up
    /\ up' = FALSE
    /\ UNCHANGED <<sessionVars, startVars, callVars, loopVars, webRTC, conn, robotVars, resets>>

(* RobotClient.connect with the saved credentials keeps the session. *)
Reconnected ==
    /\ ~up
    /\ conn < MaxConnections
    /\ conn' = conn + 1
    /\ up' = TRUE
    /\ UNCHANGED <<sessionVars, startVars, callVars, loopVars, webRTC, robotVars, resets>>

(* connect with other credentials, and disconnect. *)
ClientReset ==
    /\ resets < MaxResets
    /\ resets' = resets + 1
    /\ Reset
    /\ UNCHANGED <<sid, startVars, callVars, loopVars, connVars, robotVars>>

(* The robot forgets a session: too long without a heartbeat, or a restart. *)
SessionExpires ==
    /\ robotSessions # {}
    /\ \E s \in robotSessions : robotSessions' = robotSessions \ {s}
    /\ UNCHANGED <<sessionVars, startVars, callVars, loopVars, connVars, issued, declined, resets>>

-----------------------------------------------------------------------------
Starting ==
    StartSessionOk \/ StartSessionUnimplemented \/ StartSessionError \/ ReflectionDone

Call(c) == AwaitStarting(c) \/ UseSession(c) \/ StartSession(c)

HeartbeatReply(c) == HeartbeatAnswered(c) \/ HeartbeatUnimplemented(c)

Environment == ConnectionLost \/ Reconnected \/ ClientReset \/ SessionExpires

Next ==
    \/ Starting
    \/ \E c \in Callers : Call(c) \/ HeartbeatReply(c) \/ HeartbeatTimer(c)
    \/ Environment

(* Requests the robot can answer are answered, timers fire; connections may *)
(* stay lost, and the application makes the calls it likes.                 *)
Fairness ==
    /\ WF_vars(Starting)
    /\ \A c \in Callers : WF_vars(HeartbeatReply(c)) /\ WF_vars(HeartbeatTimer(c))

Spec == Init /\ [][Next]_vars /\ Fairness

-----------------------------------------------------------------------------
(* Type invariant.  The session the client names is one the robot issued, and *)
(* a promise starting that is cleared leaves nothing of itself behind.        *)
TypeOK ==
    /\ webRTC \in BOOLEAN
    /\ supported \in {"undefined", "true", "false"}
    /\ issued \in Nat
    /\ sid \in 0 .. issued
    /\ starting \in {"none", "startSession", "reflection"}
    /\ starter \in IF starting = "none" THEN {NoCaller} ELSE Callers
    /\ startConn \in 0 .. conn
    /\ caller \in [Callers -> {"idle", "waiting", "sent", "failed"}]
    /\ callerSid \in [Callers -> 0 .. issued]
    /\ loop \in [Callers -> {"none", "inFlight", "sleeping", "ended"}]
    /\ loopConn \in [Callers -> 0 .. conn]
    /\ conn \in Nat
    /\ up \in BOOLEAN
    /\ robotSessions \subseteq 1 .. issued
    /\ declined \in BOOLEAN
    /\ resets \in Nat

(* A loop is stranded where its heartbeat was in flight on a channel that   *)
(* closed: the request never settles (ClosingResetsSession).  It goes on    *)
(* where it sleeps, or its heartbeat still has an answer or an error to come.*)
Stranded(c) == loop[c] = "inFlight" /\ webRTC /\ ~Answerable(loopConn[c])

GoesOn(c) ==
    \/ loop[c] = "sleeping"
    \/ loop[c] = "inFlight" /\ (Answerable(loopConn[c]) \/ FailsOnClose(loopConn[c]))

(* While the client believes in a session, a heartbeat loop goes on for it: *)
(* a loop never ends without withdrawing the session, except while another  *)
(* start is under way, which then makes a loop of its own.  Over WebRTC the *)
(* loop may be stranded instead, by nothing else than a channel that closed *)
(* under a heartbeat.                                                       *)
SessionHasLoop ==
    supported = "true" /\ starting = "none" =>
        (\E c \in Callers : GoesOn(c)) \/ (\E c \in Callers : Stranded(c))

(* A monitored call goes out without a session only to a robot that said it *)
(* has none: a reset during the start does not let the waiting calls        *)
(* through unprotected (the early return of reset).                         *)
CallsCarrySession ==
    \A c \in Callers :
        caller[c] = "sent" /\ callerSid[c] = NoSession => declined

(* Nobody is left behind: calls wait only while a session is being started. *)
WaitingIffStarting ==
    starting # "none" <=> \E c \in Callers : caller[c] = "waiting"

(* Over gRPC-web, where a request on a lost connection fails, a monitored   *)
(* call gets its metadata or an error.                                      *)
WaitingCallsReturn ==
    \A c \in Callers : (~webRTC /\ caller[c] = "waiting") ~> caller[c] # "waiting"

(* "We assume the connection closing will cause getSessionMetadata to be    *)
(* called again by way of a reset": a session whose connection closed while *)
(* its only heartbeat was in flight is given up.                            *)
ClosingResetsSession ==
    (supported = "true" /\ starting = "none" /\ ~up) ~> (supported # "true" \/ starting # "none")
=============================================================================
