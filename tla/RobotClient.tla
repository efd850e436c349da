---------------------------- MODULE RobotClient ----------------------------
(***************************************************************************)
(* The connection lifecycle of RobotClient (src/robot/client.ts): dial with *)
(* its WebRTC and gRPC phases, connect, disconnect, and the reconnection    *)
(* that onDisconnect starts when a connection is lost.                      *)
(*                                                                          *)
(* A task is one call chain that ends in connect: a dial, a connect made by *)
(* the application, or a reconnection.  Tasks share one client, and one     *)
(* connect at a time owns the promise connecting; the others wait for it.   *)
(* JavaScript runs to completion: while a continuation is due (Microtasks)  *)
(* no timer, network event or application call comes in between.            *)
(*                                                                          *)
(* The session (module SessionManager) is not touched here beyond what      *)
(* connect and disconnect do to it; credentials, headers and the fields of  *)
(* a configuration that only go into a request are left out.                *)
(***************************************************************************)
EXTENDS Integers, FiniteSets

CONSTANTS
    Dials,          \* the calls of dial the application makes
    DirectDials,    \* those whose configuration is a DialDirectConf
    LocalDials,     \* those whose host passes dialDirect's test for a local one
    NoReconnect,    \* noReconnect of each dial's configuration
    NoMaximum,      \* those whose configuration leaves reconnectMaxAttempts unset
    Signaled,       \* those that are given a reconnectAbortSignal
    Connects,       \* the calls of connect the application makes
    Untimed,        \* the dials and connects whose dialTimeoutMs is 0
    None,           \* no dial
    MaxAttempts,    \* reconnectMaxAttempts where it is set; of a reconnection
                    \* without it, the default numOfAttempts of a backoff
    MaxConns,       \* bound: the connections that are established
    MaxDisconnects  \* bound: the calls of disconnect

Conns == 1 .. MaxConns
NoConn == 0

(* onDisconnect starts at most one reconnection per connection, so it bears *)
(* the number of the connection whose loss started it.                      *)
Reconnects == Conns
Tasks == Dials \union Connects \union Reconnects

ASSUME DialsAssumption ==
    /\ DirectDials \subseteq Dials
    /\ LocalDials \subseteq Dials
    /\ NoReconnect \in [Dials -> {"unset", "yes", "no"}]
    /\ NoMaximum \subseteq Dials
    /\ Signaled \subseteq Dials
    /\ Untimed \subseteq Dials \union Connects
    /\ None \notin Dials
ASSUME TasksAssumption ==
    Dials \intersect Connects = {} /\ (Dials \union Connects) \intersect Conns = {}
ASSUME BoundsAssumption ==
    MaxAttempts \in Nat \ {0} /\ MaxConns \in Nat /\ MaxDisconnects \in Nat

VARIABLES
    task,           \* where each task is
    phase,          \* of each dial: "webrtc", then "direct"
    attempts,       \* attemptNumber of each task's backoff
    error,          \* what the last attempt of each task failed with
    abort,          \* the internal abort signal of each dial
    userAbort,      \* reconnectAbortSignal of each dial
    dialing,        \* the dial whose promise and signal the client holds, or None
    connecting,     \* the promise connecting is set
    via,            \* how the connect that set it dials: "webrtc" or "direct"
    closed,
    isReconnecting,
    enabled,        \* webrtcOptions.enabled
    noReconnectW,   \* webrtcOptions.noReconnect
    noReconnectD,   \* directOptions.noReconnect
    current,        \* the connection peerConn and dataChannel belong to
    transport,      \* the connection transport belongs to
    handler,        \* the connection onDataChannelClose was made for
    listening,      \* the data channels that have their close listener
    kind,           \* of each connection: "webrtc" or "direct"
    conn,           \* of each connection: "none", "open", "lost", "closed"
    closeEvent,     \* its data channel's close event: "none", "due", "delivered",
                    \* or "missed", if it came before its listener
    heartbeats,     \* the gRPC connections whose heartbeat loop runs
    disconnects,    \* calls of disconnect made
    waitingDisconnects, \* those that await connecting
    event           \* the last MachineConnectionEvent emitted

taskVars   == <<task, phase, attempts, error>>
dialVars   == <<abort, userAbort, dialing>>
optionVars == <<enabled, noReconnectW, noReconnectD>>
flagVars   == <<connecting, via, closed, isReconnecting>>
heldVars   == <<current, transport, handler, listening>>
connVars   == <<kind, conn, closeEvent, heartbeats>>
userVars   == <<disconnects, waitingDisconnects>>
vars == <<taskVars, dialVars, optionVars, flagVars, heldVars, connVars, userVars, event>>

-----------------------------------------------------------------------------
Init ==
    /\ task = [t \in Tasks |-> "idle"]
    /\ phase = [d \in Dials |-> IF d \in DirectDials THEN "direct" ELSE "webrtc"]
    /\ attempts = [t \in Tasks |-> 0]
    /\ error = [t \in Tasks |-> "none"]
    /\ abort = [d \in Dials |-> FALSE]
    /\ userAbort = [d \in Dials |-> FALSE]
    /\ dialing = None
    /\ connecting = FALSE
    /\ via = "webrtc"
    /\ closed = FALSE
    /\ isReconnecting = FALSE
    /\ enabled = FALSE
    /\ noReconnectW = "unset"
    /\ noReconnectD = "unset"
    /\ current = NoConn
    /\ transport = NoConn
    /\ handler = NoConn
    /\ listening = {}
    /\ kind = [c \in Conns |-> "webrtc"]
    /\ conn = [c \in Conns |-> "none"]
    /\ closeEvent = [c \in Conns |-> "none"]
    /\ heartbeats = {}
    /\ disconnects = 0
    /\ waitingDisconnects = 0
    /\ event = "none"

(* A continuation is due: the next attempt of a backoff without a delay, or *)
(* the retry callback of an attempt that failed.                            *)
Microtasks == \E t \in Tasks : task[t] \in {"attempt", "error"}
Macrotask  == ~Microtasks

Active(t) == task[t] \in {"attempt", "waiting", "dialing", "verifying", "error", "sleeping"}
WaitersDials == {t \in Dials : task[t] = "waiting"} \* mutant of Waiters
Waiters   == {t \in Tasks : task[t] = "waiting"}
AbortedInternally(d) == abort[d]                    \* mutant of Aborted

(* performDial looks at both signals before each of its phases. *)
Aborted(d) == abort[d] \/ userAbort[d]

(* The getter noReconnect: webrtcOptions.noReconnect ?? directOptions.noReconnect. *)
noReconnect == (IF noReconnectW # "unset" THEN noReconnectW ELSE noReconnectD) = "yes"

(* performDial hands numOfAttempts: undefined to the backoff of a dial that *)
(* leaves reconnectMaxAttempts unset, which is no number to be reached.     *)
Unlimited(t) == t \in NoMaximum /\ NoReconnect[t] # "yes"

(* numOfAttempts of a task's backoff; a plain connect is not retried. *)
NumOfAttempts(t) ==
    IF t \in Connects \/ (t \in Dials /\ NoReconnect[t] = "yes") THEN 1 ELSE MaxAttempts

CloseHeldNothing(c) == UNCHANGED <<conn, closeEvent>>     \* mutant of CloseHeld

(* RTCPeerConnection.close and RTCDataChannel.close on the connection held: *)
(* the data channel's close event follows unless it came before.            *)
CloseHeld(c) ==
    /\ conn' = IF c = NoConn THEN conn ELSE [conn EXCEPT ![c] = "closed"]
    /\ closeEvent' = IF c = NoConn \/ closeEvent[c] # "none" THEN closeEvent
                     ELSE [closeEvent EXCEPT ![c] = "due"]

(* cleanupEventListeners when the client holds connection c: the handler    *)
(* the client remembers is removed from c's data channel, where it only is  *)
(* if it was made for c.                                                    *)
Cleaned(c) == IF c # NoConn /\ handler = c THEN listening \ {c} ELSE listening
Forgotten(c) == IF c # NoConn THEN NoConn ELSE handler

-----------------------------------------------------------------------------
(* Calls of the application. *)

(* dial: abort the dial in progress, and run performDial up to its first    *)
(* attempt.  A dial aborted before it starts returns the client at once.    *)
Dial(d) ==
    /\ Macrotask
    /\ task[d] = "idle"
    /\ abort' = IF dialing = None THEN abort ELSE [abort EXCEPT ![dialing] = TRUE]
    /\ IF userAbort[d]
       THEN /\ task' = [task EXCEPT ![d] = "aborted"]
            /\ dialing' = None
       ELSE /\ task' = [task EXCEPT ![d] = "attempt"]
            /\ dialing' = d
    /\ UNCHANGED <<phase, attempts, error, userAbort, optionVars, flagVars,
                   heldVars, connVars, userVars, event>>

(* The application sets the reconnectAbortSignal it passed to dial. *)
UserAbort(d) ==
    /\ Macrotask
    /\ ~userAbort[d]
    /\ userAbort' = [userAbort EXCEPT ![d] = TRUE]
    /\ UNCHANGED <<taskVars, abort, dialing, optionVars, flagVars, heldVars,
                   connVars, userVars, event>>

MustWaitReconnecting == connecting /\ isReconnecting      \* mutant of MustWait

(* connect finds another connect in progress. *)
MustWait == connecting

(* connect: the first caller owns the attempt, closes the connection held   *)
(* and dials; the others wait for it.  Every caller clears closed.          *)
Connect(t, mode) ==
    /\ closed' = FALSE
    /\ event' = IF isReconnecting THEN event ELSE "connecting"
    /\ IF MustWait
       THEN /\ task' = [task EXCEPT ![t] = "waiting"]
            /\ UNCHANGED <<connecting, via, current, conn, closeEvent>>
       ELSE /\ task' = [task EXCEPT ![t] = "dialing"]
            /\ connecting' = TRUE
            /\ via' = mode
            /\ current' = NoConn
            /\ CloseHeld(current)
    /\ UNCHANGED <<isReconnecting, transport, handler, listening, kind, heartbeats>>

UserConnect(t) ==
    /\ Macrotask
    /\ t \in Connects
    /\ task[t] = "idle"
    /\ Connect(t, IF enabled THEN "webrtc" ELSE "direct")
    /\ UNCHANGED <<phase, attempts, error, dialVars, optionVars, userVars>>

(* The end of disconnect, once no connect is in progress. *)
Teardown ==
    /\ listening' = Cleaned(current)
    /\ handler' = Forgotten(current)
    /\ CloseHeld(current)
    /\ current' = NoConn
    /\ closed' = TRUE
    /\ event' = "disconnected"

DisconnectWaitsNever == FALSE                       \* mutant of DisconnectWaits
DisconnectWaits == connecting

(* disconnect: abort the dial in progress, then wait for connecting. *)
Disconnect ==
    /\ Macrotask
    /\ disconnects < MaxDisconnects
    /\ disconnects' = disconnects + 1
    /\ abort' = IF dialing = None THEN abort ELSE [abort EXCEPT ![dialing] = TRUE]
    /\ dialing' = None
    /\ IF DisconnectWaits
       THEN /\ waitingDisconnects' = waitingDisconnects + 1
            /\ event' = "disconnecting"
            /\ UNCHANGED <<closed, current, handler, listening, conn, closeEvent>>
       ELSE /\ Teardown
            /\ UNCHANGED waitingDisconnects
    /\ UNCHANGED <<taskVars, userAbort, optionVars, connecting, via, isReconnecting,
                   transport, kind, heartbeats>>

-----------------------------------------------------------------------------
(* Attempts.  A backoff makes its first attempt without a delay; later ones *)
(* when its timer fires.                                                    *)
Due(t) == task[t] = "attempt" \/ (task[t] = "sleeping" /\ Macrotask)

AttemptFails(t, e) ==
    /\ task' = [task EXCEPT ![t] = "error"]
    /\ error' = [error EXCEPT ![t] = e]

(* dialWebRTC and dialDirect look at the internal abort signal first. *)
Stops(d) == abort[d]

AttemptAborted(d) ==
    /\ Due(d)
    /\ Stops(d)
    /\ AttemptFails(d, "aborted")
    /\ UNCHANGED <<phase, attempts, dialVars, optionVars, flagVars, heldVars,
                   connVars, userVars, event>>

(* dialDirect refuses a host that is not local. *)
AttemptRefused(d) ==
    /\ Due(d)
    /\ ~Stops(d)
    /\ phase[d] = "direct" /\ d \notin LocalDials
    /\ AttemptFails(d, "fatal")
    /\ event' = "dialing"
    /\ UNCHANGED <<phase, attempts, dialVars, optionVars, flagVars, heldVars,
                   connVars, userVars>>

(* dialWebRTC and dialDirect save the configuration's options and connect.  *)
AttemptDial(d) ==
    /\ Due(d)
    /\ ~Stops(d)
    /\ phase[d] = "webrtc" \/ d \in LocalDials
    /\ enabled' = (phase[d] = "webrtc")
    /\ IF phase[d] = "webrtc"
       THEN noReconnectW' = NoReconnect[d] /\ UNCHANGED noReconnectD
       ELSE noReconnectD' = NoReconnect[d] /\ UNCHANGED noReconnectW
    /\ Connect(d, phase[d])
    /\ UNCHANGED <<phase, attempts, error, dialVars, userVars>>

(* A reconnection connects with the options of the last dial. *)
AttemptReconnect(r) ==
    /\ Due(r)
    /\ Connect(r, IF enabled THEN "webrtc" ELSE "direct")
    /\ UNCHANGED <<phase, attempts, error, dialVars, optionVars, userVars>>

-----------------------------------------------------------------------------
(* The end of a connect.  Its finally clears connecting, so the connects    *)
(* that waited return, as if connected, and a waiting disconnect goes on,   *)
(* all before the owner's caller hears of the outcome.                      *)

StillReconnectingOn(done) == isReconnecting         \* mutant of StillReconnecting

(* A reconnection that returns without an error clears isReconnecting. *)
StillReconnecting(done) == isReconnecting /\ done \intersect Reconnects = {}

(* The dials, reconnections and connects that return without an error. *)
Return(done, t, outcome) ==
    /\ task' = [x \in Tasks |-> IF x = t THEN outcome ELSE IF x \in done THEN "ok" ELSE task[x]]
    /\ dialing' = IF dialing \in done THEN None ELSE dialing
    /\ isReconnecting' = StillReconnecting(done)
    /\ connecting' = FALSE

(* Finish with connection now held, the handler h and the listeners ls, the *)
(* transport conns cs and the event e, unless a disconnect waits.           *)
Finish(now, h, ls, cs, ce, e) ==
    /\ waitingDisconnects' = 0
    /\ IF waitingDisconnects = 0
       THEN /\ current' = now
            /\ handler' = h
            /\ listening' = ls
            /\ conn' = cs
            /\ closeEvent' = ce
            /\ event' = e
            /\ UNCHANGED closed
       ELSE /\ current' = NoConn
            /\ handler' = IF now = NoConn THEN h ELSE NoConn
            /\ listening' = IF now # NoConn /\ h = now THEN ls \ {now} ELSE ls
            /\ conn' = IF now = NoConn THEN cs ELSE [cs EXCEPT ![now] = "closed"]
            /\ closeEvent' = IF now = NoConn \/ ce[now] # "none" THEN ce
                             ELSE [ce EXCEPT ![now] = "due"]
            /\ event' = "disconnected"
            /\ closed' = TRUE

NewConn == {c \in Conns : conn[c] = "none" /\ \A b \in Conns : b < c => conn[b] # "none"}

AttachedThenCleaned(c) == Cleaned(c) \ {c}          \* mutant of Attached

(* The close listeners when the client has just got connection c: the old   *)
(* handler is looked for on c, then c's own is added.                       *)
Attached(c) == Cleaned(c) \union {c}

(* The WebRTC dial succeeds: the client holds the new connection, and only  *)
(* then removes the old handlers, from the new connection.  Between ready   *)
(* and the end of the signaling call the data channel may have closed: its  *)
(* close event is over when the listener is added.                          *)
ConnectedWebRTC(t) ==
    /\ Macrotask
    /\ task[t] = "dialing" /\ via = "webrtc"
    /\ \E c \in NewConn, over \in BOOLEAN :
        /\ kind' = [kind EXCEPT ![c] = "webrtc"]
        /\ transport' = c
        /\ Finish(c, c, Attached(c), [conn EXCEPT ![c] = IF over THEN "lost" ELSE "open"],
                  [closeEvent EXCEPT ![c] = IF over THEN "missed" ELSE "none"], "connected")
    /\ Return(Waiters \union {t}, t, "ok")
    /\ UNCHANGED <<phase, attempts, error, abort, userAbort, optionVars, via,
                   heartbeats, disconnects>>

(* The gRPC transport is made and kept before it is known to work. *)
DialedDirect(t) ==
    /\ Macrotask
    /\ task[t] = "dialing" /\ via = "direct"
    /\ task' = [task EXCEPT ![t] = "verifying"]
    /\ \E c \in NewConn :
        /\ kind' = [kind EXCEPT ![c] = "direct"]
        /\ conn' = [conn EXCEPT ![c] = "open"]
        /\ transport' = c
    /\ UNCHANGED <<phase, attempts, error, dialVars, optionVars, flagVars, current,
                   handler, listening, closeEvent, heartbeats, userVars, event>>

(* GRPCConnectionManager.start: the transport answers, a heartbeat starts. *)
ConnectedDirect(t) ==
    /\ Macrotask
    /\ task[t] = "verifying"
    /\ conn[transport] = "open"
    /\ heartbeats' = heartbeats \union {transport}
    /\ Finish(current, handler, listening, conn, closeEvent, "connected")
    /\ Return(Waiters \union {t}, t, "ok")
    /\ UNCHANGED <<phase, attempts, error, abort, userAbort, optionVars, via,
                   transport, kind, disconnects>>

(* The dial, or the verification of a gRPC transport, fails. *)
ConnectFails(t) ==
    /\ Macrotask
    /\ task[t] \in {"dialing", "verifying"}
    /\ \E e \in {"retryable", "fatal"} : error' = [error EXCEPT ![t] = e]
    /\ Finish(current, handler, listening, conn, closeEvent,
              IF isReconnecting THEN event ELSE "disconnected")
    /\ Return(Waiters, t, "error")
    /\ UNCHANGED <<phase, attempts, abort, userAbort, optionVars, via, transport,
                   kind, heartbeats, disconnects>>

-----------------------------------------------------------------------------
(* The retry callback of a backoff.  The dial's callback holds copies of    *)
(* the abort signals' values, taken when the dial began, so it never sees   *)
(* one set later; an aborted attempt counts as one to be retried.  In a     *)
(* reconnection shouldRetryOnError may ask to retry any error.  The number  *)
(* of an attempt that nothing compares with a maximum is kept up to it.     *)
Retryable(t) == error[t] \in {"retryable", "aborted"}

AttemptsOut(t) == ~Unlimited(t) /\ attempts[t] + 1 >= NumOfAttempts(t)

MayRetry(t) ==
    /\ task[t] = "error"
    /\ attempts' = [attempts EXCEPT ![t] = IF @ = MaxAttempts THEN @ ELSE @ + 1]

Retry(t) ==
    /\ MayRetry(t)
    /\ ~closed
    /\ Retryable(t) \/ t \in Reconnects
    /\ ~AttemptsOut(t)
    /\ task' = [task EXCEPT ![t] = "sleeping"]
    /\ UNCHANGED <<phase, error, dialVars, optionVars, flagVars, heldVars, connVars,
                   userVars, event>>

Exhausted(t) == closed \/ ~Retryable(t) \/ AttemptsOut(t)

ReconnectionFailed(r) ==
    /\ r \in Reconnects
    /\ MayRetry(r)
    /\ Exhausted(r)
    /\ task' = [task EXCEPT ![r] = "failed"]
    /\ isReconnecting' = FALSE
    /\ event' = "reconnection_failed"
    /\ UNCHANGED <<phase, error, dialVars, optionVars, connecting, via, closed,
                   heldVars, connVars, userVars>>

(* A connect of the application has no backoff: its error is thrown. *)
UserConnectFails(t) ==
    /\ t \in Connects
    /\ MayRetry(t)
    /\ task' = [task EXCEPT ![t] = "failed"]
    /\ UNCHANGED <<phase, error, dialVars, optionVars, flagVars, heldVars, connVars,
                   userVars, event>>

Forget(d) == dialing' = IF dialing = d THEN None ELSE dialing

(* The backoff of a dial ends with the abort error: dial returns the client.*)
DialAborted(d) ==
    /\ d \in Dials
    /\ MayRetry(d)
    /\ Exhausted(d)
    /\ error[d] = "aborted"
    /\ task' = [task EXCEPT ![d] = "aborted"]
    /\ Forget(d)
    /\ UNCHANGED <<phase, error, abort, userAbort, optionVars, flagVars, heldVars,
                   connVars, userVars, event>>

(* The WebRTC phase of a dial failed: go on with gRPC, unless aborted. *)
FallBack(d) ==
    /\ d \in Dials
    /\ task[d] = "error"
    /\ Exhausted(d)
    /\ error[d] # "aborted"
    /\ phase[d] = "webrtc"
    /\ event' = "disconnected"
    /\ attempts' = [attempts EXCEPT ![d] = 0]
    /\ phase' = [phase EXCEPT ![d] = "direct"]
    /\ IF Aborted(d)
       THEN task' = [task EXCEPT ![d] = "aborted"] /\ Forget(d)
       ELSE task' = [task EXCEPT ![d] = "attempt"] /\ UNCHANGED dialing
    /\ UNCHANGED <<error, abort, userAbort, optionVars, flagVars, heldVars, connVars,
                   userVars>>

(* The gRPC phase failed: dial rejects with the errors of all its phases. *)
DialFailed(d) ==
    /\ d \in Dials
    /\ MayRetry(d)
    /\ Exhausted(d)
    /\ error[d] # "aborted"
    /\ phase[d] = "direct"
    /\ event' = "disconnected"
    /\ task' = [task EXCEPT ![d] = "failed"]
    /\ Forget(d)
    /\ UNCHANGED <<phase, error, abort, userAbort, optionVars, flagVars, heldVars,
                   connVars, userVars>>

-----------------------------------------------------------------------------
(* Connections end. *)

(* The robot or the network ends a connection; of a WebRTC one the data     *)
(* channel's close event is due.                                            *)
ConnectionLost(c) ==
    /\ Macrotask
    /\ conn[c] = "open"
    /\ conn' = [conn EXCEPT ![c] = "lost"]
    /\ closeEvent' = IF kind[c] = "webrtc" THEN [closeEvent EXCEPT ![c] = "due"] ELSE closeEvent
    /\ UNCHANGED <<taskVars, dialVars, optionVars, flagVars, heldVars, kind, heartbeats,
                   userVars, event>>

(* onDisconnect, for the loss of connection c. *)
OnDisconnect(c) ==
    IF noReconnect \/ closed
    THEN /\ event' = "disconnected"
         /\ UNCHANGED <<task, isReconnecting>>
    ELSE /\ event' = "reconnecting"
         /\ isReconnecting' = TRUE
         /\ task' = [task EXCEPT ![c] = "attempt"]

(* The close event of a data channel reaches the handler it still has. *)
OnDataChannelClose(c) ==
    /\ Macrotask
    /\ closeEvent[c] = "due"
    /\ closeEvent' = [closeEvent EXCEPT ![c] = "delivered"]
    /\ IF c \in listening
       THEN OnDisconnect(c)
       ELSE UNCHANGED <<event, task, isReconnecting>>
    /\ UNCHANGED <<phase, attempts, error, dialVars, optionVars, connecting, via, closed,
                   heldVars, kind, conn, heartbeats, userVars>>

HeartbeatGoesOn(c) ==                               \* mutant of HeartbeatFails
    /\ Macrotask
    /\ c \in heartbeats
    /\ conn[transport] # "open"
    /\ OnDisconnect(c)
    /\ UNCHANGED <<phase, attempts, error, dialVars, optionVars, connecting, via, closed,
                   heldVars, kind, conn, closeEvent, heartbeats, userVars>>

(* A heartbeat of GRPCConnectionManager goes to whatever transport is the   *)
(* current one; when it fails the loop reports the loss and ends.           *)
HeartbeatFails(c) ==
    /\ Macrotask
    /\ c \in heartbeats
    /\ conn[transport] # "open"
    /\ heartbeats' = heartbeats \ {c}
    /\ OnDisconnect(c)
    /\ UNCHANGED <<phase, attempts, error, dialVars, optionVars, connecting, via, closed,
                   heldVars, kind, conn, closeEvent, userVars>>

-----------------------------------------------------------------------------
DialStep(d) ==
    \/ AttemptAborted(d) \/ AttemptRefused(d) \/ AttemptDial(d)
    \/ DialAborted(d) \/ FallBack(d) \/ DialFailed(d)

Attempt(t) == (t \in Dials /\ DialStep(t)) \/ (t \in Reconnects /\ AttemptReconnect(t))

Outcome(t) == ConnectedWebRTC(t) \/ DialedDirect(t) \/ ConnectedDirect(t) \/ ConnectFails(t)

TaskStep(t) ==
    \/ Attempt(t) \/ Outcome(t)
    \/ Retry(t) \/ ReconnectionFailed(t) \/ UserConnectFails(t)

Application ==
    \/ \E d \in Dials : Dial(d)
    \/ \E d \in Signaled : UserAbort(d)
    \/ \E t \in Connects : UserConnect(t)
    \/ Disconnect

Noticed(c) == OnDataChannelClose(c) \/ HeartbeatFails(c)

Next ==
    \/ Application
    \/ \E t \in Tasks : TaskStep(t)
    \/ \E c \in Conns : ConnectionLost(c) \/ Noticed(c)

(* A WebRTC dial without a timer may go on for ever. *)
MayHang(t) == t \in Untimed /\ task[t] = "dialing" /\ via = "webrtc"

(* Continuations and timers run, a dial that has a timer has an outcome,    *)
(* and an event that is due is delivered; nothing makes the application or  *)
(* the network act.  Fairness is strong: a timer whose time has come waits  *)
(* while continuations are due, which a dial without a maximum makes again  *)
(* and again, and runs in the end all the same.                             *)
Fairness ==
    /\ \A t \in Tasks : SF_vars(~MayHang(t) /\ TaskStep(t))
    /\ \A c \in Conns : SF_vars(Noticed(c))

Spec == Init /\ [][Next]_vars /\ Fairness

-----------------------------------------------------------------------------
TypeOK ==
    /\ task \in [Tasks -> {"idle", "attempt", "waiting", "dialing", "verifying", "error",
                           "sleeping", "ok", "aborted", "failed"}]
    /\ phase \in [Dials -> {"webrtc", "direct"}]
    /\ attempts \in [Tasks -> 0 .. MaxAttempts]
    /\ error \in [Tasks -> {"none", "retryable", "fatal", "aborted"}]
    /\ abort \in [Dials -> BOOLEAN]
    /\ userAbort \in [Dials -> BOOLEAN]
    /\ dialing \in Dials \union {None}
    /\ connecting \in BOOLEAN
    /\ via \in {"webrtc", "direct"}
    /\ closed \in BOOLEAN
    /\ isReconnecting \in BOOLEAN
    /\ enabled \in BOOLEAN
    /\ noReconnectW \in {"unset", "yes", "no"}
    /\ noReconnectD \in {"unset", "yes", "no"}
    /\ current \in Conns \union {NoConn}
    /\ transport \in Conns \union {NoConn}
    /\ handler \in Conns \union {NoConn}
    /\ listening \subseteq Conns
    /\ kind \in [Conns -> {"webrtc", "direct"}]
    /\ conn \in [Conns -> {"none", "open", "lost", "closed"}]
    /\ closeEvent \in [Conns -> {"none", "due", "delivered", "missed"}]
    /\ heartbeats \subseteq Conns
    /\ disconnects \in 0 .. MaxDisconnects
    /\ waitingDisconnects \in 0 .. MaxDisconnects
    /\ event \in {"none", "connecting", "connected", "dialing", "disconnecting",
                  "disconnected", "reconnecting", "reconnection_failed"}

(* One connect at a time dials, and the promise connecting is set exactly   *)
(* while it does, whatever dials, reconnections and connects overlap.       *)
Owners == {t \in Tasks : task[t] \in {"dialing", "verifying"}}

SingleConnect ==
    /\ \A t, u \in Owners : t = u
    /\ connecting <=> Owners # {}

(* Whoever awaits connecting awaits a connect that is going on.             *)
NobodyWaitsForNothing ==
    (\E t \in Tasks : task[t] = "waiting") \/ waitingDisconnects > 0 => connecting

(* Every WebRTC connection that is open is the one the client holds: no     *)
(* interleaving of connects, reconnections and disconnects leaks one.       *)
NoLeakedConnection ==
    \A c \in Conns : kind[c] = "webrtc" /\ conn[c] = "open" => c = current

(* A client that disconnect closed holds no connection and makes none.      *)
ClosedHoldsNothing == closed => current = NoConn /\ ~connecting

(* isReconnecting never outlives the reconnections: else connect would keep *)
(* its CONNECTING and DISCONNECTED events to itself for ever.               *)
ReconnectingHasTask == isReconnecting => \E r \in Reconnects : Active(r)

(* The connection held has its close listener, so its loss is noticed.      *)
HeldIsWatched == current # NoConn => current \in listening /\ handler = current

(* A signal that is set while a phase of a dial runs, its backoff asleep or *)
(* a connect waited for, is the end of the dial when that phase fails: no   *)
(* phase makes its first attempt once either signal is set (performDial).   *)
AbortEndsAtThePhase ==
    [][\A d \in Dials : (abort[d] \/ userAbort[d]) /\ task[d] = "attempt" =>
                            task'[d] \notin {"dialing", "waiting"}]_vars

(* Every dial with a maximum of attempts settles, and every connect and     *)
(* reconnection ends, beside dials that never do, unless the connect they   *)
(* all wait for is that of a dial without a timer which never ends.         *)
TasksEnd ==
    []<>(\A u \in Tasks : ~MayHang(u)) =>
        \A t \in Tasks : Active(t) /\ ~Unlimited(t) ~> ~Active(t)

(* How far a task is from its end: what is left of its attempts, those of   *)
(* the gRPC phase included, and of the attempt that it is making.           *)
AttemptsToGo(t) ==
    (IF t \in Dials /\ phase[t] = "webrtc" THEN 2 * MaxAttempts ELSE MaxAttempts) - attempts[t]

Stage(t) ==
    CASE task[t] \in {"attempt", "sleeping"} -> 4
      [] task[t] \in {"waiting", "dialing"}  -> 3
      [] task[t] = "verifying"               -> 2
      [] task[t] = "error"                   -> 1
      [] OTHER                               -> 0

StepsToGo(t) == 5 * AttemptsToGo(t) + Stage(t)

(* There are always so many to go that none is below nothing. *)
StepsAreCounted == \A t \in Tasks : StepsToGo(t) \in 0 .. 10 * MaxAttempts + 4

(* No dial with a maximum of attempts, no connect and no reconnection goes  *)
(* on for ever or starts anew: each step of one that was called brings it   *)
(* nearer to its end, and no step of another sets it back, be that other a  *)
(* dial without a maximum.                                                  *)
TasksGoOn ==
    [][\A t \in Tasks : task[t] # "idle" /\ ~Unlimited(t) =>
        \/ task'[t] = task[t] /\ StepsToGo(t)' = StepsToGo(t)
        \/ Active(t) /\ StepsToGo(t)' < StepsToGo(t)]_vars

(* The loss of the connection held is acted on: it is replaced, or reported,*)
(* unless it was over before connect got hold of it (NoLossIsMissed).       *)
LossIsNoticed ==
    \A c \in Conns :
        conn[c] = "lost" /\ current = c /\ closeEvent[c] # "missed"
            ~> current # c \/ event = "disconnected"

(* A close event that comes while the connection is held finds its handler, *)
(* and the handler starts a reconnection or reports the loss (onDisconnect).*)
(* Of the events that came before, closeEvent says that they were missed.   *)
LossIsActedOn ==
    [][\A c \in Conns : current = c /\ closeEvent[c] # closeEvent'[c] /\ closeEvent'[c] = "delivered" =>
                            task'[c] = "attempt" \/ event' = "disconnected"]_vars

-----------------------------------------------------------------------------
(* What tests and documentation say, and the code does not do. *)

Connected == transport # NoConn /\ conn[transport] = "open"

(* RobotClient.isConnected looks at the peer connection only. *)
IsConnected == current # NoConn /\ conn[current] = "open"

(* "disconnect should stop retries": once disconnect is done, a backoff     *)
(* that sleeps does not connect again.                                      *)
DisconnectStopsRetries ==
    [][\A t \in Tasks : closed /\ task[t] = "sleeping" => task'[t] # "dialing"]_vars

(* "@default 10": a dial that leaves reconnectMaxAttempts unset does not    *)
(* sleep after as many attempts as the default is.                          *)
MaximumByDefault ==
    [][\A d \in Dials : attempts'[d] >= MaxAttempts => task'[d] # "sleeping"]_vars

(* "With abort, the first dial stops retrying": once an attempt found the   *)
(* signal of dial or disconnect, no other attempt follows.                  *)
AbortStopsRetries ==
    [][\A d \in Dials : task[d] = "error" /\ error[d] = "aborted" => task'[d] # "sleeping"]_vars

(* "Instead, listen to the data channel closing and emit disconnect when    *)
(* that occurs": no loss of the connection held goes without notice.        *)
NoLossIsMissed ==
    \A c \in Conns : conn[c] = "lost" /\ current = c ~> current # c \/ event = "disconnected"

(* "old handler should be removed before new handler is added"              *)
OldHandlerRemoved == Cardinality(listening) <= 1

(* "second dial should succeed": a dial that waited for another connect and *)
(* resolves has a connection.                                               *)
SecondDialConnects ==
    [][\A d \in Dials : task[d] = "waiting" /\ task'[d] = "ok" => Connected']_vars

(* "Connect to a robot via WebRTC or gRPC and return a RobotClient after    *)
(* connecting successfully": createRobotClient throws unless isConnected.   *)
DirectDialIsConnected ==
    [][\A d \in Dials : task[d] = "verifying" /\ task'[d] = "ok" => IsConnected']_vars
=============================================================================
