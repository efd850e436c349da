----------------------- MODULE SessionManagerProofs -----------------------
(***************************************************************************)
(* The safety of the session of one RobotClient, for any number of calls,   *)
(* connections and resets, over WebRTC and over gRPC-web.                   *)
(***************************************************************************)
EXTENDS SessionManager, TLAPS

(* What was decided about sessions, and how far a start got.  An answer that *)
(* decides keeps the start that is under way from deciding otherwise.        *)
Decided ==
    /\ supported = "true" => sid # NoSession
    /\ supported = "false" => declined
    /\ starting = "startSession" => supported # "true"
    /\ starting = "reflection" => supported # "undefined"

Running(c) == loop[c] \in {"inFlight", "sleeping"}

(* Whether a loop goes on or is stranded: it has not ended. *)
HasLoop == supported = "true" /\ starting = "none" => \E c \in Callers : Running(c)

(* The inductive invariant: that a call carries a session needs to know what *)
(* a start leaves behind at each of its awaits, which is Decided.            *)
IInv ==
    /\ TypeOK
    /\ Decided
    /\ HasLoop
    /\ CallsCarrySession
    /\ WaitingIffStarting

-----------------------------------------------------------------------------
(* TypeOK in two parts: what is true or false, and the rest. *)
Booleans == webRTC \in BOOLEAN /\ up \in BOOLEAN /\ declined \in BOOLEAN

Shapes ==
    /\ supported \in {"undefined", "true", "false"}
    /\ issued \in Nat
    /\ sid \in 0 .. issued
    /\ starting \in {"none", "startSession", "reflection"}
    /\ starter \in IF starting = "none" THEN {NoCaller} ELSE Callers
    /\ startConn \in 0 .. conn
    /\ caller \in [Callers -> {"idle", "waiting", "sent", "failed"}]
    /\ callerSid \in [Callers -> 0 .. issued]
    /\ loop \in [Callers -> {"none", "inFlight", "sleeping", "ended"}]
    /\ loopConn \in [Callers -> 0 .. conn]
    /\ conn \in Nat
    /\ robotSessions \subseteq 1 .. issued
    /\ resets \in Nat

LEMMA TypeParts == TypeOK <=> Booleans /\ Shapes
  BY DEF TypeOK, Booleans, Shapes

LEMMA TypePartsNext == TypeOK' <=> Booleans' /\ Shapes'
  BY DEF TypeOK, Booleans, Shapes

LEMMA InitIInv == Init => IInv
<1> SUFFICES ASSUME Init PROVE IInv
  OBVIOUS
<1>1. TypeOK
  <2>1. Booleans
    BY DEF Init, Booleans
  <2>2. Shapes
    BY DEF Init, Shapes, NoSession, NoConn
  <2> QED
    BY <2>1, <2>2, TypeParts
<1>2. Decided /\ HasLoop
  BY DEF Init, Decided, HasLoop
<1>3. CallsCarrySession /\ WaitingIffStarting
  BY DEF Init, CallsCarrySession, WaitingIffStarting
<1> QED
  BY <1>1, <1>2, <1>3 DEF IInv

(* A promise that is cleared lets every call that waits go on.               *)
LEMMA FinishType ==
  ASSUME TypeOK, NEW ok \in BOOLEAN, NEW supp, NEW s \in 0 .. issued,
         FinishStart(ok, supp, s), issued' = issued
  PROVE  /\ starting' = "none" /\ starter' = NoCaller /\ startConn' = 0
         /\ caller' \in [Callers -> {"idle", "waiting", "sent", "failed"}]
         /\ callerSid' \in [Callers -> 0 .. issued']
         /\ \A c \in Callers : caller'[c] # "waiting"
  BY DEF TypeOK, FinishStart, ClearStarting, Waiting, Metadata, Sent, ThrowsClosed, NoSession,
         NoConn

LEMMA StartIInv ==
  ASSUME IInv, Starting
  PROVE  IInv'
<1> USE DEF IInv, NoSession
<1> Booleans /\ Shapes
  BY TypeParts
<1>1. CASE StartSessionOk
  <2>1. TypeOK' /\ sid' # NoSession
    <3>1. /\ sid' \in 0 .. issued' /\ issued' \in Nat /\ issued <= issued'
          /\ robotSessions' \subseteq 1 .. issued' /\ sid' # 0
      <4>1. CASE sid \in robotSessions
        <5>1. sid' = sid /\ issued' = issued /\ robotSessions' = robotSessions
          BY <1>1, <4>1 DEF StartSessionOk
        <5> QED
          BY <4>1, <5>1 DEF Shapes
      <4>2. CASE sid \notin robotSessions
        <5>1. /\ sid' = issued + 1 /\ issued' = issued + 1
              /\ robotSessions' = robotSessions \union {issued + 1}
          BY <1>1, <4>2 DEF StartSessionOk
        <5>2. issued \in Nat /\ robotSessions \subseteq 1 .. issued
          BY DEF Shapes
        <5> QED
          BY <5>1, <5>2
      <4> QED
        BY <4>1, <4>2
    <3>2. callerSid' \in [Callers -> 0 .. issued']
      BY <1>1, <3>1 DEF StartSessionOk, Shapes, callVars
    <3>3. Shapes'
      BY <1>1, <3>1, <3>2 DEF StartSessionOk, Shapes, callVars, loopVars, connVars
    <3>4. Booleans'
      BY <1>1 DEF StartSessionOk, Booleans, connVars
    <3> QED
      BY <3>1, <3>3, <3>4, TypePartsNext
  <2>2. Decided' /\ HasLoop'
    BY <1>1, <2>1 DEF StartSessionOk, Decided, HasLoop
  <2>3. CallsCarrySession' /\ WaitingIffStarting'
    BY <1>1 DEF StartSessionOk, CallsCarrySession, WaitingIffStarting, callVars
  <2> QED
    BY <2>1, <2>2, <2>3
<1>2. CASE StartSessionUnimplemented
  <2>1. /\ FinishStart(TRUE, "false", sid) /\ declined' = TRUE /\ supported' = "false"
        /\ UNCHANGED <<sid, loopVars, connVars, robotSessions, issued, resets>>
    BY <1>2 DEF StartSessionUnimplemented
  <2>2. TypeOK'
    <3>1. Shapes'
      <4>1. sid \in 0 .. issued /\ issued' = issued
        BY <2>1 DEF Shapes
      <4>2. /\ starting' = "none" /\ starter' = NoCaller /\ startConn' = 0
            /\ caller' \in [Callers -> {"idle", "waiting", "sent", "failed"}]
            /\ callerSid' \in [Callers -> 0 .. issued']
        BY <2>1, <4>1, FinishType
      <4> QED
        BY <2>1, <4>2 DEF Shapes, loopVars, connVars
    <3>2. Booleans'
      BY <2>1 DEF Booleans, connVars
    <3> QED
      BY <3>1, <3>2, TypePartsNext
  <2>3. WaitingIffStarting' /\ starting' = "none"
    <3>1. sid \in 0 .. issued /\ issued' = issued
      BY <2>1 DEF TypeOK
    <3> QED
      BY <2>1, <3>1, FinishType DEF WaitingIffStarting
  <2> QED
    BY <2>1, <2>2, <2>3 DEF Decided, HasLoop, CallsCarrySession
<1>3. CASE StartSessionError
  <2>1. /\ FinishStart(FALSE, supported, sid)
        /\ starting = "startSession"
        /\ UNCHANGED <<sessionVars, loopVars, connVars, robotVars, resets>>
    BY <1>3 DEF StartSessionError
  <2>2. TypeOK'
    <3>1. Shapes'
      <4>1. sid \in 0 .. issued /\ issued' = issued
        BY <2>1 DEF Shapes, robotVars
      <4>2. /\ starting' = "none" /\ starter' = NoCaller /\ startConn' = 0
            /\ caller' \in [Callers -> {"idle", "waiting", "sent", "failed"}]
            /\ callerSid' \in [Callers -> 0 .. issued']
        BY <2>1, <4>1, FinishType
      <4> QED
        BY <2>1, <4>2 DEF Shapes, sessionVars, loopVars, connVars, robotVars
    <3>2. Booleans'
      BY <2>1 DEF Booleans, connVars, robotVars
    <3> QED
      BY <3>1, <3>2, TypePartsNext
  <2>3. WaitingIffStarting' /\ starting' = "none"
    <3>1. sid \in 0 .. issued /\ issued' = issued
      BY <2>1 DEF TypeOK, robotVars
    <3> QED
      BY <2>1, <3>1, FinishType DEF WaitingIffStarting
  <2>4. CallsCarrySession'
    BY <2>1 DEF FinishStart, CallsCarrySession, TypeOK, robotVars, Waiting
  <2> QED
    BY <2>1, <2>2, <2>3, <2>4 DEF Decided, HasLoop, sessionVars, robotVars
<1>4. CASE ReflectionDone
  <2>1. /\ FinishStart(TRUE, supported, sid)
        /\ starting = "reflection"
        /\ UNCHANGED <<sid, connVars, robotVars, resets>>
    BY <1>4 DEF ReflectionDone
  <2>2. starting' = "none" /\ WaitingIffStarting' /\ starter \in Callers
    <3>1. sid \in 0 .. issued /\ issued' = issued /\ starter \in Callers
      BY <2>1 DEF TypeOK, robotVars
    <3> QED
      BY <2>1, <3>1, FinishType DEF WaitingIffStarting
  <2>3. TypeOK'
    <3>1. /\ supported' \in {"undefined", "true", "false"}
          /\ loop' \in [Callers -> {"none", "inFlight", "sleeping", "ended"}]
          /\ loopConn' \in [Callers -> 0 .. conn']
      BY <1>4, <2>1, <2>2 DEF ReflectionDone, Shapes, loopVars, connVars
    <3>2. Shapes'
      <4>1. sid \in 0 .. issued /\ issued' = issued
        BY <2>1 DEF Shapes, robotVars
      <4>2. /\ starting' = "none" /\ starter' = NoCaller /\ startConn' = 0
            /\ caller' \in [Callers -> {"idle", "waiting", "sent", "failed"}]
            /\ callerSid' \in [Callers -> 0 .. issued']
        BY <2>1, <4>1, FinishType
      <4> QED
        BY <2>1, <3>1, <4>2 DEF Shapes, connVars, robotVars
    <3>3. Booleans'
      BY <2>1 DEF Booleans, connVars, robotVars
    <3> QED
      BY <3>2, <3>3, TypePartsNext
  <2>4. CallsCarrySession'
    BY <2>1 DEF FinishStart, CallsCarrySession, TypeOK, Decided, robotVars, Waiting, Metadata
  <2>5. supported' \in {supported, "undefined"} /\ HasLoop'
    BY <1>4, <2>2 DEF ReflectionDone, TypeOK, HasLoop, Running, loopVars
  <2> QED
    BY <2>1, <2>2, <2>3, <2>4, <2>5 DEF Decided, robotVars
<1> QED
  BY <1>1, <1>2, <1>3, <1>4 DEF Starting

LEMMA CallIInv ==
  ASSUME IInv, NEW c \in Callers, Call(c)
  PROVE  IInv'
<1> USE DEF IInv, NoSession, sessionVars, startVars, callVars, loopVars, connVars, robotVars
<1>1. CASE AwaitStarting(c)
  BY <1>1 DEF AwaitStarting, TypeOK, Decided, HasLoop, CallsCarrySession,
         WaitingIffStarting, Running
<1>2. CASE UseSession(c)
  <2>1. TypeOK'
    BY <1>2 DEF UseSession, TypeOK, Metadata, Sent
  <2>2. CallsCarrySession'
    BY <1>2 DEF UseSession, TypeOK, CallsCarrySession, Decided, Metadata
  <2>3. WaitingIffStarting'
    BY <1>2 DEF UseSession, TypeOK, WaitingIffStarting, Sent
  <2> QED
    BY <1>2, <2>1, <2>2, <2>3 DEF UseSession, Decided, HasLoop, Running
<1>3. CASE StartSession(c)
  <2>1. TypeOK'
    BY <1>3, NoCallerAssumption DEF StartSession, TypeOK
  <2>2. CallsCarrySession' /\ WaitingIffStarting'
    BY <1>3 DEF StartSession, TypeOK, CallsCarrySession, WaitingIffStarting
  <2> QED
    BY <1>3, <2>1, <2>2 DEF StartSession, Decided, HasLoop
<1> QED
  BY <1>1, <1>2, <1>3 DEF Call

LEMMA HeartbeatIInv ==
  ASSUME IInv, NEW c \in Callers, HeartbeatReply(c) \/ HeartbeatTimer(c)
  PROVE  IInv'
<1> USE DEF IInv, NoSession, sessionVars, startVars, callVars, loopVars, connVars, robotVars
<1>1. CASE HeartbeatAnswered(c)
  BY <1>1 DEF HeartbeatAnswered, TypeOK, Decided, HasLoop, CallsCarrySession,
         WaitingIffStarting, Running
<1>2. CASE HeartbeatUnimplemented(c)
  BY <1>2 DEF HeartbeatUnimplemented, TypeOK, Decided, HasLoop, CallsCarrySession,
         WaitingIffStarting, Running
<1>3. CASE HeartbeatTimer(c)
  <2>1. TypeOK'
    BY <1>3 DEF HeartbeatTimer, SendHeartbeat, Reset, TypeOK
  <2>2. HasLoop'
    BY <1>3 DEF HeartbeatTimer, SendHeartbeat, Reset, TypeOK, HasLoop, Running
  <2> QED
    BY <1>3, <2>1, <2>2 DEF HeartbeatTimer, SendHeartbeat, Reset, Decided, CallsCarrySession,
           WaitingIffStarting
<1> QED
  BY <1>1, <1>2, <1>3 DEF HeartbeatReply

LEMMA EnvironmentIInv ==
  ASSUME IInv, Environment \/ UNCHANGED vars
  PROVE  IInv'
<1> USE DEF IInv, NoSession, sessionVars, startVars, callVars, loopVars, connVars, robotVars
<1>1. CASE ConnectionLost
  BY <1>1 DEF ConnectionLost, TypeOK, Decided, HasLoop, CallsCarrySession,
         WaitingIffStarting, Running
<1>2. CASE Reconnected
  BY <1>2 DEF Reconnected, TypeOK, Decided, HasLoop, CallsCarrySession,
         WaitingIffStarting, Running
<1>3. CASE ClientReset
  BY <1>3 DEF ClientReset, Reset, TypeOK, Decided, HasLoop, CallsCarrySession,
         WaitingIffStarting, Running
<1>4. CASE SessionExpires
  BY <1>4 DEF SessionExpires, TypeOK, Decided, HasLoop, CallsCarrySession,
         WaitingIffStarting, Running
<1>5. CASE UNCHANGED vars
  BY <1>5 DEF vars, TypeOK, Decided, HasLoop, CallsCarrySession, WaitingIffStarting,
         Running
<1> QED
  BY <1>1, <1>2, <1>3, <1>4, <1>5 DEF Environment

LEMMA Inductive == IInv /\ [Next]_vars => IInv'
  BY StartIInv, CallIInv, HeartbeatIInv, EnvironmentIInv DEF Next

-----------------------------------------------------------------------------
(* The inductive invariant holds in every reachable state. *)
THEOREM Invariance == Spec => []IInv
<1>1. Init => IInv
  BY InitIInv
<1>2. IInv /\ [Next]_vars => IInv'
  BY Inductive
<1> QED
  BY <1>1, <1>2, PTL DEF Spec

(* The state is well formed: the client names a session the robot issued,     *)
(* and a promise starting that was cleared left nothing of itself behind.     *)
THEOREM TypeCorrect == Spec => []TypeOK
<1>1. IInv => TypeOK
  BY DEF IInv
<1> QED
  BY <1>1, Invariance, PTL

(* A session the client believes in has a heartbeat loop that goes on; only   *)
(* over WebRTC it may be stranded (heartbeat, doHeartbeat).                   *)
THEOREM SessionsAreKeptAlive == Spec => []SessionHasLoop
<1>1. IInv => SessionHasLoop
  <2> SUFFICES ASSUME IInv, supported = "true", starting = "none"
               PROVE  (\E c \in Callers : GoesOn(c)) \/ (\E c \in Callers : Stranded(c))
    BY DEF SessionHasLoop
  <2>1. PICK c \in Callers : Running(c)
    BY DEF IInv, HasLoop
  <2>2. GoesOn(c) \/ Stranded(c)
    BY <2>1 DEF Running, GoesOn, Stranded, FailsOnClose
  <2> QED
    BY <2>2
<1> QED
  BY <1>1, Invariance, PTL

(* A monitored call goes out without a session only to a robot that has none  *)
(* (getSessionMetadata, reset).                                               *)
THEOREM CallsAreProtected == Spec => []CallsCarrySession
<1>1. IInv => CallsCarrySession
  BY DEF IInv
<1> QED
  BY <1>1, Invariance, PTL

(* Calls wait exactly while a session is being started (the promise starting).*)
THEOREM NobodyIsLeftBehind == Spec => []WaitingIffStarting
<1>1. IInv => WaitingIffStarting
  BY DEF IInv
<1> QED
  BY <1>1, Invariance, PTL
=============================================================================
