------------------------- MODULE RobotClientProofs -------------------------
(***************************************************************************)
(* The safety of the connection lifecycle, for any dials, connects, numbers *)
(* of attempts and connections.                                             *)
(***************************************************************************)
EXTENDS RobotClient, TLAPS

States   == {"idle", "attempt", "waiting", "dialing", "verifying", "error", "sleeping",
             "ok", "aborted", "failed"}
Settled  == {"ok", "aborted", "failed"}

-----------------------------------------------------------------------------
(* The inductive invariant.  That nothing is leaked needs that a connect    *)
(* which dials holds nothing (DialingHoldsNothing).  That a backoff's count *)
(* is bounded, and that no reconnection starts over, needs that the loss of *)
(* a connection is reported once (ReportedOnce), which in turn needs what   *)
(* a close event or a heartbeat says of its connection.                     *)
AttemptsLeft ==
    /\ \A t \in Tasks : task[t] \notin Settled /\ ~Unlimited(t) => attempts[t] < NumOfAttempts(t)
    /\ waitingDisconnects <= disconnects

AttemptsAreWanted == \A d \in Dials : task[d] = "attempt" => ~userAbort[d]

DialingHoldsNothing == connecting => current = NoConn

HeldIsMade == current # NoConn => kind[current] = "webrtc" /\ conn[current] # "none"

CloseFollows ==
    \A c \in Conns :
        /\ closeEvent[c] # "none" => kind[c] = "webrtc"
        /\ conn[c] \in {"none", "open"} => closeEvent[c] = "none"

HeartbeatsAreDirect == \A c \in heartbeats : kind[c] = "direct" /\ conn[c] # "none"

Verifying == \E t \in Tasks : task[t] = "verifying"

VerifiedIsNew ==
    Verifying => /\ transport \in Conns
                 /\ transport \notin heartbeats
                 /\ kind[transport] = "direct"
                 /\ conn[transport] # "none"

ReportedOnce ==
    \A c \in Conns : task[c] # "idle" =>
        /\ conn[c] # "none"
        /\ c \notin heartbeats
        /\ kind[c] = "webrtc" => closeEvent[c] = "delivered"
        /\ ~(Verifying /\ transport = c)

Connecting == SingleConnect /\ NobodyWaitsForNothing /\ ReconnectingHasTask
Holding    == NoLeakedConnection /\ ClosedHoldsNothing /\ HeldIsWatched /\ DialingHoldsNothing
Making     == HeldIsMade /\ CloseFollows /\ HeartbeatsAreDirect /\ VerifiedIsNew
Attempting == AttemptsLeft /\ AttemptsAreWanted /\ ReportedOnce

IInv == TypeOK /\ Connecting /\ Holding /\ Making /\ Attempting

-----------------------------------------------------------------------------
Modes == {"webrtc", "direct"}

(* What a dial's configuration sets, and the events: no part of the         *)
(* invariant but their types depends on them.                               *)
OptionTypes ==
    /\ phase \in [Dials -> Modes]
    /\ error \in [Tasks -> {"none", "retryable", "fatal", "aborted"}]
    /\ abort \in [Dials -> BOOLEAN]
    /\ userAbort \in [Dials -> BOOLEAN]
    /\ dialing \in Dials \union {None}
    /\ enabled \in BOOLEAN
    /\ noReconnectW \in {"unset", "yes", "no"}
    /\ noReconnectD \in {"unset", "yes", "no"}
    /\ event \in {"none", "connecting", "connected", "dialing", "disconnecting",
                  "disconnected", "reconnecting", "reconnection_failed"}

FlagTypes == connecting \in BOOLEAN /\ closed \in BOOLEAN /\ isReconnecting \in BOOLEAN

TaskTypes ==
    /\ task \in [Tasks -> States]
    /\ attempts \in [Tasks -> 0 .. MaxAttempts]
    /\ via \in Modes
    /\ disconnects \in 0 .. MaxDisconnects
    /\ waitingDisconnects \in 0 .. MaxDisconnects

HeldTypes ==
    /\ current \in Conns \union {NoConn}
    /\ transport \in Conns \union {NoConn}
    /\ handler \in Conns \union {NoConn}
    /\ listening \subseteq Conns

ConnTypes ==
    /\ kind \in [Conns -> Modes]
    /\ conn \in [Conns -> {"none", "open", "lost", "closed"}]
    /\ closeEvent \in [Conns -> {"none", "due", "delivered", "missed"}]
    /\ heartbeats \subseteq Conns

LEMMA TypeParts ==
  TypeOK <=> OptionTypes /\ FlagTypes /\ TaskTypes /\ HeldTypes /\ ConnTypes
  BY DEF TypeOK, OptionTypes, FlagTypes, TaskTypes, HeldTypes, ConnTypes, Modes, States

LEMMA TypePartsNext ==
  TypeOK' <=> OptionTypes' /\ FlagTypes' /\ TaskTypes' /\ HeldTypes' /\ ConnTypes'
  BY DEF TypeOK, OptionTypes, FlagTypes, TaskTypes, HeldTypes, ConnTypes, Modes, States

LEMMA Connections == Conns \subseteq Nat /\ NoConn \notin Conns /\ Conns \subseteq Tasks
  BY BoundsAssumption DEF Conns, NoConn, Tasks, Reconnects

(* A dial is no reconnection and no connect of the application. *)
LEMMA TasksApart ==
  /\ \A d \in Dials : d \in Tasks /\ d \notin Conns /\ d \notin Connects
  /\ \A t \in Connects : t \in Tasks /\ t \notin Conns
  BY TasksAssumption DEF Tasks

LEMMA SomeAttempts == \A t \in Tasks : NumOfAttempts(t) \in 1 .. MaxAttempts
  BY BoundsAssumption DEF NumOfAttempts

(* The steps of IInv are proved from its parts. *)
LEMMA InvParts ==
  IInv <=> /\ OptionTypes /\ FlagTypes /\ TaskTypes /\ HeldTypes /\ ConnTypes
           /\ Connecting /\ Holding /\ Making /\ Attempting
  BY TypeParts DEF IInv

LEMMA InvPartsNext ==
  IInv' <=> /\ OptionTypes' /\ FlagTypes' /\ TaskTypes' /\ HeldTypes' /\ ConnTypes'
            /\ Connecting' /\ Holding' /\ Making' /\ Attempting'
  BY TypePartsNext DEF IInv

LEMMA InitIInv == Init => IInv
<1> SUFFICES ASSUME Init PROVE IInv
  OBVIOUS
<1> USE DEF Init
<1>1. OptionTypes
  BY DEF OptionTypes, Modes
<1>2. FlagTypes /\ HeldTypes
  BY DEF FlagTypes, HeldTypes
<1>3. TaskTypes
  BY BoundsAssumption DEF TaskTypes, States, Modes
<1>4. ConnTypes
  BY DEF ConnTypes, Modes
<1>5. Connecting
  BY DEF Connecting, SingleConnect, Owners, NobodyWaitsForNothing, ReconnectingHasTask
<1>6. Holding
  BY DEF Holding, NoLeakedConnection, ClosedHoldsNothing, HeldIsWatched, DialingHoldsNothing
<1>7. Making
  BY DEF Making, HeldIsMade, CloseFollows, HeartbeatsAreDirect, VerifiedIsNew, Verifying
<1>8. Attempting
  <2>1. AttemptsLeft
    BY SomeAttempts DEF AttemptsLeft
  <2>2. AttemptsAreWanted
    BY TasksApart DEF AttemptsAreWanted
  <2>3. ReportedOnce
    BY Connections DEF ReportedOnce
  <2> QED
    BY <2>1, <2>2, <2>3 DEF Attempting
<1> QED
  BY <1>1, <1>2, <1>3, <1>4, <1>5, <1>6, <1>7, <1>8, InvParts

-----------------------------------------------------------------------------
(* A task goes on that does not connect: it is the only one that moves, and *)
(* it ends no reconnection that isReconnecting speaks of.                   *)
LEMMA QuietStep ==
  ASSUME IInv, NEW t \in Tasks, NEW s \in {"attempt", "error", "sleeping"} \union Settled,
         task[t] \in {"attempt", "sleeping", "error"},
         task' = [task EXCEPT ![t] = s],
         OptionTypes', FlagTypes',
         attempts' \in [Tasks -> 0 .. MaxAttempts],
         \A u \in Tasks : task'[u] \notin Settled /\ ~Unlimited(u) => attempts'[u] < NumOfAttempts(u),
         AttemptsAreWanted',
         isReconnecting' => isReconnecting /\ (t \in Reconnects => s \notin Settled),
         UNCHANGED <<connecting, via, closed, heldVars, connVars, userVars>>
  PROVE  IInv'
<1> USE InvParts DEF heldVars, connVars, userVars
<1>1. TaskTypes'
  BY DEF TaskTypes, States, Settled
<1>2. HeldTypes' /\ ConnTypes'
  BY DEF HeldTypes, ConnTypes
<1>3. /\ \A u \in Tasks : task'[u] = IF u = t THEN s ELSE task[u]
      /\ Owners' = Owners
  BY DEF TaskTypes, Owners, Settled
<1>4. Connecting'
  <2>1. SingleConnect'
    BY <1>3 DEF Connecting, SingleConnect
  <2>2. NobodyWaitsForNothing'
    BY <1>3 DEF Connecting, NobodyWaitsForNothing, Settled
  <2>3. ReconnectingHasTask'
    BY <1>3, Connections DEF Connecting, ReconnectingHasTask, Reconnects, Active, Settled
  <2> QED
    BY <2>1, <2>2, <2>3 DEF Connecting
<1>5. Holding'
  BY DEF Holding, NoLeakedConnection, ClosedHoldsNothing, HeldIsWatched, DialingHoldsNothing
<1>6. Verifying' <=> Verifying
  BY <1>3 DEF Verifying, Settled
<1>7. Making'
  BY <1>6 DEF Making, HeldIsMade, CloseFollows, HeartbeatsAreDirect, VerifiedIsNew
<1>8. Attempting'
  <2>1. AttemptsLeft'
    BY DEF Attempting, AttemptsLeft
  <2>2. ReportedOnce'
    BY <1>3, <1>6, Connections DEF Attempting, ReportedOnce
  <2> QED
    BY <2>1, <2>2 DEF Attempting
<1> QED
  BY <1>1, <1>2, <1>4, <1>5, <1>7, <1>8, InvPartsNext

(* connect up to its first await, whoever calls it. *)
LEMMA ConnectStep ==
  ASSUME IInv, NEW t \in Tasks, NEW mode \in Modes,
         task[t] \in {"idle", "attempt", "sleeping"}, t \in Conns => task[t] # "idle",
         Connect(t, mode), OptionTypes', UNCHANGED <<attempts, userAbort, userVars>>
  PROVE  IInv'
<1> USE InvParts DEF Connect, MustWait, userVars
<1> DEFINE s == IF connecting THEN "waiting" ELSE "dialing"
<1>1. TaskTypes' /\ FlagTypes'
  BY DEF TaskTypes, FlagTypes, States, Modes
<1>2. HeldTypes'
  BY DEF HeldTypes
<1>3. ConnTypes'
  BY DEF ConnTypes, HeldTypes, CloseHeld
<1>4. /\ \A u \in Tasks : task'[u] = IF u = t THEN s ELSE task[u]
      /\ Verifying' <=> Verifying
  BY DEF TaskTypes, Verifying
<1>5. Connecting'
  <2>1. CASE connecting
    <3>1. Owners' = Owners
      BY <1>4, <2>1 DEF Owners
    <3>2. ReconnectingHasTask'
      BY <1>4, Connections DEF Connecting, ReconnectingHasTask, Active, Reconnects
    <3> QED
      BY <2>1, <3>1, <3>2 DEF Connecting, SingleConnect, NobodyWaitsForNothing
  <2>2. CASE ~connecting
    <3>1. Owners' = {t}
      BY <1>4, <2>2 DEF Owners, Connecting, SingleConnect
    <3>2. ReconnectingHasTask'
      BY <1>4, Connections DEF Connecting, ReconnectingHasTask, Active, Reconnects
    <3> QED
      BY <2>2, <3>1, <3>2 DEF Connecting, SingleConnect, NobodyWaitsForNothing
  <2> QED
    BY <2>1, <2>2
<1>6. Holding'
  BY DEF Holding, NoLeakedConnection, ClosedHoldsNothing, HeldIsWatched, DialingHoldsNothing,
         CloseHeld, ConnTypes, HeldTypes
<1>7. Making'
  BY <1>4 DEF Making, HeldIsMade, CloseFollows, HeartbeatsAreDirect, VerifiedIsNew, CloseHeld,
              ConnTypes, HeldTypes
<1>8. Attempting'
  <2>1. AttemptsLeft'
    BY <1>4 DEF Attempting, AttemptsLeft, Settled
  <2>2. AttemptsAreWanted'
    BY <1>4, TasksApart DEF Attempting, AttemptsAreWanted
  <2>3. ReportedOnce'
    BY <1>4, Connections DEF Attempting, ReportedOnce, CloseHeld, ConnTypes, HeldTypes, Making,
                             HeldIsMade
  <2> QED
    BY <2>1, <2>2, <2>3 DEF Attempting
<1> QED
  BY <1>1, <1>2, <1>3, <1>5, <1>6, <1>7, <1>8, InvPartsNext

(* The end of a connect, as far as the tasks go: its owner leaves, all who  *)
(* waited go with it, and connecting is free.                               *)
LEMMA EndTasks ==
  ASSUME IInv, NEW t \in Tasks, NEW done, NEW outcome \in {"ok", "error"},
         task[t] \in {"dialing", "verifying"},
         done = Waiters \union (IF outcome = "ok" THEN {t} ELSE {}),
         Return(done, t, outcome), waitingDisconnects' = 0,
         UNCHANGED <<attempts, via, userAbort, disconnects>>
  PROVE  /\ TaskTypes' /\ Connecting' /\ AttemptsLeft' /\ AttemptsAreWanted' /\ ~Verifying'
         /\ \A c \in Conns : task'[c] # "idle" => task[c] # "idle"
         /\ isReconnecting' \in BOOLEAN
         /\ connecting /\ connecting' = FALSE
         /\ dialing' \in {dialing, None}
<1> USE InvParts DEF Return, StillReconnecting, Waiters
<1>1. \A u \in Tasks : task'[u] = IF u = t THEN outcome ELSE IF u \in done THEN "ok" ELSE task[u]
  OBVIOUS
<1>2. TaskTypes'
  BY BoundsAssumption DEF TaskTypes, States
<1>3. connecting /\ Owners = {t}
  BY DEF Connecting, SingleConnect, Owners
<1>4. Owners' = {} /\ ~Verifying'
  BY <1>1, <1>3 DEF Owners, Verifying
<1>5. SingleConnect' /\ NobodyWaitsForNothing'
  BY <1>1, <1>4 DEF SingleConnect, NobodyWaitsForNothing
<1>6. ReconnectingHasTask'
  BY <1>1, Connections DEF Connecting, ReconnectingHasTask, Reconnects, Active
<1>7. AttemptsLeft'
  BY <1>1, BoundsAssumption DEF Attempting, AttemptsLeft, Settled, TaskTypes
<1>8. AttemptsAreWanted'
  BY <1>1, TasksApart DEF Attempting, AttemptsAreWanted
<1>9. \A c \in Conns : task'[c] # "idle" => task[c] # "idle"
  BY <1>1, Connections
<1>10. isReconnecting' \in BOOLEAN
  BY DEF FlagTypes
<1> QED
  BY <1>2, <1>3, <1>4, <1>5, <1>6, <1>7, <1>8, <1>9, <1>10 DEF Connecting

(* onDisconnect, as far as the tasks go, for a loss not reported before. *)
LEMMA LossTasks ==
  ASSUME IInv, NEW c \in Conns, task[c] = "idle", OnDisconnect(c),
         UNCHANGED <<attempts, userAbort, connecting, via, closed, disconnects,
                     waitingDisconnects>>
  PROVE  /\ TaskTypes' /\ FlagTypes' /\ Connecting' /\ AttemptsLeft' /\ AttemptsAreWanted'
         /\ Verifying' <=> Verifying
         /\ \A u \in Tasks : u # c => task'[u] = task[u]
         /\ event' \in {"disconnected", "reconnecting"}
<1> USE InvParts, Connections DEF OnDisconnect
<1>1. /\ \A u \in Tasks : u # c => task'[u] = task[u]
      /\ task'[c] \in {"idle", "attempt"}
  BY DEF TaskTypes
<1>2. TaskTypes' /\ FlagTypes'
  BY DEF TaskTypes, FlagTypes, States
<1>3. Owners' = Owners /\ (Verifying' <=> Verifying)
  BY <1>1 DEF Owners, Verifying
<1>4. SingleConnect' /\ NobodyWaitsForNothing'
  BY <1>1, <1>3 DEF Connecting, SingleConnect, NobodyWaitsForNothing
<1>5. ReconnectingHasTask'
  BY <1>1 DEF Connecting, ReconnectingHasTask, Reconnects, Active, TaskTypes
<1>6. AttemptsLeft'
  BY <1>1 DEF Attempting, AttemptsLeft, Settled
<1>7. AttemptsAreWanted'
  BY <1>1, TasksApart DEF Attempting, AttemptsAreWanted
<1>8. event' \in {"disconnected", "reconnecting"}
  OBVIOUS
<1> QED
  BY <1>1, <1>2, <1>3, <1>4, <1>5, <1>6, <1>7, <1>8 DEF Connecting

-----------------------------------------------------------------------------
(* The application's calls. *)
LEMMA DialCall == ASSUME IInv, NEW d \in Dials, Dial(d) \/ UserAbort(d) PROVE IInv'
<1> USE InvParts, TasksApart DEF flagVars, heldVars, connVars, userVars, optionVars, taskVars
<1>1. CASE Dial(d)
  <2> DEFINE s == IF userAbort[d] THEN "aborted" ELSE "attempt"
  <2>1. /\ \A u \in Tasks : task'[u] = IF u = d THEN s ELSE task[u]
        /\ task[d] = "idle"
    BY <1>1 DEF Dial, TaskTypes
  <2>2. OptionTypes'
    BY <1>1 DEF Dial, OptionTypes
  <2>3. TaskTypes' /\ FlagTypes' /\ HeldTypes' /\ ConnTypes'
    BY <1>1 DEF Dial, TaskTypes, FlagTypes, HeldTypes, ConnTypes, States
  <2>4. Owners' = Owners /\ (Verifying' <=> Verifying)
    BY <2>1 DEF Owners, Verifying
  <2>5. Connecting'
    BY <1>1, <2>1, <2>4, Connections DEF Dial, Connecting, SingleConnect,
       NobodyWaitsForNothing, ReconnectingHasTask, Reconnects, Active
  <2>6. Holding'
    BY <1>1 DEF Dial, Holding, NoLeakedConnection, ClosedHoldsNothing, HeldIsWatched,
                DialingHoldsNothing
  <2>7. Making'
    BY <1>1, <2>4 DEF Dial, Making, HeldIsMade, CloseFollows, HeartbeatsAreDirect, VerifiedIsNew
  <2>8. AttemptsLeft'
    BY <1>1, <2>1 DEF Dial, Attempting, AttemptsLeft, Settled
  <2>9. AttemptsAreWanted'
    BY <1>1, <2>1 DEF Dial, Attempting, AttemptsAreWanted
  <2>10. ReportedOnce'
    BY <1>1, <2>1, <2>4, Connections DEF Dial, Attempting, ReportedOnce
  <2> QED
    BY <2>2, <2>3, <2>5, <2>6, <2>7, <2>8, <2>9, <2>10, InvPartsNext DEF Attempting
<1>2. CASE UserAbort(d)
  <2> USE <1>2 DEF UserAbort
  <2>1. OptionTypes' /\ FlagTypes' /\ TaskTypes' /\ HeldTypes' /\ ConnTypes'
    BY DEF OptionTypes, FlagTypes, TaskTypes, HeldTypes, ConnTypes
  <2>2. Connecting'
    BY DEF Connecting, SingleConnect, Owners, NobodyWaitsForNothing, ReconnectingHasTask, Active
  <2>3. Holding' /\ Making'
    BY DEF Holding, NoLeakedConnection, ClosedHoldsNothing, HeldIsWatched, DialingHoldsNothing,
           Making, HeldIsMade, CloseFollows, HeartbeatsAreDirect, VerifiedIsNew, Verifying
  <2>4. AttemptsLeft' /\ ReportedOnce'
    BY DEF Attempting, AttemptsLeft, ReportedOnce, Verifying
  <2>5. AttemptsAreWanted'
    BY DEF AttemptsAreWanted, Macrotask, Microtasks
  <2> QED
    BY <2>1, <2>2, <2>3, <2>4, <2>5, InvPartsNext DEF Attempting
<1> QED
  BY <1>1, <1>2

LEMMA ConnectCall == ASSUME IInv, NEW t \in Connects, UserConnect(t) PROVE IInv'
<1> USE InvParts, TasksApart DEF UserConnect, userVars, dialVars, optionVars
<1>1. PICK mode \in Modes : Connect(t, mode)
  BY DEF Modes
<1>2. OptionTypes'
  BY DEF OptionTypes, Connect
<1> QED
  BY <1>1, <1>2, ConnectStep

LEMMA DisconnectCall == ASSUME IInv, Disconnect PROVE IInv'
<1> USE InvParts DEF Disconnect, DisconnectWaits, Teardown, taskVars, optionVars
<1>1. OptionTypes'
  BY DEF OptionTypes
<1>2. TaskTypes' /\ FlagTypes'
  <2>1. waitingDisconnects' \in 0 .. MaxDisconnects /\ disconnects' \in 0 .. MaxDisconnects
    BY BoundsAssumption DEF TaskTypes, Attempting, AttemptsLeft
  <2> QED
    BY <2>1 DEF TaskTypes, FlagTypes
<1>3. HeldTypes'
  BY DEF HeldTypes, Cleaned, Forgotten
<1>4. ConnTypes'
  BY DEF ConnTypes, HeldTypes, CloseHeld
<1>5. Connecting'
  BY DEF Connecting, SingleConnect, Owners, NobodyWaitsForNothing, ReconnectingHasTask, Active
<1>6. Holding'
  BY DEF Holding, NoLeakedConnection, ClosedHoldsNothing, HeldIsWatched, DialingHoldsNothing,
         CloseHeld, ConnTypes, HeldTypes
<1>7. Making'
  BY DEF Making, HeldIsMade, CloseFollows, HeartbeatsAreDirect, VerifiedIsNew, Verifying,
         CloseHeld, ConnTypes, HeldTypes
<1>8. AttemptsLeft' /\ AttemptsAreWanted'
  BY BoundsAssumption DEF Attempting, AttemptsLeft, AttemptsAreWanted, TaskTypes
<1>9. ReportedOnce'
  BY DEF Attempting, ReportedOnce, Verifying, CloseHeld, ConnTypes, HeldTypes
<1> QED
  BY <1>1, <1>2, <1>3, <1>4, <1>5, <1>6, <1>7, <1>8, <1>9, InvPartsNext DEF Attempting

-----------------------------------------------------------------------------
(* The attempts of a backoff, and what follows an attempt that failed. *)
LEMMA AttemptSteps ==
  ASSUME IInv, NEW d \in Dials, AttemptAborted(d) \/ AttemptRefused(d) \/ AttemptDial(d)
  PROVE  IInv'
<1> USE InvParts, TasksApart
<1>1. CASE AttemptAborted(d) \/ AttemptRefused(d)
  <2> USE <1>1 DEF AttemptAborted, AttemptRefused, AttemptFails, Due, dialVars, optionVars,
               flagVars
  <2>1. task' = [task EXCEPT ![d] = "error"] /\ task[d] \in {"attempt", "sleeping"}
    OBVIOUS
  <2>2. OptionTypes' /\ FlagTypes'
    BY DEF OptionTypes, FlagTypes
  <2>3. attempts' = attempts /\ attempts \in [Tasks -> 0 .. MaxAttempts]
    BY DEF TaskTypes
  <2>4. \A u \in Tasks : task'[u] \notin Settled /\ ~Unlimited(u) => attempts'[u] < NumOfAttempts(u)
    BY <2>1, <2>3 DEF Attempting, AttemptsLeft, Settled, TaskTypes
  <2>5. AttemptsAreWanted'
    BY <2>1 DEF Attempting, AttemptsAreWanted, TaskTypes
  <2>6. UNCHANGED <<connecting, via, closed, isReconnecting, heldVars, connVars, userVars>>
    OBVIOUS
  <2> QED
    BY <2>1, <2>2, <2>3, <2>4, <2>5, <2>6, Connections, QuietStep DEF Reconnects
<1>2. CASE AttemptDial(d)
  <2> USE <1>2 DEF AttemptDial, Due, dialVars
  <2>1. Connect(d, phase[d]) /\ phase[d] \in Modes /\ task[d] \in {"attempt", "sleeping"}
    BY DEF OptionTypes
  <2>2. OptionTypes'
    BY DialsAssumption DEF OptionTypes, Connect
  <2> QED
    BY <2>1, <2>2, ConnectStep
<1> QED
  BY <1>1, <1>2

LEMMA ReconnectAttempt == ASSUME IInv, NEW r \in Reconnects, AttemptReconnect(r) PROVE IInv'
<1> USE InvParts, Connections DEF AttemptReconnect, Due, dialVars, optionVars
<1>1. PICK mode \in Modes : Connect(r, mode)
  BY DEF Modes
<1>2. OptionTypes'
  BY DEF OptionTypes, Connect
<1> QED
  BY <1>1, <1>2, ConnectStep DEF Reconnects

LEMMA AfterError ==
  ASSUME IInv, NEW t \in Tasks,
         Retry(t) \/ ReconnectionFailed(t) \/ UserConnectFails(t) \/ DialAborted(t) \/ DialFailed(t)
  PROVE  IInv'
<1> USE InvParts, TasksApart DEF MayRetry
<1>1. /\ task[t] = "error"
      /\ attempts' = [attempts EXCEPT ![t] = IF @ = MaxAttempts THEN @ ELSE @ + 1]
      /\ UNCHANGED <<connecting, via, closed, heldVars, connVars, userVars>>
  BY DEF Retry, ReconnectionFailed, UserConnectFails, DialAborted, DialFailed, flagVars
<1>2. attempts' \in [Tasks -> 0 .. MaxAttempts]
  BY <1>1, BoundsAssumption DEF TaskTypes
<1>3. PICK s \in {"sleeping"} \union Settled : task' = [task EXCEPT ![t] = s]
  BY DEF Retry, ReconnectionFailed, UserConnectFails, DialAborted, DialFailed, Settled
<1>4. OptionTypes'
  BY DEF Retry, ReconnectionFailed, UserConnectFails, DialAborted, DialFailed, Forget,
         OptionTypes, dialVars, optionVars
<1>5. FlagTypes' /\ (isReconnecting' => isReconnecting /\ (t \in Reconnects => s \notin Settled))
  <2>1. s = task'[t]
    BY <1>3 DEF TaskTypes
  <2>2. t \in Reconnects => (Retry(t) /\ task'[t] = "sleeping") \/ ~isReconnecting'
    BY DEF Retry, ReconnectionFailed, UserConnectFails, DialAborted, DialFailed, Reconnects,
           TaskTypes
  <2>3. isReconnecting' = isReconnecting \/ isReconnecting' = FALSE
    BY DEF Retry, ReconnectionFailed, UserConnectFails, DialAborted, DialFailed, flagVars
  <2>4. FlagTypes'
    BY <1>1, <2>3 DEF FlagTypes
  <2> QED
    BY <2>1, <2>2, <2>3, <2>4 DEF Settled
<1>6. \A u \in Tasks : task'[u] \notin Settled /\ ~Unlimited(u) => attempts'[u] < NumOfAttempts(u)
  <2> NumOfAttempts(t) \in 1 .. MaxAttempts /\ attempts[t] \in 0 .. MaxAttempts
    BY SomeAttempts DEF TaskTypes
  <2>1. task'[t] = "sleeping" /\ ~Unlimited(t) => attempts[t] + 1 < NumOfAttempts(t)
    <3>1. task'[t] = "sleeping" => Retry(t)
      BY DEF Retry, ReconnectionFailed, UserConnectFails, DialAborted, DialFailed, TaskTypes
    <3> QED
      BY <3>1, BoundsAssumption DEF Retry, AttemptsOut
  <2>2. \A u \in Tasks : u # t => task'[u] = task[u] /\ attempts'[u] = attempts[u]
    BY <1>1, <1>3 DEF TaskTypes
  <2>3. /\ task'[t] \in {"sleeping"} \union Settled
        /\ ~Unlimited(t) => attempts'[t] = attempts[t] + 1
    <3>1. ~Unlimited(t) => attempts[t] < NumOfAttempts(t)
      BY <1>1 DEF Attempting, AttemptsLeft, Settled
    <3> QED
      BY <1>1, <1>3, <3>1, BoundsAssumption DEF TaskTypes
  <2> QED
    BY <2>1, <2>2, <2>3 DEF Attempting, AttemptsLeft, Settled
<1>7. AttemptsAreWanted'
  BY <1>3 DEF Retry, ReconnectionFailed, UserConnectFails, DialAborted, DialFailed, Attempting,
         AttemptsAreWanted, Settled, TaskTypes, dialVars
<1> QED
  BY <1>1, <1>2, <1>3, <1>4, <1>5, <1>6, <1>7, QuietStep

LEMMA FallBackStep == ASSUME IInv, NEW d \in Dials, FallBack(d) PROVE IInv'
<1> USE InvParts, TasksApart DEF FallBack, Aborted, Forget, optionVars, flagVars
<1> DEFINE s == IF abort[d] \/ userAbort[d] THEN "aborted" ELSE "attempt"
<1>1. task' = [task EXCEPT ![d] = s] /\ task[d] = "error"
  OBVIOUS
<1>2. OptionTypes' /\ FlagTypes'
  BY DEF OptionTypes, FlagTypes, Modes
<1>3. attempts' \in [Tasks -> 0 .. MaxAttempts]
  BY BoundsAssumption DEF TaskTypes
<1>4. \A u \in Tasks : task'[u] \notin Settled /\ ~Unlimited(u) => attempts'[u] < NumOfAttempts(u)
  BY <1>1, SomeAttempts DEF Attempting, AttemptsLeft, Settled, TaskTypes
<1>5. AttemptsAreWanted'
  BY <1>1 DEF Attempting, AttemptsAreWanted, TaskTypes
<1> QED
  BY <1>1, <1>2, <1>3, <1>4, <1>5, Connections, QuietStep DEF Reconnects, Settled

-----------------------------------------------------------------------------
(* A connect that is going on: nothing is held, and no disconnect is done. *)
LEMMA WhileDialing ==
  ASSUME IInv, NEW t \in Tasks, task[t] \in {"dialing", "verifying"}
  PROVE  /\ connecting /\ current = NoConn
         /\ closed \in BOOLEAN /\ ~closed
         /\ \A c \in Conns : ~(kind[c] = "webrtc" /\ conn[c] = "open")
<1> USE InvParts
<1>1. connecting
  BY DEF Connecting, SingleConnect, Owners
<1>2. current = NoConn
  BY <1>1 DEF Holding, DialingHoldsNothing
<1>3. closed \in BOOLEAN /\ ~closed
  BY <1>1 DEF Holding, ClosedHoldsNothing, FlagTypes
<1> QED
  BY <1>1, <1>2, <1>3, Connections DEF Holding, NoLeakedConnection

LEMMA ConnectedWebRTCStep == ASSUME IInv, NEW t \in Tasks, ConnectedWebRTC(t) PROVE IInv'
<1> USE InvParts DEF ConnectedWebRTC, optionVars
<1>1. PICK c \in NewConn, over \in BOOLEAN :
        /\ kind' = [kind EXCEPT ![c] = "webrtc"]
        /\ transport' = c
        /\ Finish(c, c, Attached(c), [conn EXCEPT ![c] = IF over THEN "lost" ELSE "open"],
                  [closeEvent EXCEPT ![c] = IF over THEN "missed" ELSE "none"], "connected")
  OBVIOUS
<1>2. c \in Conns /\ conn[c] = "none" /\ task[c] = "idle" /\ c \notin heartbeats
  BY <1>1 DEF NewConn, Attempting, ReportedOnce, Making, HeartbeatsAreDirect
<1>3. /\ connecting /\ current = NoConn
      /\ closed \in BOOLEAN /\ ~closed
      /\ \A b \in Conns : ~(kind[b] = "webrtc" /\ conn[b] = "open")
  BY WhileDialing
<1> DEFINE k == [kind EXCEPT ![c] = "webrtc"]
           cs == [conn EXCEPT ![c] = IF over THEN "lost" ELSE "open"]
           ce == [closeEvent EXCEPT ![c] = IF over THEN "missed" ELSE "none"]
<1>4. waitingDisconnects' = 0
  BY <1>1 DEF Finish
<1>5. /\ TaskTypes' /\ Connecting' /\ AttemptsLeft' /\ AttemptsAreWanted' /\ ~Verifying'
      /\ \A b \in Conns : task'[b] # "idle" => task[b] # "idle"
      /\ isReconnecting' \in BOOLEAN /\ connecting' = FALSE
      /\ dialing' \in {dialing, None}
  BY <1>4, EndTasks
<1>6. /\ k \in [Conns -> Modes] /\ kind' = k
      /\ cs \in [Conns -> {"none", "open", "lost", "closed"}]
      /\ ce \in [Conns -> {"none", "due", "delivered", "missed"}]
      /\ kind'[c] = "webrtc" /\ cs[c] # "none"
      /\ \A b \in Conns : kind'[b] = "webrtc" /\ cs[b] = "open" => b = c
      /\ \A b \in Conns : /\ ce[b] # "none" => kind'[b] = "webrtc"
                          /\ cs[b] \in {"none", "open"} => ce[b] = "none"
  BY <1>1, <1>2, <1>3 DEF ConnTypes, Modes, Making, CloseFollows
<1>7. Attached(c) \in SUBSET Conns /\ c \in Attached(c)
  BY <1>2 DEF Attached, Cleaned, HeldTypes
<1>8. /\ Holding' /\ HeldIsMade' /\ CloseFollows'
      /\ current' \in Conns \union {NoConn} /\ handler' \in Conns \union {NoConn}
      /\ listening' \subseteq Conns
      /\ conn' \in [Conns -> {"none", "open", "lost", "closed"}]
      /\ closeEvent' \in [Conns -> {"none", "due", "delivered", "missed"}]
      /\ closed' \in BOOLEAN
      /\ \A b \in Conns : cs[b] # "none" => conn'[b] # "none"
      /\ \A b \in Conns : ce[b] = "delivered" => closeEvent'[b] = "delivered"
      /\ event' \in {"connected", "disconnected"}
  <2>1. CASE waitingDisconnects = 0
    BY <1>1, <1>2, <1>3, <1>5, <1>6, <1>7, <2>1 DEF Finish, Holding, NoLeakedConnection, ClosedHoldsNothing, HeldIsWatched,
        DialingHoldsNothing, HeldIsMade, CloseFollows
  <2>2. CASE waitingDisconnects # 0
    BY <1>1, <1>2, <1>3, <1>5, <1>6, <1>7, <2>2, Connections DEF Finish, Holding, NoLeakedConnection, ClosedHoldsNothing, HeldIsWatched,
        DialingHoldsNothing, HeldIsMade, CloseFollows
  <2> QED
    BY <2>1, <2>2
<1>9. OptionTypes'
  BY <1>5, <1>8 DEF OptionTypes
<1>10. FlagTypes'
  BY <1>5, <1>8 DEF FlagTypes
<1>11. HeldTypes'
  BY <1>1, <1>2, <1>8 DEF HeldTypes
<1>12. ConnTypes'
  BY <1>6, <1>8 DEF ConnTypes
<1>13. HeartbeatsAreDirect' /\ VerifiedIsNew'
  BY <1>2, <1>5, <1>6, <1>8 DEF Making, HeartbeatsAreDirect, VerifiedIsNew, ConnTypes
<1>14. ReportedOnce'
  BY <1>2, <1>5, <1>6, <1>8 DEF Attempting, ReportedOnce, ConnTypes
<1> QED
  BY <1>5, <1>8, <1>9, <1>10, <1>11, <1>12, <1>13, <1>14, InvPartsNext DEF Making, Attempting

(* The end of a connect that made no WebRTC connection. *)
LEMMA EndWithoutWebRTC ==
  ASSUME IInv, NEW t \in Tasks, NEW e, NEW outcome \in {"ok", "error"},
         task[t] \in {"dialing", "verifying"},
         Return(Waiters \union (IF outcome = "ok" THEN {t} ELSE {}), t, outcome),
         Finish(current, handler, listening, conn, closeEvent, e),
         e \in {event, "connected", "disconnected"},
         error' \in [Tasks -> {"none", "retryable", "fatal", "aborted"}],
         heartbeats' \subseteq Conns,
         \A c \in heartbeats' : kind[c] = "direct" /\ conn[c] # "none" /\ task[c] = "idle",
         UNCHANGED <<phase, attempts, abort, userAbort, optionVars, via, transport, kind,
                     disconnects>>
  PROVE  IInv'
<1> USE InvParts DEF optionVars
<1>1. /\ connecting /\ current = NoConn
      /\ closed \in BOOLEAN /\ ~closed
      /\ \A b \in Conns : ~(kind[b] = "webrtc" /\ conn[b] = "open")
  BY WhileDialing
<1>2. waitingDisconnects' = 0
  BY DEF Finish
<1>3. /\ TaskTypes' /\ Connecting' /\ AttemptsLeft' /\ AttemptsAreWanted' /\ ~Verifying'
      /\ \A b \in Conns : task'[b] # "idle" => task[b] # "idle"
      /\ isReconnecting' \in BOOLEAN /\ connecting' = FALSE
      /\ dialing' \in {dialing, None}
  BY <1>2, EndTasks
<1>4. /\ kind \in [Conns -> Modes] /\ handler \in Conns \union {NoConn}
      /\ listening \in SUBSET Conns
      /\ conn \in [Conns -> {"none", "open", "lost", "closed"}]
      /\ closeEvent \in [Conns -> {"none", "due", "delivered", "missed"}]
      /\ \A b \in Conns : /\ closeEvent[b] # "none" => kind[b] = "webrtc"
                          /\ conn[b] \in {"none", "open"} => closeEvent[b] = "none"
  BY DEF ConnTypes, HeldTypes, Making, CloseFollows
<1>5. /\ Holding' /\ HeldIsMade' /\ CloseFollows'
      /\ current' \in Conns \union {NoConn} /\ handler' \in Conns \union {NoConn}
      /\ listening' \subseteq Conns
      /\ conn' \in [Conns -> {"none", "open", "lost", "closed"}]
      /\ closeEvent' \in [Conns -> {"none", "due", "delivered", "missed"}]
      /\ closed' \in BOOLEAN
      /\ \A b \in Conns : conn[b] # "none" => conn'[b] # "none"
      /\ \A b \in Conns : closeEvent[b] = "delivered" => closeEvent'[b] = "delivered"
      /\ event' \in {e, "disconnected"}
  <2>1. CASE waitingDisconnects = 0
    BY <1>1, <1>3, <1>4, <2>1 DEF Finish, Holding, NoLeakedConnection, ClosedHoldsNothing, HeldIsWatched,
        DialingHoldsNothing, HeldIsMade, CloseFollows
  <2>2. CASE waitingDisconnects # 0
    BY <1>1, <1>3, <1>4, <2>2, Connections DEF Finish, Holding, NoLeakedConnection, ClosedHoldsNothing, HeldIsWatched,
        DialingHoldsNothing, HeldIsMade, CloseFollows
  <2> QED
    BY <2>1, <2>2
<1>6. OptionTypes'
  BY <1>3, <1>5 DEF OptionTypes
<1>7. FlagTypes'
  BY <1>3, <1>5 DEF FlagTypes
<1>8. HeldTypes' /\ ConnTypes'
  BY <1>4, <1>5 DEF HeldTypes, ConnTypes
<1>9. HeartbeatsAreDirect' /\ VerifiedIsNew'
  BY <1>3, <1>5 DEF HeartbeatsAreDirect, VerifiedIsNew
<1>10. ReportedOnce'
  BY <1>3, <1>5 DEF Attempting, ReportedOnce
<1> QED
  BY <1>3, <1>5, <1>6, <1>7, <1>8, <1>9, <1>10, InvPartsNext DEF Making, Attempting

LEMMA ConnectEnds ==
  ASSUME IInv, NEW t \in Tasks, ConnectedDirect(t) \/ ConnectFails(t)
  PROVE  IInv'
<1> USE InvParts
<1>1. \A c \in heartbeats : kind[c] = "direct" /\ conn[c] # "none" /\ task[c] = "idle"
  BY DEF Making, HeartbeatsAreDirect, Attempting, ReportedOnce, ConnTypes
<1>2. CASE ConnectedDirect(t)
  <2> USE <1>2 DEF ConnectedDirect
  <2>1. Verifying
    BY DEF Verifying
  <2>2. /\ transport \in Conns /\ kind[transport] = "direct" /\ conn[transport] # "none"
        /\ task[transport] = "idle"
    BY <2>1 DEF Making, VerifiedIsNew, Attempting, ReportedOnce
  <2>3. heartbeats' \subseteq Conns
    BY <2>2 DEF ConnTypes
  <2>4. error' \in [Tasks -> {"none", "retryable", "fatal", "aborted"}]
    BY DEF OptionTypes
  <2> QED
    BY <1>1, <2>2, <2>3, <2>4, EndWithoutWebRTC
<1>3. CASE ConnectFails(t)
  <2> USE <1>3 DEF ConnectFails
  <2>1. error' \in [Tasks -> {"none", "retryable", "fatal", "aborted"}]
    BY DEF OptionTypes
  <2>2. heartbeats' \subseteq Conns
    BY DEF ConnTypes
  <2>3. Return(Waiters \union {}, t, "error")
    BY DEF Return, StillReconnecting
  <2> QED
    BY <1>1, <2>1, <2>2, <2>3, EndWithoutWebRTC
<1> QED
  BY <1>2, <1>3

LEMMA DialedDirectStep == ASSUME IInv, NEW t \in Tasks, DialedDirect(t) PROVE IInv'
<1> USE InvParts DEF DialedDirect, dialVars, optionVars, flagVars, userVars
<1>1. PICK c \in NewConn :
        /\ kind' = [kind EXCEPT ![c] = "direct"]
        /\ conn' = [conn EXCEPT ![c] = "open"]
        /\ transport' = c
  OBVIOUS
<1>2. /\ c \in Conns /\ conn[c] = "none" /\ task[c] = "idle" /\ c \notin heartbeats
      /\ closeEvent[c] = "none"
  BY <1>1 DEF NewConn, Attempting, ReportedOnce, Making, HeartbeatsAreDirect, CloseFollows
<1>3. current = NoConn /\ \A b \in Conns : ~(kind[b] = "webrtc" /\ conn[b] = "open")
  BY WhileDialing
<1>4. \A u \in Tasks : task'[u] = IF u = t THEN "verifying" ELSE task[u]
  BY DEF TaskTypes
<1>5. OptionTypes' /\ FlagTypes'
  BY DEF OptionTypes, FlagTypes
<1>6. TaskTypes' /\ HeldTypes' /\ ConnTypes'
  BY <1>1, <1>2 DEF TaskTypes, HeldTypes, ConnTypes, States, Modes
<1>7. Connecting'
  <2>1. Owners' = Owners
    BY <1>4 DEF Owners
  <2>2. ReconnectingHasTask'
    BY <1>4, Connections DEF Connecting, ReconnectingHasTask, Active, Reconnects
  <2> QED
    BY <1>4, <2>1, <2>2 DEF Connecting, SingleConnect, NobodyWaitsForNothing
<1>8. Holding'
  BY <1>1, <1>2, <1>3, Connections DEF Holding, NoLeakedConnection, ClosedHoldsNothing,
     HeldIsWatched, DialingHoldsNothing, ConnTypes
<1>9. Making'
  BY <1>1, <1>2, <1>3 DEF Making, HeldIsMade, CloseFollows, HeartbeatsAreDirect, VerifiedIsNew,
     ConnTypes
<1>10. AttemptsLeft' /\ AttemptsAreWanted'
  BY <1>4, TasksApart DEF Attempting, AttemptsLeft, AttemptsAreWanted, Settled
<1>11. ReportedOnce'
  BY <1>1, <1>2, <1>4, Connections DEF Attempting, ReportedOnce, ConnTypes
<1> QED
  BY <1>5, <1>6, <1>7, <1>8, <1>9, <1>10, <1>11, InvPartsNext DEF Attempting

-----------------------------------------------------------------------------
(* The ends of connections. *)
LEMMA LostStep == ASSUME IInv, NEW c \in Conns, ConnectionLost(c) PROVE IInv'
<1> USE InvParts DEF ConnectionLost, taskVars, dialVars, optionVars, flagVars, heldVars, userVars
<1>1. OptionTypes' /\ FlagTypes'
  BY DEF OptionTypes, FlagTypes
<1>2. TaskTypes' /\ HeldTypes' /\ ConnTypes'
  BY DEF TaskTypes, HeldTypes, ConnTypes
<1>3. Connecting'
  BY DEF Connecting, SingleConnect, Owners, NobodyWaitsForNothing, ReconnectingHasTask, Active
<1>4. Holding'
  BY DEF Holding, NoLeakedConnection, ClosedHoldsNothing, HeldIsWatched, DialingHoldsNothing,
         ConnTypes
<1>5. Making'
  BY DEF Making, HeldIsMade, CloseFollows, HeartbeatsAreDirect, VerifiedIsNew, Verifying,
         ConnTypes
<1>6. AttemptsLeft' /\ AttemptsAreWanted'
  BY DEF Attempting, AttemptsLeft, AttemptsAreWanted
<1>7. ReportedOnce'
  BY DEF Attempting, ReportedOnce, Verifying, ConnTypes, Making, CloseFollows
<1> QED
  BY <1>1, <1>2, <1>3, <1>4, <1>5, <1>6, <1>7, InvPartsNext DEF Attempting

LEMMA CloseStep == ASSUME IInv, NEW c \in Conns, OnDataChannelClose(c) PROVE IInv'
<1> USE InvParts, Connections
    DEF OnDataChannelClose, dialVars, optionVars, heldVars, userVars
<1>1. task[c] = "idle"
  BY DEF Attempting, ReportedOnce, Making, CloseFollows
<1>2. /\ TaskTypes' /\ FlagTypes' /\ Connecting' /\ AttemptsLeft' /\ AttemptsAreWanted'
      /\ Verifying' <=> Verifying
      /\ \A u \in Tasks : u # c => task'[u] = task[u]
      /\ event' \in {"disconnected", "reconnecting", event}
  <2>1. CASE c \in listening
    BY <1>1, <2>1, LossTasks
  <2>2. CASE c \notin listening
    <3>1. TaskTypes' /\ FlagTypes'
      BY <2>2 DEF TaskTypes, FlagTypes
    <3>2. Connecting'
      BY <2>2 DEF Connecting, SingleConnect, Owners, NobodyWaitsForNothing,
                  ReconnectingHasTask, Active
    <3>3. AttemptsLeft' /\ AttemptsAreWanted'
      BY <2>2 DEF Attempting, AttemptsLeft, AttemptsAreWanted
    <3> QED
      BY <2>2, <3>1, <3>2, <3>3 DEF Verifying
  <2> QED
    BY <2>1, <2>2
<1>3. OptionTypes'
  BY <1>2 DEF OptionTypes
<1>4. HeldTypes' /\ ConnTypes'
  BY DEF HeldTypes, ConnTypes
<1>5. Holding'
  BY DEF Holding, NoLeakedConnection, ClosedHoldsNothing, HeldIsWatched, DialingHoldsNothing
<1>6. Making'
  BY <1>2 DEF Making, HeldIsMade, CloseFollows, HeartbeatsAreDirect, VerifiedIsNew, ConnTypes
<1>7. ReportedOnce'
  <2>1. /\ conn[c] # "none" /\ kind[c] = "webrtc" /\ c \notin heartbeats
        /\ ~(Verifying /\ transport = c)
    BY DEF Making, CloseFollows, HeartbeatsAreDirect, VerifiedIsNew
  <2> QED
    BY <1>2, <2>1 DEF Attempting, ReportedOnce, ConnTypes
<1> QED
  BY <1>2, <1>3, <1>4, <1>5, <1>6, <1>7, InvPartsNext DEF Attempting

LEMMA HeartbeatStep == ASSUME IInv, NEW c \in Conns, HeartbeatFails(c) PROVE IInv'
<1> USE InvParts, Connections
    DEF HeartbeatFails, dialVars, optionVars, heldVars, userVars
<1>1. /\ task[c] = "idle" /\ conn[c] # "none" /\ kind[c] = "direct"
      /\ ~(Verifying /\ transport = c)
  BY DEF Attempting, ReportedOnce, Making, HeartbeatsAreDirect, VerifiedIsNew
<1>2. /\ TaskTypes' /\ FlagTypes' /\ Connecting' /\ AttemptsLeft' /\ AttemptsAreWanted'
      /\ Verifying' <=> Verifying
      /\ \A u \in Tasks : u # c => task'[u] = task[u]
      /\ event' \in {"disconnected", "reconnecting"}
  BY <1>1, LossTasks
<1>3. OptionTypes'
  BY <1>2 DEF OptionTypes
<1>4. HeldTypes' /\ ConnTypes'
  BY DEF HeldTypes, ConnTypes
<1>5. Holding'
  BY DEF Holding, NoLeakedConnection, ClosedHoldsNothing, HeldIsWatched, DialingHoldsNothing
<1>6. Making'
  BY <1>2 DEF Making, HeldIsMade, CloseFollows, HeartbeatsAreDirect, VerifiedIsNew
<1>7. ReportedOnce'
  BY <1>1, <1>2 DEF Attempting, ReportedOnce
<1> QED
  BY <1>2, <1>3, <1>4, <1>5, <1>6, <1>7, InvPartsNext DEF Attempting

-----------------------------------------------------------------------------
LEMMA Inductive == IInv /\ [Next]_vars => IInv'
<1> SUFFICES ASSUME IInv, [Next]_vars PROVE IInv'
  OBVIOUS
<1>1. CASE Application
  BY <1>1, DialCall, ConnectCall, DisconnectCall, DialsAssumption DEF Application
<1>2. ASSUME NEW t \in Tasks, TaskStep(t) PROVE IInv'
  <2>1. CASE Attempt(t)
    BY <2>1, AttemptSteps, AfterError, FallBackStep, ReconnectAttempt, TasksApart
       DEF Attempt, DialStep
  <2>2. CASE Outcome(t)
    BY <2>2, ConnectedWebRTCStep, DialedDirectStep, ConnectEnds DEF Outcome
  <2>3. CASE Retry(t) \/ ReconnectionFailed(t) \/ UserConnectFails(t)
    BY <2>3, AfterError
  <2> QED
    BY <1>2, <2>1, <2>2, <2>3 DEF TaskStep
<1>3. ASSUME NEW c \in Conns, ConnectionLost(c) \/ Noticed(c) PROVE IInv'
  BY <1>3, LostStep, CloseStep, HeartbeatStep DEF Noticed
<1>4. CASE UNCHANGED vars
  <2> USE <1>4, InvParts DEF vars, taskVars, dialVars, optionVars, flagVars, heldVars, connVars,
                             userVars
  <2>1. OptionTypes' /\ FlagTypes' /\ TaskTypes' /\ HeldTypes' /\ ConnTypes'
    BY DEF OptionTypes, FlagTypes, TaskTypes, HeldTypes, ConnTypes
  <2>2. Connecting'
    BY DEF Connecting, SingleConnect, Owners, NobodyWaitsForNothing, ReconnectingHasTask, Active
  <2>3. Holding'
    BY DEF Holding, NoLeakedConnection, ClosedHoldsNothing, HeldIsWatched, DialingHoldsNothing
  <2>4. Making'
    BY DEF Making, HeldIsMade, CloseFollows, HeartbeatsAreDirect, VerifiedIsNew, Verifying
  <2>5. Attempting'
    BY DEF Attempting, AttemptsLeft, AttemptsAreWanted, ReportedOnce, Verifying
  <2> QED
    BY <2>1, <2>2, <2>3, <2>4, <2>5, InvPartsNext
<1> QED
  BY <1>1, <1>2, <1>3, <1>4 DEF Next

THEOREM Invariant == Spec => []IInv
  BY InitIInv, Inductive, PTL DEF Spec

-----------------------------------------------------------------------------
(* The client is type correct, its numbers of attempts are bounded by       *)
(* reconnectMaxAttempts.                                                    *)
THEOREM TypeCorrect == Spec => []TypeOK
<1>1. IInv => TypeOK
  BY DEF IInv
<1> QED
  BY <1>1, Invariant, PTL

(* One connect at a time dials, and connecting is set exactly while it does.*)
THEOREM OneConnectAtATime == Spec => []SingleConnect
<1>1. IInv => SingleConnect
  BY DEF IInv, Connecting
<1> QED
  BY <1>1, Invariant, PTL

(* Whoever awaits connecting awaits a connect that is going on. *)
THEOREM WaitersAreServed == Spec => []NobodyWaitsForNothing
<1>1. IInv => NobodyWaitsForNothing
  BY DEF IInv, Connecting
<1> QED
  BY <1>1, Invariant, PTL

(* isReconnecting never outlives the reconnections. *)
THEOREM ReconnectingIsTrue == Spec => []ReconnectingHasTask
<1>1. IInv => ReconnectingHasTask
  BY DEF IInv, Connecting
<1> QED
  BY <1>1, Invariant, PTL

(* Every WebRTC connection that is open is the one the client holds. *)
THEOREM NothingLeaks == Spec => []NoLeakedConnection
<1>1. IInv => NoLeakedConnection
  BY DEF IInv, Holding
<1> QED
  BY <1>1, Invariant, PTL

(* A client that disconnect closed holds no connection and makes none. *)
THEOREM ClosedIsEmpty == Spec => []ClosedHoldsNothing
<1>1. IInv => ClosedHoldsNothing
  BY DEF IInv, Holding
<1> QED
  BY <1>1, Invariant, PTL

(* The connection held has its close listener. *)
THEOREM HeldHasListener == Spec => []HeldIsWatched
<1>1. IInv => HeldIsWatched
  BY DEF IInv, Holding
<1> QED
  BY <1>1, Invariant, PTL

-----------------------------------------------------------------------------
(* Only an attempt makes a dial dial or wait, and an attempt looks at the   *)
(* internal signal first.                                                   *)
LEMMA StartsUnaborted ==
  ASSUME TypeOK, [Next]_vars, NEW d \in Dials, task'[d] # task[d],
         task'[d] \in {"dialing", "waiting"}
  PROVE  AttemptDial(d) /\ ~abort[d]
<1> USE TasksApart, Connections
<1>1. task \in [Tasks -> States]
  BY TypeParts DEF TaskTypes
<1>2. CASE Application
  <2>1. CASE \E e \in Dials : Dial(e) \/ UserAbort(e)
    BY <1>1, <2>1 DEF Dial, UserAbort, taskVars
  <2>2. CASE \E t \in Connects : UserConnect(t)
    BY <1>1, <2>2 DEF UserConnect, Connect
  <2>3. CASE Disconnect
    BY <2>3 DEF Disconnect, taskVars
  <2> QED
    BY <1>2, <2>1, <2>2, <2>3, DialsAssumption DEF Application
<1>3. ASSUME NEW t \in Tasks, Attempt(t) PROVE AttemptDial(d) /\ ~abort[d]
  <2>1. CASE AttemptDial(t)
    BY <1>1, <2>1 DEF AttemptDial, Connect, Stops
  <2>2. CASE t \in Reconnects /\ AttemptReconnect(t)
    BY <1>1, <2>2 DEF AttemptReconnect, Connect, Reconnects
  <2>3. CASE AttemptAborted(t) \/ AttemptRefused(t) \/ DialAborted(t) \/ FallBack(t) \/ DialFailed(t)
    BY <1>1, <2>3 DEF AttemptAborted, AttemptRefused, AttemptFails, DialAborted, FallBack,
                      DialFailed
  <2> QED
    BY <1>3, <2>1, <2>2, <2>3 DEF Attempt, DialStep
<1>4. ASSUME NEW t \in Tasks, Outcome(t) PROVE AttemptDial(d) /\ ~abort[d]
  <2>1. CASE DialedDirect(t)
    BY <1>1, <2>1 DEF DialedDirect
  <2>2. CASE ConnectedWebRTC(t) \/ ConnectedDirect(t) \/ ConnectFails(t)
    <3>1. \A u \in Tasks : task'[u] \in {"ok", "error", task[u]}
      BY <2>2 DEF ConnectedWebRTC, ConnectedDirect, ConnectFails, Return
    <3> QED
      BY <3>1
  <2> QED
    BY <1>4, <2>1, <2>2 DEF Outcome
<1>5. ASSUME NEW t \in Tasks, Retry(t) \/ ReconnectionFailed(t) \/ UserConnectFails(t)
      PROVE  AttemptDial(d) /\ ~abort[d]
  BY <1>1, <1>5 DEF Retry, ReconnectionFailed, UserConnectFails
<1>6. ASSUME NEW c \in Conns, ConnectionLost(c) \/ Noticed(c)
      PROVE  AttemptDial(d) /\ ~abort[d]
  BY <1>1, <1>6 DEF ConnectionLost, Noticed, OnDataChannelClose, HeartbeatFails, OnDisconnect,
                    taskVars
<1>7. CASE UNCHANGED vars
  BY <1>7 DEF vars, taskVars
<1> QED
  BY <1>2, <1>3, <1>4, <1>5, <1>6, <1>7 DEF Next, TaskStep

(* No phase of a dial makes its first attempt once either signal is set. *)
THEOREM AbortStopsAtThePhase == Spec => AbortEndsAtThePhase
<1>1. IInv /\ [Next]_vars =>
        \A d \in Dials : (abort[d] \/ userAbort[d]) /\ task[d] = "attempt" =>
                            task'[d] \notin {"dialing", "waiting"}
  <2> SUFFICES ASSUME IInv, [Next]_vars, NEW d \in Dials, abort[d] \/ userAbort[d],
                      task[d] = "attempt", task'[d] \in {"dialing", "waiting"}
               PROVE  FALSE
    OBVIOUS
  <2>1. ~userAbort[d]
    BY DEF IInv, Attempting, AttemptsAreWanted
  <2>2. ~abort[d]
    BY StartsUnaborted DEF IInv
  <2> QED
    BY <2>1, <2>2
<1> QED
  BY <1>1, Invariant, PTL DEF Spec, AbortEndsAtThePhase

-----------------------------------------------------------------------------
(* Only its own close event's delivery makes a connection's "delivered". *)
LEMMA OnlyDelivered ==
  ASSUME IInv, [Next]_vars, NEW c \in Conns, closeEvent[c] # closeEvent'[c],
         closeEvent'[c] = "delivered"
  PROVE  OnDataChannelClose(c)
<1> USE InvParts DEF ConnTypes, HeldTypes
<1>1. ~UNCHANGED connVars
  BY DEF connVars
<1>2. ~Application
  <2>1. ~(\E d \in Dials : Dial(d) \/ UserAbort(d))
    BY <1>1 DEF Dial, UserAbort
  <2>2. ~(\E t \in Connects : UserConnect(t))
    BY DEF UserConnect, Connect, CloseHeld
  <2>3. ~Disconnect
    BY DEF Disconnect, Teardown, CloseHeld
  <2> QED
    BY <2>1, <2>2, <2>3, DialsAssumption DEF Application
<1>3. ASSUME NEW t \in Tasks, Attempt(t) PROVE FALSE
  <2>1. ~AttemptDial(t) /\ ~AttemptReconnect(t)
    BY DEF AttemptDial, AttemptReconnect, Connect, CloseHeld
  <2>2. ~(AttemptAborted(t) \/ AttemptRefused(t) \/ DialAborted(t) \/ FallBack(t) \/ DialFailed(t))
    BY <1>1 DEF AttemptAborted, AttemptRefused, DialAborted, FallBack, DialFailed
  <2> QED
    BY <1>3, <2>1, <2>2 DEF Attempt, DialStep
<1>4. ASSUME NEW t \in Tasks, Outcome(t) PROVE FALSE
  <2>1. ~ConnectedWebRTC(t)
    BY DEF ConnectedWebRTC, Finish, NewConn
  <2>2. ~DialedDirect(t)
    BY DEF DialedDirect
  <2>3. ~ConnectedDirect(t) /\ ~ConnectFails(t)
    BY DEF ConnectedDirect, ConnectFails, Finish
  <2> QED
    BY <1>4, <2>1, <2>2, <2>3 DEF Outcome
<1>5. ASSUME NEW t \in Tasks, Retry(t) \/ ReconnectionFailed(t) \/ UserConnectFails(t) PROVE FALSE
  BY <1>1, <1>5 DEF Retry, ReconnectionFailed, UserConnectFails
<1>6. ASSUME NEW b \in Conns, ConnectionLost(b) \/ Noticed(b) PROVE OnDataChannelClose(c)
  BY <1>6 DEF ConnectionLost, Noticed, OnDataChannelClose, HeartbeatFails
<1>7. ~UNCHANGED vars
  BY <1>1 DEF vars
<1> QED
  BY <1>2, <1>3, <1>4, <1>5, <1>6, <1>7 DEF Next, TaskStep

(* A loss of the connection held whose close event is still to come starts  *)
(* a reconnection, or is reported.                                          *)
THEOREM LossReachesItsHandler == Spec => LossIsActedOn
<1>1. IInv /\ [Next]_vars =>
        \A c \in Conns : current = c /\ closeEvent[c] # closeEvent'[c] /\ closeEvent'[c] = "delivered" =>
                            task'[c] = "attempt" \/ event' = "disconnected"
  <2> SUFFICES ASSUME IInv, [Next]_vars, NEW c \in Conns, current = c,
                      closeEvent[c] # closeEvent'[c], closeEvent'[c] = "delivered"
               PROVE  task'[c] = "attempt" \/ event' = "disconnected"
    OBVIOUS
  <2>1. c \in listening
    BY Connections DEF IInv, Holding, HeldIsWatched
  <2>2. OnDisconnect(c)
    BY <2>1, OnlyDelivered DEF OnDataChannelClose
  <2>3. task \in [Tasks -> States] /\ c \in Tasks
    BY Connections, InvParts DEF TaskTypes
  <2> QED
    BY <2>2, <2>3 DEF OnDisconnect
<1> QED
  BY <1>1, Invariant, PTL DEF Spec, LossIsActedOn

-----------------------------------------------------------------------------
(* What TasksGoOn says of task u. *)
GoesOn(u) ==
    task[u] # "idle" /\ ~Unlimited(u) =>
        \/ task'[u] = task[u] /\ StepsToGo(u)' = StepsToGo(u)
        \/ Active(u) /\ StepsToGo(u)' < StepsToGo(u)

LEMMA StepsAreNumbers ==
  ASSUME IInv, NEW u \in Tasks
  PROVE  attempts[u] \in Nat /\ AttemptsToGo(u) \in Int /\ Stage(u) \in 0 .. 4
<1> USE InvParts, BoundsAssumption DEF TaskTypes
<1>1. attempts[u] \in Nat
  OBVIOUS
<1>2. AttemptsToGo(u) \in Int
  BY <1>1 DEF AttemptsToGo
<1>3. Stage(u) \in 0 .. 4
  BY DEF Stage
<1> QED
  BY <1>1, <1>2, <1>3

(* A task that stands still, and one that goes on in its attempt. *)
LEMMA StandsStill ==
  ASSUME NEW u, task'[u] = task[u], attempts'[u] = attempts[u],
         u \in Dials => phase'[u] = phase[u]
  PROVE  GoesOn(u)
<1>1. AttemptsToGo(u)' = AttemptsToGo(u)
  BY DEF AttemptsToGo
<1>2. Stage(u)' = Stage(u)
  BY DEF Stage
<1> QED
  BY <1>1, <1>2 DEF GoesOn, StepsToGo

LEMMA NextStage ==
  ASSUME IInv, NEW u \in Tasks, Active(u), attempts'[u] = attempts[u],
         u \in Dials => phase'[u] = phase[u],
         Stage(u)' \in 0 .. 4, Stage(u)' < Stage(u)
  PROVE  GoesOn(u)
<1>1. AttemptsToGo(u)' = AttemptsToGo(u)
  BY DEF AttemptsToGo
<1>2. AttemptsToGo(u) \in Int /\ Stage(u) \in 0 .. 4
  BY StepsAreNumbers
<1>3. StepsToGo(u)' < StepsToGo(u)
  BY <1>1, <1>2 DEF StepsToGo
<1> QED
  BY <1>3 DEF GoesOn

(* An attempt is used up: what is left is less, whatever the stage. *)
LEMMA AttemptUsed ==
  ASSUME IInv, NEW u \in Tasks, Active(u),
         AttemptsToGo(u)' \in Int, AttemptsToGo(u)' < AttemptsToGo(u),
         Stage(u)' \in 0 .. 4
  PROVE  GoesOn(u)
<1>1. AttemptsToGo(u) \in Int /\ Stage(u) \in 0 .. 4
  BY StepsAreNumbers
<1>2. StepsToGo(u)' < StepsToGo(u)
  BY <1>1 DEF StepsToGo
<1> QED
  BY <1>2 DEF GoesOn

LEMMA StageNext == \A u : Stage(u)' \in 0 .. 4
  BY DEF Stage

(* One task moves to the next stage of its attempt, or is called. *)
LEMMA OneGoesOn ==
  ASSUME IInv, NEW t \in Tasks, NEW s, task' = [task EXCEPT ![t] = s],
         UNCHANGED <<attempts, phase>>,
         \/ task[t] = "idle"
         \/ task[t] \in {"attempt", "sleeping"} /\ s \in {"waiting", "dialing", "error"}
         \/ task[t] = "dialing" /\ s = "verifying"
  PROVE  \A u \in Tasks : GoesOn(u)
<1> SUFFICES ASSUME NEW u \in Tasks PROVE GoesOn(u)
  OBVIOUS
<1>1. task \in [Tasks -> States]
  BY InvParts DEF TaskTypes
<1>2. CASE u # t
  BY <1>1, <1>2, StandsStill
<1>3. CASE u = t /\ task[t] = "idle"
  BY <1>3 DEF GoesOn
<1>4. CASE u = t /\ task[t] # "idle"
  <2>1. task'[u] = s
    BY <1>1, <1>4
  <2>2. Stage(u)' < Stage(u) /\ Active(u)
    BY <1>4, <2>1 DEF Stage, Active
  <2> QED
    BY <2>2, StageNext, NextStage
<1> QED
  BY <1>2, <1>3, <1>4

(* The owner's connect ends, and with it what waited for it. *)
LEMMA EndsGoOn ==
  ASSUME IInv, NEW t \in Tasks, task[t] \in {"dialing", "verifying"},
         NEW outcome \in {"ok", "error"}, NEW done,
         Return(done, t, outcome), done \subseteq Waiters \union {t},
         UNCHANGED <<attempts, phase>>
  PROVE  \A u \in Tasks : GoesOn(u)
<1> SUFFICES ASSUME NEW u \in Tasks PROVE GoesOn(u)
  OBVIOUS
<1>1. task'[u] = IF u = t THEN outcome ELSE IF u \in done THEN "ok" ELSE task[u]
  BY DEF Return
<1>2. CASE task'[u] = task[u]
  BY <1>2, StandsStill
<1>3. CASE task'[u] # task[u]
  <2>1. task[u] \in {"waiting", "dialing", "verifying"} /\ task'[u] \in {"ok", "error"}
    BY <1>1, <1>3 DEF Waiters
  <2>2. Stage(u)' < Stage(u) /\ Active(u)
    BY <2>1 DEF Stage, Active
  <2> QED
    BY <2>2, StageNext, NextStage
<1> QED
  BY <1>2, <1>3

(* A retry callback, and the change of phase, use an attempt up. *)
LEMMA ErrorsGoOn ==
  ASSUME IInv, NEW t \in Tasks,
         \/ Retry(t) \/ ReconnectionFailed(t) \/ UserConnectFails(t)
         \/ DialAborted(t) \/ DialFailed(t) \/ FallBack(t)
  PROVE  \A u \in Tasks : GoesOn(u)
<1> SUFFICES ASSUME NEW u \in Tasks PROVE GoesOn(u)
  OBVIOUS
<1> USE InvParts DEF TaskTypes
<1>1. task[t] = "error" /\ Active(t)
  BY DEF Retry, ReconnectionFailed, UserConnectFails, DialAborted, DialFailed, FallBack, MayRetry,
         Active
<1>2. /\ attempts[t] \in Nat /\ NumOfAttempts(t) \in 1 .. MaxAttempts
      /\ ~Unlimited(t) => attempts[t] < NumOfAttempts(t)
  BY <1>1, SomeAttempts, StepsAreNumbers DEF Attempting, AttemptsLeft, Settled
<1>3. CASE u # t
  <2>1. task'[u] = task[u] /\ attempts'[u] = attempts[u]
    BY <1>3 DEF Retry, ReconnectionFailed, UserConnectFails, DialAborted, DialFailed, FallBack,
                MayRetry
  <2>2. u \in Dials => phase'[u] = phase[u]
    BY <1>3 DEF Retry, ReconnectionFailed, UserConnectFails, DialAborted, DialFailed, FallBack,
                OptionTypes
  <2> QED
    BY <2>1, <2>2, StandsStill
<1>4. CASE u = t /\ ~FallBack(t) /\ ~Unlimited(u)
  <2> USE BoundsAssumption
  <2>1. attempts'[t] = attempts[t] + 1 /\ phase' = phase
    BY <1>2, <1>4 DEF Retry, ReconnectionFailed, UserConnectFails, DialAborted, DialFailed, MayRetry
  <2>2. AttemptsToGo(t)' = AttemptsToGo(t) - 1
    BY <1>2, <2>1, BoundsAssumption DEF AttemptsToGo
  <2>3. AttemptsToGo(t) \in Int
    BY StepsAreNumbers
  <2> QED
    BY <1>1, <1>4, <2>2, <2>3, StageNext, AttemptUsed
<1>5. CASE u = t /\ FallBack(t) /\ ~Unlimited(u)
  <2>1. t \in Dials /\ phase[t] = "webrtc" /\ phase'[t] = "direct" /\ attempts'[t] = 0
    BY <1>5 DEF FallBack, OptionTypes
  <2>2. AttemptsToGo(t)' = MaxAttempts /\ AttemptsToGo(t) = 2 * MaxAttempts - attempts[t]
    BY <2>1, BoundsAssumption DEF AttemptsToGo
  <2>3. AttemptsToGo(t)' \in Int /\ AttemptsToGo(t)' < AttemptsToGo(t)
    BY <1>2, <1>5, <2>2, BoundsAssumption
  <2> QED
    BY <1>1, <1>5, <2>3, StageNext, AttemptUsed
<1>6. CASE Unlimited(u)
  BY <1>6 DEF GoesOn
<1> QED
  BY <1>3, <1>4, <1>5, <1>6

LEMMA EveryStepGoesOn == IInv /\ [Next]_vars => \A u \in Tasks : GoesOn(u)
<1> SUFFICES ASSUME IInv, [Next]_vars PROVE \A u \in Tasks : GoesOn(u)
  OBVIOUS
<1> USE InvParts
<1>1. task \in [Tasks -> States]
  BY DEF TaskTypes
<1>2. UNCHANGED taskVars => \A u \in Tasks : GoesOn(u)
  BY StandsStill DEF taskVars
<1>3. CASE Application
  <2>1. ASSUME NEW d \in Dials, Dial(d) PROVE \A u \in Tasks : GoesOn(u)
    <3>1. PICK s : task' = [task EXCEPT ![d] = s]
      BY <2>1 DEF Dial
    <3> QED
      BY <2>1, <3>1, TasksApart, OneGoesOn DEF Dial
  <2>2. ASSUME NEW t \in Connects, UserConnect(t) PROVE \A u \in Tasks : GoesOn(u)
    <3>1. PICK s : task' = [task EXCEPT ![t] = s]
      BY <2>2 DEF UserConnect, Connect
    <3> QED
      BY <2>2, <3>1, TasksApart, OneGoesOn DEF UserConnect
  <2>3. CASE Disconnect \/ \E d \in Dials : UserAbort(d)
    BY <1>2, <2>3 DEF Disconnect, UserAbort
  <2> QED
    BY <1>3, <2>1, <2>2, <2>3, DialsAssumption DEF Application
<1>4. ASSUME NEW t \in Tasks, Attempt(t) PROVE \A u \in Tasks : GoesOn(u)
  <2>1. CASE AttemptAborted(t) \/ AttemptRefused(t)
    BY <2>1, OneGoesOn DEF AttemptAborted, AttemptRefused, AttemptFails, Due
  <2>2. CASE AttemptDial(t) \/ (t \in Reconnects /\ AttemptReconnect(t))
    <3>1. PICK s \in {"waiting", "dialing"} : task' = [task EXCEPT ![t] = s]
      BY <2>2 DEF AttemptDial, AttemptReconnect, Connect
    <3>2. task[t] \in {"attempt", "sleeping"} /\ UNCHANGED <<attempts, phase>>
      BY <2>2 DEF AttemptDial, AttemptReconnect, Due
    <3> QED
      BY <3>1, <3>2, OneGoesOn
  <2>3. CASE DialAborted(t) \/ FallBack(t) \/ DialFailed(t)
    BY <2>3, ErrorsGoOn
  <2> QED
    BY <1>4, <2>1, <2>2, <2>3 DEF Attempt, DialStep
<1>5. ASSUME NEW t \in Tasks, Outcome(t) PROVE \A u \in Tasks : GoesOn(u)
  <2>1. CASE DialedDirect(t)
    BY <2>1, OneGoesOn DEF DialedDirect
  <2>2. CASE ConnectedWebRTC(t) \/ ConnectedDirect(t)
    BY <2>2, EndsGoOn DEF ConnectedWebRTC, ConnectedDirect
  <2>3. CASE ConnectFails(t)
    BY <2>3, EndsGoOn DEF ConnectFails
  <2> QED
    BY <1>5, <2>1, <2>2, <2>3 DEF Outcome
<1>6. ASSUME NEW t \in Tasks, Retry(t) \/ ReconnectionFailed(t) \/ UserConnectFails(t)
      PROVE  \A u \in Tasks : GoesOn(u)
  BY <1>6, ErrorsGoOn
<1>7. ASSUME NEW c \in Conns, ConnectionLost(c) \/ Noticed(c) PROVE \A u \in Tasks : GoesOn(u)
  <2>1. CASE UNCHANGED taskVars
    BY <1>2, <2>1
  <2>2. CASE ~UNCHANGED taskVars
    <3>1. Noticed(c) /\ OnDisconnect(c) /\ task' = [task EXCEPT ![c] = "attempt"]
      BY <1>7, <2>2 DEF ConnectionLost, Noticed, OnDataChannelClose, HeartbeatFails, OnDisconnect,
                        taskVars
    <3>2. task[c] = "idle"
      BY <3>1 DEF Noticed, OnDataChannelClose, HeartbeatFails, Attempting, ReportedOnce, Making,
                  CloseFollows
    <3>3. UNCHANGED <<attempts, phase>>
      BY <3>1 DEF Noticed, OnDataChannelClose, HeartbeatFails
    <3> QED
      BY <3>1, <3>2, <3>3, Connections, OneGoesOn
  <2> QED
    BY <2>1, <2>2
<1>8. CASE UNCHANGED vars
  BY <1>2, <1>8 DEF vars
<1> QED
  BY <1>3, <1>4, <1>5, <1>6, <1>7, <1>8 DEF Next, TaskStep

(* Dials with a maximum of attempts, connects and reconnections come to     *)
(* their end: each has a number of steps to go that its own steps lower and *)
(* nothing raises, not even a dial without a maximum.                       *)
THEOREM StepsAreUsedUp == Spec => TasksGoOn /\ []StepsAreCounted
<1>1. IInv /\ [Next]_vars =>
        \A t \in Tasks : task[t] # "idle" /\ ~Unlimited(t) =>
            \/ task'[t] = task[t] /\ StepsToGo(t)' = StepsToGo(t)
            \/ Active(t) /\ StepsToGo(t)' < StepsToGo(t)
  BY EveryStepGoesOn DEF GoesOn
<1>2. IInv => StepsAreCounted
  <2> SUFFICES ASSUME IInv, NEW t \in Tasks PROVE StepsToGo(t) \in 0 .. 10 * MaxAttempts + 4
    BY DEF StepsAreCounted
  <2>1. attempts[t] \in 0 .. MaxAttempts /\ Stage(t) \in 0 .. 4
    BY StepsAreNumbers, InvParts DEF TaskTypes
  <2>2. AttemptsToGo(t) \in 0 .. 2 * MaxAttempts
    BY <2>1, BoundsAssumption DEF AttemptsToGo
  <2> QED
    BY <2>1, <2>2, BoundsAssumption DEF StepsToGo
<1> QED
  BY <1>1, <1>2, Invariant, PTL DEF Spec, TasksGoOn
=============================================================================
