------------------------ MODULE ClientChannelProofs ------------------------
(***************************************************************************)
(* The safety of ClientChannel, for any sets of calls and any limit: the   *)
(* map of streams and the streams agree, ids are unique, a channel that    *)
(* ended holds nothing, and only a complete answer is a success.           *)
(***************************************************************************)
EXTENDS ClientChannel, TLAPS

(* Every id that was handed out is below the counter. *)
IdsTaken == \A c \in Calls : id[c] < streamIDCounter

(* A call that was not made yet has no id, and nothing happened to it. *)
UnmadeIsClean ==
    \A c \in Calls : result[c] = "none" =>
        id[c] = NoId /\ ~streamClosed[c] /\ ~trailersReceived[c]

(* The inductive invariant: uniqueness of ids needs IdsTaken, the agreement *)
(* of map and streams needs uniqueness, and what a response does to its     *)
(* call needs to know that the call was made.                               *)
IInv ==
    /\ TypeOK
    /\ IdsTaken
    /\ UnmadeIsClean
    /\ UniqueIds
    /\ MapHoldsOpenStreams
    /\ TerminatedHoldsNothing
    /\ ClosedReleasesReady
    /\ SuccessIsComplete
    /\ TrailersSettle

(* Initially nothing was made and the map is empty. *)
LEMMA InitIInv == Init => IInv
<1> SUFFICES ASSUME Init PROVE IInv
  OBVIOUS
<1>1. TypeOK
  BY DEF Init, TypeOK, NoId
<1>2. \A c \in Calls : id[c] = NoId /\ result[c] = "none" /\ ~streamClosed[c] /\ ~trailersReceived[c]
  BY DEF Init
<1>3. streams = {} /\ streamIDCounter = 0 /\ closeEvent = "none" /\ ~closed
  BY DEF Init
<1> QED
  BY <1>1, <1>2, <1>3 DEF IInv, IdsTaken, UnmadeIsClean, UniqueIds, MapHoldsOpenStreams,
         TerminatedHoldsNothing, ClosedReleasesReady, SuccessIsComplete, TrailersSettle,
         Registered, NoId, Calls

(* A registered call was made, and its id is a number below the counter. *)
LEMMA RegisteredWasMade ==
  ASSUME IInv, NEW c \in Registered
  PROVE  c \in Calls /\ id[c] \in Nat /\ id[c] # NoId /\ result[c] # "none" /\ ~streamClosed[c]
  BY DEF IInv, TypeOK, UnmadeIsClean, MapHoldsOpenStreams, Registered, NoId

(* A callback that leaves the calls and the map alone, and closes the channel *)
(* only with ready settled, keeps IInv.                                       *)
LEMMA TransportStep ==
  ASSUME IInv,
         dc' \in {"connecting", "open", "closed"},
         closeEvent' \in {"none", "pending", closeEvent},
         closed' \in BOOLEAN,
         ready' \in {"pending", "resolved", "rejected"},
         closed => closed',
         closed' => ready' # "pending",
         UNCHANGED <<mapVars, streamClosed, respVars, result, inputDone>>
  PROVE  IInv'
<1>1. TypeOK'
  BY DEF IInv, TypeOK, mapVars, respVars
<1>2. Registered' = Registered
  BY DEF Registered, mapVars
<1>3. IdsTaken' /\ UniqueIds' /\ UnmadeIsClean'
  BY DEF IInv, IdsTaken, UniqueIds, UnmadeIsClean, mapVars, respVars
<1>4. MapHoldsOpenStreams'
  BY <1>2 DEF IInv, MapHoldsOpenStreams
<1>5. TerminatedHoldsNothing' /\ ClosedReleasesReady'
  BY DEF IInv, TerminatedHoldsNothing, ClosedReleasesReady, TypeOK, mapVars
<1>6. SuccessIsComplete' /\ TrailersSettle'
  BY DEF IInv, SuccessIsComplete, TrailersSettle, respVars
<1> QED
  BY <1>1, <1>3, <1>4, <1>5, <1>6 DEF IInv

(* onConnectionTerminated empties the map and closes exactly the streams it   *)
(* held; the promises of the calls stay as they are.                          *)
LEMMA TerminatedStep ==
  ASSUME IInv, OnConnectionTerminated,
         dc' \in {"connecting", "open", "closed"},
         closeEvent' \in {"none", "pending", "delivered"}
  PROVE  IInv'
<1>1. /\ streams' = {} /\ closed' = TRUE
      /\ streamClosed' = [c \in Calls |-> streamClosed[c] \/ c \in Registered]
      /\ UNCHANGED <<streamIDCounter, id, headersReceived, trailersReceived, message, result, inputDone>>
  BY DEF OnConnectionTerminated, respVars
<1>2. ready' \in {"resolved", "rejected"}
  BY DEF OnConnectionTerminated, Reject, IInv, TypeOK, ClosedReleasesReady
<1>3. Registered' = {}
  BY <1>1 DEF Registered
<1>4. streamClosed' \in [Calls -> BOOLEAN]
  BY <1>1 DEF IInv, TypeOK
<1>5. TypeOK'
  BY <1>1, <1>2, <1>4 DEF IInv, TypeOK
<1>6. IdsTaken' /\ UniqueIds'
  BY <1>1 DEF IInv, IdsTaken, UniqueIds
<1>7. UnmadeIsClean'
  BY <1>1, RegisteredWasMade DEF IInv, UnmadeIsClean
<1>8. MapHoldsOpenStreams'
  BY <1>1, <1>3 DEF IInv, MapHoldsOpenStreams
<1>9. TerminatedHoldsNothing' /\ ClosedReleasesReady'
  BY <1>1, <1>2 DEF TerminatedHoldsNothing, ClosedReleasesReady
<1>10. SuccessIsComplete' /\ TrailersSettle'
  BY <1>1 DEF IInv, SuccessIsComplete, TrailersSettle
<1> QED
  BY <1>5, <1>6, <1>7, <1>8, <1>9, <1>10 DEF IInv

(* Every callback of the transport keeps IInv. *)
LEMMA CallbackStep == IInv /\ Callback => IInv'
<1> SUFFICES ASSUME IInv, Callback PROVE IInv'
  OBVIOUS
<1>1. CASE OnChannelOpen
  BY <1>1, TransportStep DEF OnChannelOpen, IInv, TypeOK, ClosedReleasesReady
<1>2. CASE ChannelLost
  BY <1>2, TransportStep DEF ChannelLost, CloseTransport, IInv, TypeOK, ClosedReleasesReady
<1>3. CASE CloseWithReason
  BY <1>3, TransportStep DEF CloseWithReason, CloseTransport, Reject, IInv, TypeOK
<1>4. CASE OnChannelClose
  BY <1>4, TerminatedStep DEF OnChannelClose, IInv, TypeOK
<1>5. CASE OnICEDown
  BY <1>5, TerminatedStep DEF OnICEDown, CloseTransport, IInv, TypeOK
<1> QED
  BY <1>1, <1>2, <1>3, <1>4, <1>5 DEF Callback

-----------------------------------------------------------------------------
(* closeWithRecvError takes one id out of the map: as ids are unique, exactly *)
(* the stream that closes is no longer registered.                            *)
LEMMA CloseUnregisters ==
  ASSUME IInv, NEW c \in Registered, CloseWithRecvError(c), UNCHANGED id
  PROVE  /\ Registered' = Registered \ {c}
         /\ streamClosed' = [streamClosed EXCEPT ![c] = TRUE]
         /\ streams' \subseteq streams
  BY RegisteredWasMade DEF CloseWithRecvError, Registered, IInv, UniqueIds

(* A step that closes one stream, registered or closed before, or no stream. *)
LEMMA CloseStep ==
  ASSUME IInv, NEW c \in Calls, c \in Registered \/ streamClosed[c],
         CloseWithRecvError(c) \/ UNCHANGED <<streamClosed, streams>>,
         inputDone' \in [Calls -> BOOLEAN],
         UNCHANGED <<chanVars, streamIDCounter, id, respVars, result>>
  PROVE  IInv'
<1>1. UNCHANGED <<dc, closeEvent, closed, ready, streamIDCounter, id, headersReceived,
                  trailersReceived, message, result>>
  BY DEF chanVars, respVars
<1>2. streams' \subseteq streams
  BY DEF CloseWithRecvError
<1>3. /\ streamClosed' \in [Calls -> BOOLEAN]
      /\ \A d \in Calls : d # c => streamClosed'[d] = streamClosed[d]
      /\ streamClosed[c] => streamClosed'[c]
  BY DEF CloseWithRecvError, IInv, TypeOK
<1>4. Registered' \subseteq Registered
  BY <1>1, <1>2 DEF Registered
<1>5. /\ \A d \in Registered' : ~streamClosed'[d]
      /\ \A d \in Registered : d \in Registered' \/ streamClosed'[d]
  <2>1. CASE UNCHANGED <<streamClosed, streams>>
    BY <1>1, <2>1 DEF IInv, MapHoldsOpenStreams, Registered
  <2>2. CASE CloseWithRecvError(c)
    <3>1. streamClosed'[c]
      BY <2>2 DEF CloseWithRecvError, IInv, TypeOK
    <3>2. \A d \in Registered : d # c => id[d] # id[c]
      BY RegisteredWasMade DEF IInv, UniqueIds
    <3>3. c \notin Registered' /\ \A d \in Registered : d # c => d \in Registered'
      BY <1>1, <2>2, <3>2 DEF CloseWithRecvError, Registered
    <3> QED
      BY <1>3, <1>4, <3>1, <3>3, RegisteredWasMade
  <2> QED
    BY <2>1, <2>2
<1>6. TypeOK'
  BY <1>1, <1>2, <1>3 DEF IInv, TypeOK
<1>7. IdsTaken' /\ UniqueIds'
  BY <1>1 DEF IInv, IdsTaken, UniqueIds
<1>8. UnmadeIsClean'
  <2>1. result[c] # "none"
    BY RegisteredWasMade DEF IInv, UnmadeIsClean
  <2> QED
    BY <1>1, <1>3, <2>1 DEF IInv, UnmadeIsClean
<1>9. MapHoldsOpenStreams'
  BY <1>1, <1>3, <1>5 DEF IInv, MapHoldsOpenStreams
<1>10. TerminatedHoldsNothing' /\ ClosedReleasesReady'
  BY <1>1, <1>2 DEF IInv, TerminatedHoldsNothing, ClosedReleasesReady
<1>11. SuccessIsComplete' /\ TrailersSettle'
  BY <1>1 DEF IInv, SuccessIsComplete, TrailersSettle
<1> QED
  BY <1>6, <1>7, <1>8, <1>9, <1>10, <1>11 DEF IInv

(* A new call takes the next id, which no call has and the map does not hold. *)
LEMMA NewStreamStep ==
  ASSUME IInv, NEW c \in Calls, NewStream(c)
  PROVE  IInv'
<1>1. /\ result[c] = "none" /\ id[c] = NoId /\ ~streamClosed[c] /\ ~trailersReceived[c]
      /\ id' = [id EXCEPT ![c] = streamIDCounter]
      /\ streamIDCounter' = streamIDCounter + 1
      /\ UNCHANGED <<dc, closeEvent, closed, ready, headersReceived, trailersReceived,
                     message, inputDone>>
  BY DEF NewStream, nextStreamID, chanVars, respVars, IInv, UnmadeIsClean
<1>2. /\ id'[c] = streamIDCounter
      /\ \A d \in Calls : d # c => id'[d] = id[d]
      /\ streamIDCounter \in Nat
      /\ streamIDCounter \notin streams
  BY <1>1 DEF IInv, TypeOK
<1>3. \/ /\ closed
         /\ result' = [result EXCEPT ![c] = "failure"]
         /\ UNCHANGED <<streams, streamClosed>>
      \/ /\ ~closed
         /\ result' = [result EXCEPT ![c] = "pending"]
         /\ streams' = streams \union {streamIDCounter}
         /\ UNCHANGED streamClosed
      \/ /\ ~closed
         /\ result' = [result EXCEPT ![c] = "pending"]
         /\ streamClosed' = [streamClosed EXCEPT ![c] = TRUE]
         /\ UNCHANGED streams
  BY DEF NewStream, nextStreamID
<1>4. TypeOK'
  <2>1. streamIDCounter' \in Nat /\ id' \in [Calls -> Nat \union {NoId}]
    BY <1>1, <1>2 DEF IInv, TypeOK
  <2>2. streams' \subseteq streams \union {streamIDCounter}
    BY <1>3
  <2>3. streams' \subseteq 0 .. streamIDCounter' - 1
    BY <1>1, <1>2, <2>2 DEF IInv, TypeOK
  <2>4. /\ result' \in [Calls -> {"none", "pending", "success", "failure"}]
        /\ streamClosed' \in [Calls -> BOOLEAN]
    BY <1>3 DEF IInv, TypeOK
  <2> QED
    BY <1>1, <2>1, <2>3, <2>4 DEF IInv, TypeOK
<1>5. IdsTaken' /\ UniqueIds'
  BY <1>1, <1>2 DEF IInv, TypeOK, IdsTaken, UniqueIds, NoId
<1>6. /\ result'[c] # "none"
      /\ result'[c] # "success"
      /\ \A d \in Calls : d # c => result'[d] = result[d] /\ streamClosed'[d] = streamClosed[d]
  BY <1>3 DEF IInv, TypeOK
<1>7. UnmadeIsClean'
  BY <1>1, <1>2, <1>6 DEF IInv, UnmadeIsClean
<1>8. \A d \in Calls : d # c => (d \in Registered' <=> d \in Registered)
  BY <1>2, <1>3 DEF Registered, IInv, IdsTaken, TypeOK
<1>9. MapHoldsOpenStreams'
  <2>1. c \in Registered' => ~streamClosed'[c]
    BY <1>1, <1>2, <1>3 DEF Registered
  <2>2. result'[c] = "pending" => streamClosed'[c] \/ c \in Registered'
    BY <1>2, <1>3 DEF Registered, IInv, TypeOK
  <2>3. Registered' \subseteq Calls
    BY DEF Registered
  <2> QED
    BY <1>6, <1>8, <2>1, <2>2, <2>3 DEF IInv, MapHoldsOpenStreams
<1>10. TerminatedHoldsNothing' /\ ClosedReleasesReady'
  BY <1>1, <1>3 DEF IInv, TerminatedHoldsNothing, ClosedReleasesReady
<1>11. SuccessIsComplete' /\ TrailersSettle'
  BY <1>1, <1>6 DEF IInv, SuccessIsComplete, TrailersSettle, Calls
<1> QED
  BY <1>4, <1>5, <1>7, <1>9, <1>10, <1>11 DEF IInv

-----------------------------------------------------------------------------
(* A response settles its own call only, and a settled call stays settled. *)
LEMMA SettleOne ==
  ASSUME IInv, NEW c \in Registered, NEW v \in {"success", "failure"}
  PROVE  /\ Settle(c, v) \in [Calls -> {"none", "pending", "success", "failure"}]
         /\ Settle(c, v)[c] \in {"success", "failure"}
         /\ Settle(c, v)[c] \in {v, result[c]}
         /\ \A d \in Calls : d # c => Settle(c, v)[d] = result[d]
  BY RegisteredWasMade DEF Settle, IInv, TypeOK

(* Headers and messages leave the map alone; what they do to the call's own   *)
(* promise is a settling that is no success of a unary call.                  *)
LEMMA OpenResponseStep ==
  ASSUME IInv, NEW c \in Registered,
         UNCHANGED <<chanVars, mapVars, streamClosed, trailersReceived, inputDone>>,
         headersReceived' \in {headersReceived, [headersReceived EXCEPT ![c] = TRUE]},
         message' \in {message, [message EXCEPT ![c] = TRUE]},
         NEW v \in {"success", "failure"},
         c \in UnaryCalls => v # "success",
         result' \in {result, Settle(c, v)}
  PROVE  IInv'
<1>1. UNCHANGED <<dc, closeEvent, closed, ready, streamIDCounter, streams, id>>
  BY DEF chanVars, mapVars
<1>2. Registered' = Registered
  BY <1>1 DEF Registered
<1>3. /\ c \in Calls
      /\ result' \in [Calls -> {"none", "pending", "success", "failure"}]
      /\ \A d \in Calls : result'[d] = "none" => result[d] = "none"
      /\ \A d \in Calls : result'[d] = "pending" => result[d] = "pending"
      /\ \A d \in UnaryCalls : result'[d] = "success" => result[d] = "success"
      /\ \A d \in Calls : result[d] \in {"success", "failure"} => result'[d] = result[d]
  BY RegisteredWasMade, SettleOne DEF IInv, TypeOK, Calls, Settle
<1>4. /\ headersReceived' \in [Calls -> BOOLEAN] /\ message' \in [Calls -> BOOLEAN]
      /\ \A d \in Calls : headersReceived[d] => headersReceived'[d]
      /\ \A d \in Calls : message[d] => message'[d]
  BY <1>3 DEF IInv, TypeOK
<1>5. TypeOK'
  BY <1>1, <1>3, <1>4 DEF IInv, TypeOK
<1>6. IdsTaken' /\ UniqueIds' /\ UnmadeIsClean'
  BY <1>1, <1>3 DEF IInv, IdsTaken, UniqueIds, UnmadeIsClean
<1>7. MapHoldsOpenStreams'
  BY <1>2, <1>3 DEF IInv, MapHoldsOpenStreams
<1>8. TerminatedHoldsNothing' /\ ClosedReleasesReady'
  BY <1>1 DEF IInv, TerminatedHoldsNothing, ClosedReleasesReady
<1>9. SuccessIsComplete'
  BY <1>3, <1>4 DEF IInv, SuccessIsComplete, Calls
<1>10. TrailersSettle'
  BY <1>3 DEF IInv, TrailersSettle
<1> QED
  BY <1>5, <1>6, <1>7, <1>8, <1>9, <1>10 DEF IInv

(* Trailers settle the call and close its stream. *)
LEMMA TrailersStep ==
  ASSUME IInv, NEW c \in Calls, NEW ok \in BOOLEAN, OnTrailers(c, ok)
  PROVE  IInv'
<1> DEFINE v == TrailersOutcome(c, ok)
<1>1. c \in Registered
  BY DEF OnTrailers, OnChannelMessage
<1>2. /\ UNCHANGED <<dc, closeEvent, closed, ready, streamIDCounter, id, headersReceived,
                     message, inputDone>>
      /\ trailersReceived' = [trailersReceived EXCEPT ![c] = TRUE]
      /\ result' = Settle(c, v)
      /\ CloseWithRecvError(c)
  BY DEF OnTrailers, chanVars
<1>3. /\ v \in {"success", "failure"}
      /\ c \in UnaryCalls /\ v = "success" => headersReceived[c] /\ message[c]
  BY DEF TrailersOutcome
<1> HIDE DEF v
<1>4. /\ result' \in [Calls -> {"none", "pending", "success", "failure"}]
      /\ result'[c] \in {"success", "failure"}
      /\ result'[c] \in {v, result[c]}
      /\ \A d \in Calls : d # c => result'[d] = result[d]
  BY <1>1, <1>2, <1>3, SettleOne
<1>5. /\ Registered' = Registered \ {c}
      /\ streamClosed' = [streamClosed EXCEPT ![c] = TRUE]
      /\ streams' \subseteq streams
  BY <1>1, <1>2, CloseUnregisters
<1>6. TypeOK'
  BY <1>2, <1>4, <1>5 DEF IInv, TypeOK
<1>7. IdsTaken' /\ UniqueIds'
  BY <1>2 DEF IInv, IdsTaken, UniqueIds
<1>8. \A d \in Calls : d # c => /\ streamClosed'[d] = streamClosed[d]
                                /\ trailersReceived'[d] = trailersReceived[d]
  BY <1>2, <1>5 DEF IInv, TypeOK
<1>9. UnmadeIsClean'
  BY <1>2, <1>4, <1>8 DEF IInv, UnmadeIsClean
<1>10. MapHoldsOpenStreams'
  <2>1. \A d \in Registered' : d \in Registered /\ d # c /\ d \in Calls
    BY <1>5 DEF Registered
  <2>2. \A d \in Registered' : ~streamClosed'[d]
    BY <1>8, <2>1 DEF IInv, MapHoldsOpenStreams
  <2> QED
    BY <1>4, <1>5, <1>8, <2>2 DEF IInv, MapHoldsOpenStreams
<1>11. TerminatedHoldsNothing' /\ ClosedReleasesReady'
  BY <1>2, <1>5 DEF IInv, TerminatedHoldsNothing, ClosedReleasesReady
<1>12. TrailersSettle'
  BY <1>4, <1>8 DEF IInv, TrailersSettle
<1>13. SuccessIsComplete'
  <2>1. trailersReceived'[c]
    BY <1>2 DEF IInv, TypeOK
  <2>2. c \in UnaryCalls /\ result'[c] = "success" => headersReceived[c] /\ message[c]
    BY <1>3, <1>4 DEF IInv, SuccessIsComplete
  <2> QED
    BY <1>2, <1>4, <1>8, <2>1, <2>2 DEF IInv, SuccessIsComplete, Calls
<1> QED
  BY <1>6, <1>7, <1>9, <1>10, <1>11, <1>12, <1>13 DEF IInv

(* Every action keeps IInv. *)
LEMMA Inductive == IInv /\ [Next]_vars => IInv'
<1> SUFFICES ASSUME IInv, [Next]_vars PROVE IInv'
  OBVIOUS
<1>1. CASE Callback
  BY <1>1, CallbackStep
<1>2. ASSUME NEW c \in Calls, Application(c) PROVE IInv'
  <2>1. CASE NewStream(c)
    BY <2>1, NewStreamStep
  <2>2. CASE SendMessages(c)
    <3>1. inputDone' \in [Calls -> BOOLEAN]
      BY <2>2 DEF SendMessages, IInv, TypeOK
    <3> QED
      BY <2>2, <3>1, CloseStep DEF SendMessages, WriteOrClose
  <2>3. CASE ResetStream(c)
    BY <2>3, CloseStep DEF ResetStream, WriteOrClose, IInv, TypeOK
  <2>4. CASE InputFails(c)
    <3>1. inputDone' \in [Calls -> BOOLEAN]
      BY <2>4 DEF InputFails, IInv, TypeOK
    <3> QED
      BY <2>4, <3>1, CloseStep DEF InputFails
  <2> QED
    BY <1>2, <2>1, <2>2, <2>3, <2>4 DEF Application
<1>3. ASSUME NEW c \in Calls, Response(c) PROVE IInv'
  <2>1. CASE OnHeaders(c)
    BY <2>1, OpenResponseStep, KindsAssumption DEF OnHeaders, OnChannelMessage
  <2>2. CASE OnMessage(c)
    BY <2>2, OpenResponseStep DEF OnMessage, OnChannelMessage
  <2>3. ASSUME NEW ok \in BOOLEAN, OnTrailers(c, ok) PROVE IInv'
    BY <2>3, TrailersStep
  <2> QED
    BY <1>3, <2>1, <2>2, <2>3 DEF Response
<1>4. CASE UNCHANGED vars
  BY <1>4, TransportStep DEF vars, chanVars, IInv, TypeOK, ClosedReleasesReady
<1> QED
  BY <1>1, <1>2, <1>3, <1>4 DEF Next

-----------------------------------------------------------------------------
(* IInv holds of every behaviour. *)
THEOREM Invariance == Spec => []IInv
<1>1. Init => IInv
  BY InitIInv
<1>2. IInv /\ [Next]_vars => IInv'
  BY Inductive
<1> QED
  BY <1>1, <1>2, PTL DEF Spec

(* Type correctness; in particular every key of the map is an id that was     *)
(* handed out and not one newStream is about to hand out.                     *)
THEOREM TypeCorrect == Spec => []TypeOK
  BY Invariance, PTL DEF IInv

(* The map of streams and the streams agree, for any number of calls: no      *)
(* closed stream is registered, and a pending call on an open stream can be   *)
(* reached by its answer (newStream, removeStreamByID, onConnectionTerminated).*)
THEOREM MapAgrees == Spec => []MapHoldsOpenStreams
  BY Invariance, PTL DEF IInv

(* No two calls ever share a stream id (nextStreamID). *)
THEOREM IdsAreUnique == Spec => []UniqueIds
  BY Invariance, PTL DEF IInv

(* A call cannot register with a channel that has terminated. *)
THEOREM TerminationIsFinal == Spec => []TerminatedHoldsNothing
  BY Invariance, PTL DEF IInv

(* A closed channel has released whoever waits for ready (closeWithReason).   *)
THEOREM ClosingReleases == Spec => []ClosedReleasesReady
  BY Invariance, PTL DEF IInv

(* A unary call that succeeds had headers, a message and trailers.            *)
THEOREM AnswersAreComplete == Spec => []SuccessIsComplete
  BY Invariance, PTL DEF IInv

(* Trailers always settle the call (onTrailers).                              *)
THEOREM TrailersAnswer == Spec => []TrailersSettle
  BY Invariance, PTL DEF IInv

(* A closed stream is out of the map, so no response reaches its call: what   *)
(* was received and what the caller was told do not change any more.          *)
LEMMA ClosedIsInertStep ==
  IInv /\ [Next]_vars =>
    \A c \in Calls : streamClosed[c] =>
        /\ headersReceived'[c] = headersReceived[c]
        /\ trailersReceived'[c] = trailersReceived[c]
        /\ message'[c] = message[c]
        /\ result'[c] = result[c]
<1> SUFFICES ASSUME IInv, [Next]_vars, NEW c \in Calls, streamClosed[c]
             PROVE  /\ headersReceived'[c] = headersReceived[c]
                    /\ trailersReceived'[c] = trailersReceived[c]
                    /\ message'[c] = message[c]
                    /\ result'[c] = result[c]
  OBVIOUS
<1>1. c \notin Registered /\ result[c] # "none"
  BY DEF IInv, MapHoldsOpenStreams, UnmadeIsClean
<1>2. CASE Callback \/ UNCHANGED vars
  <2>1. UNCHANGED <<respVars, result>>
    BY <1>2 DEF Callback, OnChannelOpen, ChannelLost, OnChannelClose, CloseWithReason, OnICEDown,
                OnConnectionTerminated, vars
  <2> QED
    BY <2>1 DEF respVars
<1>3. ASSUME NEW d \in Calls, Application(d) PROVE /\ UNCHANGED respVars
                                                   /\ result'[c] = result[c]
  BY <1>1, <1>3 DEF Application, NewStream, SendMessages, InputFails, ResetStream, IInv, TypeOK
<1>4. ASSUME NEW d \in Calls, Response(d) PROVE
        /\ headersReceived'[c] = headersReceived[c]
        /\ trailersReceived'[c] = trailersReceived[c]
        /\ message'[c] = message[c]
        /\ result'[c] = result[c]
  <2>1. d # c
    BY <1>1, <1>4 DEF Response, OnHeaders, OnMessage, OnTrailers, OnChannelMessage
  <2> QED
    BY <1>4, <2>1 DEF Response, OnHeaders, OnMessage, OnTrailers, Settle, IInv, TypeOK
<1> QED
  BY <1>2, <1>3, <1>4 DEF Next, respVars

(* Late, repeated and misordered responses never touch a closed stream, for   *)
(* any number of calls and whatever the server sends.                         *)
THEOREM InertOnceClosed == Spec => ClosedStreamsAreInert
  BY Invariance, ClosedIsInertStep, PTL DEF Spec, ClosedStreamsAreInert
=============================================================================
