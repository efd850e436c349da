----------------------------- MODULE DialProofs -----------------------------
(***************************************************************************)
(* What holds of a dial of src/rpc.  First SignalingExchange: the safety of *)
(* one WebRTC dial, for any number of ICE candidates, and that the dial     *)
(* uses its data channel as ClientChannel allows.  Then DialOptions: who is *)
(* shown which credentials, and which ICE servers are used, for any options *)
(* and any number of attempts.                                              *)
(***************************************************************************)
EXTENDS SignalingExchange, DialOptions, TLAPS

(* The remote description is set once, and only after the init response,    *)
(* which brings the uuid of the call.                                       *)
InitThenRemote ==
    /\ haveInit <=> callUuid # "unset"
    /\ remoteSet => haveInit
    /\ loop = "remote" => haveInit /\ ~remoteSet

(* The peers find each other only through a remote description. *)
ConnectedHasRemote == ice \in {"connected", "completed"} => remoteSet

(* No update of the exchange is sent without the uuid of the call. *)
UpdatesHaveUuid == final # "none" => callUuid = "given"

(* A ready channel ended the exchange, whose uuid came before; where there is *)
(* one the other peer was told.                                               *)
ReadyEndsExchange ==
    ready = "resolved" => exchangeDone /\ haveInit /\ (callUuid = "given" => final # "none")

(* done is sent by the ready handler, by the end of gathering, or when there *)
(* is no trickle ICE: in each case after the remote description.             *)
DoneIsLate == final = "done" => remoteSet /\ (exchangeDone \/ gathered = "done")

(* What waited for the remote description went on when it was set. *)
NothingWaits ==
    remoteSet => gathered # "waiting" /\ \A k \in Candidates : candidate[k] # "waiting"

(* The inductive invariant: that a ready channel was announced needs a uuid, *)
(* which needs the order of the handshake.                                   *)
IInv ==
    /\ TypeOK
    /\ InitThenRemote
    /\ UpdatesHaveUuid
    /\ ConnectedHasRemote
    /\ ReadyEndsExchange
    /\ DoneIsLate
    /\ NothingWaits
    /\ CandidatesFollowInit

-----------------------------------------------------------------------------
(* The type of the channel's part of the state: of the rest of ClientChannel *)
(* this dial uses nothing, as no call was made.                              *)
ChanTypeOK ==
    /\ dc \in {"connecting", "open", "closed"}
    /\ closeEvent \in {"none", "pending", "delivered"}
    /\ closed \in BOOLEAN
    /\ ready \in {"pending", "resolved", "rejected"}

LEMMA ChanType == Channel!TypeOK <=> ChanTypeOK
  BY DEF Channel!TypeOK, Channel!Calls, ChanTypeOK

LEMMA ChanTypeNext == Channel!TypeOK' <=> ChanTypeOK'
  BY DEF Channel!TypeOK, Channel!Calls, ChanTypeOK

(* What the exchange does to its channel, other than opening it, keeps its    *)
(* type and never makes it ready.                                             *)
ChanEnding ==
    \/ UNCHANGED chanVars
    \/ Channel!CloseTransport /\ UNCHANGED <<closed, ready>>
    \/ Channel!CloseWithReason \/ Channel!OnICEDown
    \/ Channel!ChannelLost \/ Channel!OnChannelClose

LEMMA ChanEndingStep ==
  ASSUME ChanTypeOK, ChanEnding
  PROVE  ChanTypeOK' /\ (ready' = "resolved" => ready = "resolved")
  BY DEF ChanTypeOK, ChanEnding, chanVars, Channel!CloseTransport, Channel!CloseWithReason,
         Channel!OnICEDown, Channel!ChannelLost, Channel!OnChannelClose,
         Channel!OnConnectionTerminated, Channel!Reject

(* Initially nothing happened. *)
LEMMA InitIInv == Init => IInv
<1> SUFFICES ASSUME Init PROVE IInv
  OBVIOUS
<1>1. Channel!TypeOK
  BY ChanType DEF Init, ChanTypeOK
<1> QED
  BY <1>1 DEF Init, IInv, TypeOK, InitThenRemote, UpdatesHaveUuid, ConnectedHasRemote, ReadyEndsExchange,
         DoneIsLate, NothingWaits, CandidatesFollowInit

(* A step that ends the channel or leaves it alone, and moves nothing of the  *)
(* handshake, keeps IInv.                                                     *)
LEMMA EndingStep ==
  ASSUME IInv, ChanEnding,
         ice' \in {ice, "down"},
         phase' \in {"offer", "exchange", "connected", "failed"},
         timer' \in {"armed", "fired", "cleared", "disabled"},
         timer' = "armed" <=> phase' \in {"offer", "exchange"} /\ timer' \notin {"fired", "disabled"},
         UNCHANGED <<disableTrickle, haveInit, callUuid, remoteSet, iceVars, doneVars>>,
         <<call', loop'>> = <<call, loop>> \/ <<call', loop'>> = <<"open", "reading">>
  PROVE  IInv'
<1>1. ChanTypeOK' /\ (ready' = "resolved" => ready = "resolved")
  BY ChanType, ChanEndingStep DEF IInv, TypeOK
<1>2. TypeOK'
  BY <1>1, ChanTypeNext DEF IInv, TypeOK, iceVars, doneVars
<1>3. InitThenRemote' /\ UpdatesHaveUuid' /\ ConnectedHasRemote'
  BY DEF IInv, InitThenRemote, UpdatesHaveUuid, ConnectedHasRemote, doneVars
<1>4. ReadyEndsExchange' /\ DoneIsLate' /\ NothingWaits' /\ CandidatesFollowInit'
  BY <1>1 DEF IInv, ReadyEndsExchange, DoneIsLate, NothingWaits, CandidatesFollowInit,
              iceVars, doneVars
<1> QED
  BY <1>2, <1>3, <1>4 DEF IInv

LEMMA DialInductive ==
  ASSUME IInv, DialStep \/ TimedOut \/ ChannelEnds \/ UNCHANGED vars
  PROVE  IInv'
<1>1. CASE Offer
  BY <1>1, EndingStep DEF Offer, ChanEnding, IInv, TypeOK
<1>2. ASSUME GiveUp PROVE IInv'
  BY <1>2, EndingStep DEF GiveUp, ChanEnding, IInv, TypeOK, loopVars
<1>3. CASE OfferFails
  BY <1>2, <1>3 DEF OfferFails
<1>4. CASE DialFails
  BY <1>2, <1>4 DEF DialFails
<1>5. CASE DialConnects
  BY <1>5, EndingStep DEF DialConnects, ChanEnding, IInv, TypeOK, loopVars
<1>6. CASE TimedOut
  BY <1>6, EndingStep DEF TimedOut, Terminate, ChanEnding, IInv, TypeOK, loopVars
<1>7. CASE ChannelEnds
  BY <1>7, EndingStep DEF ChannelEnds, ChanEnding, IInv, TypeOK, loopVars, dialVars
<1>8. CASE UNCHANGED vars
  BY <1>8, EndingStep DEF ChanEnding, IInv, TypeOK, loopVars, dialVars, vars
<1> QED
  BY <1>1, <1>3, <1>4, <1>5, <1>6, <1>7, <1>8 DEF DialStep

(* The browser connects the peers and opens the channel: the ready handler    *)
(* finds the uuid it needs, since the remote description was set.             *)
LEMMA OpeningInductive ==
  ASSUME IInv, IceConnects \/ ChannelOpens
  PROVE  IInv'
<1>1. CASE IceConnects
  <2>1. Channel!TypeOK'
    BY <1>1, ChanType, ChanTypeNext DEF IceConnects, IInv, TypeOK, chanVars, ChanTypeOK
  <2> QED
    BY <1>1, <2>1 DEF IceConnects, IInv, TypeOK, InitThenRemote, UpdatesHaveUuid, ConnectedHasRemote,
       ReadyEndsExchange, DoneIsLate, NothingWaits, CandidatesFollowInit,
       dialVars, chanVars, loopVars, iceVars, doneVars
<1>2. CASE ChannelOpens
  <2>1. haveInit /\ remoteSet
    BY <1>2 DEF ChannelOpens, IInv, InitThenRemote, ConnectedHasRemote
  <2>2. Channel!TypeOK'
    BY <1>2, ChanType, ChanTypeNext DEF ChannelOpens, Channel!OnChannelOpen, IInv, TypeOK, ChanTypeOK
  <2>3. ready' = "resolved" => exchangeDone' /\ (callUuid' = "given" => final' # "none")
    BY <1>2, <2>1 DEF ChannelOpens, Channel!OnChannelOpen, OnReady, Final, MaySend, IInv,
       ReadyEndsExchange, loopVars, doneVars
  <2>4. /\ final' \in {final, "done"}
        /\ exchangeDone' = exchangeDone \/ exchangeDone' = TRUE
        /\ final' # final => exchangeDone' = TRUE /\ callUuid = "given"
    BY <1>2 DEF ChannelOpens, OnReady, Final, MaySend, doneVars
  <2>5. UNCHANGED <<dialVars, ice, loopVars, iceVars>>
    BY <1>2 DEF ChannelOpens
  <2>6. TypeOK'
    <3>1. exchangeDone' \in BOOLEAN
      BY <2>4 DEF IInv, TypeOK
    <3>2. final' \in {"none", "done", "error"}
      BY <2>4 DEF IInv, TypeOK
    <3>3. /\ disableTrickle' = disableTrickle /\ phase' = phase /\ timer' = timer /\ ice' = ice
          /\ call' = call /\ loop' = loop /\ haveInit' = haveInit /\ remoteSet' = remoteSet
          /\ callUuid' = callUuid /\ iceComplete' = iceComplete /\ candidate' = candidate /\ gathered' = gathered
      BY <2>5 DEF dialVars, loopVars, iceVars
    <3> QED
      BY <2>2, <3>1, <3>2, <3>3 DEF IInv, TypeOK
  <2>7. /\ InitThenRemote' /\ UpdatesHaveUuid' /\ ConnectedHasRemote' /\ NothingWaits'
        /\ CandidatesFollowInit'
    BY <2>4, <2>5 DEF IInv, InitThenRemote, UpdatesHaveUuid, ConnectedHasRemote, NothingWaits,
       CandidatesFollowInit, loopVars, iceVars
  <2>8. ReadyEndsExchange' /\ DoneIsLate'
    BY <2>1, <2>3, <2>4, <2>5 DEF IInv, ReadyEndsExchange, DoneIsLate, loopVars, iceVars
  <2> QED
    BY <2>6, <2>7, <2>8 DEF IInv
<1> QED
  BY <1>1, <1>2

(* Gathering: a candidate is sent, or done is, only after the remote          *)
(* description.                                                               *)
LEMMA GatheringInductive ==
  ASSUME IInv, GatheringEnds \/ \E k \in Candidates : Gathers(k)
  PROVE  IInv'
<1>1. UNCHANGED <<dialVars, chanVars, ice, loopVars, exchangeDone>>
  BY DEF GatheringEnds, Gathers, doneVars
<1>2. Channel!TypeOK'
  BY <1>1, ChanType, ChanTypeNext DEF IInv, TypeOK, chanVars, ChanTypeOK
<1>3. CASE GatheringEnds
  <2>1. final' \in {final, "done"} /\ (final # "none" => final' = final)
    BY <1>3 DEF GatheringEnds, Final, MaySend
  <2>2. final' # final => remoteSet /\ gathered' = "done" /\ callUuid = "given"
    BY <1>3 DEF GatheringEnds, Final, MaySend
  <2>3. iceComplete' \in BOOLEAN /\ gathered' \in {"waiting", "done"}
    BY <1>3 DEF GatheringEnds, IInv, TypeOK
  <2>4. remoteSet => gathered' = "done"
    BY <1>3 DEF GatheringEnds
  <2>5. gathered = "none" /\ candidate' = candidate
    BY <1>3 DEF GatheringEnds
  <2> QED
    BY <1>1, <1>2, <2>1, <2>2, <2>3, <2>4, <2>5 DEF IInv, TypeOK, InitThenRemote, UpdatesHaveUuid,
       ConnectedHasRemote, ReadyEndsExchange, DoneIsLate, NothingWaits,
       CandidatesFollowInit, dialVars, chanVars, loopVars
<1>4. ASSUME NEW k \in Candidates, Gathers(k) PROVE IInv'
  <2>1. /\ candidate' \in [Candidates -> {"none", "waiting", "sent", "dropped"}]
        /\ \A j \in Candidates : candidate'[j] # candidate[j] =>
              \/ candidate'[j] = "waiting" /\ ~remoteSet
              \/ candidate'[j] = "dropped"
              \/ candidate'[j] = "sent" /\ callUuid = "given"
    BY <1>4 DEF Gathers, LocalCandidate, Dispatched, IInv, TypeOK
  <2>2. UNCHANGED <<iceComplete, gathered, final>>
    BY <1>4 DEF Gathers, doneVars
  <2> QED
    BY <1>1, <1>2, <2>1, <2>2 DEF IInv, TypeOK, InitThenRemote, UpdatesHaveUuid, ConnectedHasRemote,
       ReadyEndsExchange, DoneIsLate, NothingWaits, CandidatesFollowInit,
       dialVars, chanVars, loopVars
<1> QED
  BY <1>3, <1>4

(* A step of the loop that sets no remote description: it can only learn the  *)
(* uuid, and send an error.                                                   *)
LEMMA ReadingStep ==
  ASSUME IInv,
         UNCHANGED <<dialVars, chanVars, ice, iceVars, exchangeDone, remoteSet>>,
         haveInit' \in BOOLEAN, haveInit' <=> callUuid' # "unset",
         callUuid' \in {"unset", "given", "empty"}, haveInit => callUuid' = callUuid,
         call' \in {"none", "open", "ended", "error"},
         loop' \in {"reading", "remote", "adding", "sending", "throwing", "ended", "failed"}
                   \union {loop},
         loop' = "remote" => haveInit' /\ ~remoteSet,
         final' # final => callUuid' = "given",
         final' \in {final, "error"}, final # "none" => final' = final
  PROVE  IInv'
<1>1. Channel!TypeOK'
  BY ChanType, ChanTypeNext DEF IInv, TypeOK, chanVars, ChanTypeOK
<1>2. TypeOK'
  BY <1>1 DEF IInv, TypeOK, dialVars, iceVars
<1>3. /\ InitThenRemote' /\ UpdatesHaveUuid' /\ ConnectedHasRemote' /\ NothingWaits'
      /\ CandidatesFollowInit'
  BY DEF IInv, InitThenRemote, UpdatesHaveUuid, ConnectedHasRemote, NothingWaits,
     CandidatesFollowInit, iceVars
<1>4. ReadyEndsExchange' /\ DoneIsLate'
  BY DEF IInv, InitThenRemote, ReadyEndsExchange, DoneIsLate, chanVars, iceVars
<1> QED
  BY <1>2, <1>3, <1>4 DEF IInv

(* An error of the loop is told by sendError at most once. *)
LEMMA RefuseStep ==
  ASSUME IInv, NEW next \in {"sending", "throwing"}, Refuse(next)
  PROVE  /\ loop' \in {"sending", "throwing", "ended", "failed"}
         /\ final' \in {final, "error"}
         /\ final # "none" => final' = final
         /\ final' # final => callUuid = "given"
  BY DEF Refuse, Final, MaySend, Thrown, IInv, TypeOK

LEMMA ReadingInductive ==
  ASSUME IInv, InitResponse \/ UpdateResponse \/ CandidateAdded \/ UpdateSent \/ CallEnds \/ LoopEnds
  PROVE  IInv'
<1>1. CASE InitResponse
  <2>1. CASE haveInit
    BY <1>1, <2>1, RefuseStep, ReadingStep DEF InitResponse, IInv, TypeOK, InitThenRemote
  <2>2. CASE ~haveInit
    <3>1. ~remoteSet
      BY <2>2 DEF IInv, InitThenRemote
    <3>2. /\ haveInit' = TRUE /\ call' = call
          /\ callUuid' \in {"given", "empty"}
          /\ loop' \in {"remote", "sending", "ended", "failed"}
          /\ final' \in {final, "error"} /\ (final' # final => callUuid' = "given")
          /\ UNCHANGED <<dialVars, chanVars, ice, iceVars, exchangeDone, remoteSet>>
      BY <1>1, <2>2 DEF InitResponse, FirstInit, Thrown
    <3>3. final = "none" /\ ready # "resolved"
      BY <2>2 DEF IInv, InitThenRemote, ReadyEndsExchange, UpdatesHaveUuid
    <3> QED
      BY <2>2, <3>1, <3>2, <3>3, ReadingStep DEF IInv, TypeOK, InitThenRemote
  <2> QED
    BY <2>1, <2>2
<1>2. CASE UpdateResponse
  BY <1>2, RefuseStep, ReadingStep DEF UpdateResponse, IInv, TypeOK, InitThenRemote
<1>3. CASE CandidateAdded
  BY <1>3, RefuseStep, ReadingStep DEF CandidateAdded, IInv, TypeOK, InitThenRemote
<1>4. CASE UpdateSent
  BY <1>4, ReadingStep DEF UpdateSent, Thrown, doneVars, IInv, TypeOK, InitThenRemote
<1>5. CASE CallEnds
  BY <1>5, ReadingStep DEF CallEnds, doneVars, IInv, TypeOK, InitThenRemote
<1>6. CASE LoopEnds
  BY <1>6, ReadingStep DEF LoopEnds, Thrown, doneVars, IInv, TypeOK, InitThenRemote
<1> QED
  BY <1>1, <1>2, <1>3, <1>4, <1>5, <1>6

(* The remote description is set: what waited for it goes on. *)
LEMMA RemoteInductive ==
  ASSUME IInv, RemoteDescriptionSet
  PROVE  IInv'
<1>1. /\ UNCHANGED <<dialVars, chanVars, ice, call, haveInit, callUuid>>
      /\ remoteSet' = TRUE /\ haveInit /\ ~remoteSet
  BY DEF RemoteDescriptionSet, IInv, InitThenRemote
<1>2. /\ candidate' \in [Candidates -> {"none", "sent", "dropped"}]
      /\ \A k \in Candidates : candidate'[k] = "sent" => candidate[k] = "sent" \/ callUuid = "given"
      /\ gathered' \in {"none", "done"}
  BY DEF RemoteDescriptionSet, Dispatched, IInv, TypeOK
<1>3. /\ exchangeDone' = exchangeDone \/ exchangeDone' = TRUE
      /\ iceComplete' \in BOOLEAN
      /\ loop' \in {"reading", "sending", "ended"}
  BY DEF RemoteDescriptionSet, IInv, TypeOK
<1>4. /\ final' \in {final, "done"} /\ (final # "none" => final' = final)
      /\ final' # final => callUuid = "given" /\ (exchangeDone' = TRUE \/ gathered' = "done")
  BY DEF RemoteDescriptionSet, Final, MaySend
<1>5. Channel!TypeOK'
  BY <1>1, ChanType, ChanTypeNext DEF IInv, TypeOK, chanVars, ChanTypeOK
<1>6. exchangeDone' \in BOOLEAN /\ (exchangeDone => exchangeDone')
  <2>1. exchangeDone' \in BOOLEAN
    BY <1>3 DEF IInv, TypeOK
  <2>2. exchangeDone => exchangeDone'
    BY <1>3, Zenon
  <2> QED
    BY <2>1, <2>2
<1>7. candidate' \in [Candidates -> {"none", "waiting", "sent", "dropped"}]
  BY <1>2
<1>8. TypeOK'
  BY <1>1, <1>2, <1>3, <1>4, <1>5, <1>6, <1>7 DEF IInv, TypeOK, dialVars
<1>9. /\ InitThenRemote' /\ UpdatesHaveUuid' /\ ConnectedHasRemote' /\ NothingWaits'
      /\ CandidatesFollowInit'
  BY <1>1, <1>2, <1>3, <1>4 DEF IInv, InitThenRemote, UpdatesHaveUuid, ConnectedHasRemote,
     NothingWaits, CandidatesFollowInit
<1>10. ReadyEndsExchange'
  BY <1>1, <1>4, <1>6 DEF IInv, ReadyEndsExchange, chanVars
<1>11. DoneIsLate'
  BY <1>1, <1>4 DEF IInv, DoneIsLate
<1> QED
  BY <1>8, <1>9, <1>10, <1>11 DEF IInv

LEMMA Inductive == IInv /\ [Next]_vars => IInv'
<1> SUFFICES ASSUME IInv, [Next]_vars PROVE IInv'
  OBVIOUS
<1>1. CASE DialStep \/ TimedOut \/ ChannelEnds \/ UNCHANGED vars
  BY <1>1, DialInductive
<1>2. CASE LoopStep \/ CallEnds
  BY <1>2, ReadingInductive, RemoteInductive DEF LoopStep
<1>3. CASE IceConnects \/ ChannelOpens
  BY <1>3, OpeningInductive
<1>4. CASE GatheringEnds \/ \E k \in Candidates : Gathers(k)
  BY <1>4, GatheringInductive
<1> QED
  BY <1>1, <1>2, <1>3, <1>4 DEF Next, Browser

(* Every state of a dial satisfies IInv. *)
THEOREM Invariance == Spec => []IInv
  BY InitIInv, Inductive, PTL DEF Spec

(* Every state has its type, for any set of candidates. *)
THEOREM TypeCorrect == Spec => []TypeOK
  BY Invariance, PTL DEF IInv

(* However early the browser gathers, a candidate is sent for a known call.   *)
THEOREM CandidatesWait == Spec => []CandidatesFollowInit
  BY Invariance, PTL DEF IInv

-----------------------------------------------------------------------------
(* Of the done and error updates only the first is sent. *)
LEMMA FinalStep ==
  ASSUME IInv, [Next]_vars, final # "none"
  PROVE  final' = final
<1>1. CASE InitResponse
  <2>1. haveInit
    BY DEF IInv, InitThenRemote, UpdatesHaveUuid
  <2> QED
    BY <1>1, <2>1 DEF InitResponse, Refuse, Final, MaySend
<1> QED
  BY <1>1 DEF Next, DialStep, LoopStep, Browser, Offer, OfferFails, DialFails, DialConnects, GiveUp,
     TimedOut, IceConnects, ChannelOpens, ChannelEnds, Gathers, GatheringEnds,
     RemoteDescriptionSet, UpdateResponse, CandidateAdded, UpdateSent, CallEnds, LoopEnds,
     OnReady, Refuse, Final, MaySend, doneVars, vars

(* A step that leaves the channel ready in an exchange with a uuid: it was    *)
(* announced before, or an error was sent before, or the ready handler of     *)
(* this step announces it.                                                    *)
LEMMA AnnouncedStep ==
  ASSUME IInv, [Next]_vars, ready' = "resolved", callUuid' = "given"
  PROVE  final' = "done" \/ final = "error"
<1>1. CASE ChannelOpens
  <2>1. callUuid = "given"
    BY <1>1 DEF ChannelOpens, loopVars
  <2>2. CASE ready = "pending"
    BY <1>1, <2>1, <2>2 DEF ChannelOpens, OnReady, Final, MaySend, IInv, TypeOK
  <2>3. CASE ready # "pending"
    <3>1. ready = "resolved" /\ final' = final
      BY <1>1, <2>3 DEF ChannelOpens, Channel!OnChannelOpen, doneVars
    <3> QED
      BY <2>1, <3>1 DEF IInv, ReadyEndsExchange, TypeOK
  <2> QED
    BY <2>2, <2>3
<1>2. CASE ~ChannelOpens
  <2>1. ready = "resolved"
    <3>1. CASE IceConnects
      BY <3>1 DEF IceConnects, chanVars
    <3>2. CASE ~IceConnects
      <4>1. ChanEnding
        BY <1>2, <3>2 DEF Next, DialStep, LoopStep, Browser, Offer, OfferFails, DialFails,
           DialConnects, GiveUp, TimedOut, Terminate, ChannelEnds, Gathers, GatheringEnds,
           InitResponse, RemoteDescriptionSet, UpdateResponse, CandidateAdded, UpdateSent,
           CallEnds, LoopEnds, ChanEnding, vars
      <4> QED
        BY <4>1, ChanEndingStep, ChanType DEF IInv, TypeOK
    <3> QED
      BY <3>1, <3>2
  <2>2. callUuid = "given"
    BY <2>1 DEF IInv, ReadyEndsExchange, Next, DialStep, LoopStep, Browser, Offer, OfferFails,
       DialFails, DialConnects, GiveUp, TimedOut, IceConnects, ChannelOpens, ChannelEnds, Gathers,
       GatheringEnds, InitResponse, RemoteDescriptionSet, UpdateResponse, CandidateAdded,
       UpdateSent, CallEnds, LoopEnds, loopVars, vars
  <2>3. final \in {"done", "error"}
    BY <2>1, <2>2 DEF IInv, ReadyEndsExchange, TypeOK
  <2> QED
    BY <2>3, FinalStep
<1> QED
  BY <1>1, <1>2

(* A ready channel is announced to the other peer: by its ready handler, which *)
(* always finds the uuid there is, or by the done sent before.                 *)
THEOREM ReadyAnnounced == Spec => ReadyIsAnnounced
<1>1. IInv /\ [Next]_vars =>
        [ready' = "resolved" /\ callUuid' = "given" => final' = "done" \/ final = "error"]_vars
  BY AnnouncedStep
<1> QED
  BY <1>1, Invariance, PTL DEF Spec, ReadyIsAnnounced

(* After done the exchange is over or gathering is: no candidate goes out.    *)
LEMMA DoneStep ==
  ASSUME IInv, [Next]_vars, NEW k \in Candidates, final = "done", candidate'[k] = "sent"
  PROVE  candidate[k] = "sent"
<1>1. remoteSet /\ (exchangeDone \/ gathered = "done")
  BY DEF IInv, DoneIsLate
<1>2. ~RemoteDescriptionSet
  BY <1>1 DEF RemoteDescriptionSet, IInv, InitThenRemote
<1>3. ASSUME NEW j \in Candidates, Gathers(j) PROVE candidate[k] = "sent"
  BY <1>1, <1>3 DEF Gathers, LocalCandidate, Dispatched, DoneOrConnected, IInv, TypeOK
<1>4. CASE candidate' = candidate
  BY <1>4
<1> QED
  BY <1>2, <1>3, <1>4 DEF Next, DialStep, LoopStep, Browser, Offer, OfferFails, DialFails,
     DialConnects, GiveUp, TimedOut, IceConnects, ChannelOpens, ChannelEnds, GatheringEnds,
     InitResponse, UpdateResponse, CandidateAdded, UpdateSent, CallEnds, LoopEnds,
     iceVars, vars

(* Once done was sent no candidate follows it.                                *)
THEOREM DoneIsLast == Spec => NoCandidateAfterDone
<1>1. IInv /\ [Next]_vars =>
        [\A k \in Candidates :
            final = "done" /\ candidate'[k] = "sent" => candidate[k] = "sent"]_vars
  BY DoneStep
<1> QED
  BY <1>1, Invariance, PTL DEF Spec, NoCandidateAfterDone

LEMMA SurvivalStep ==
  ASSUME IInv, [Next]_vars, ready = "resolved", loop # "failed"
  PROVE  loop' # "failed"
<1>1. Thrown = "ended"
  BY DEF IInv, ReadyEndsExchange, Thrown, DoneOrConnected
<1> QED
  BY <1>1 DEF Next, DialStep, LoopStep, Browser, Offer, OfferFails, DialFails, DialConnects,
     GiveUp, TimedOut, IceConnects, ChannelOpens, ChannelEnds, Gathers, GatheringEnds,
     InitResponse, RemoteDescriptionSet, UpdateResponse, CandidateAdded, UpdateSent, CallEnds,
     LoopEnds, FirstInit, Refuse, loopVars, vars

(* No error of the signaling fails a dial whose channel is ready.             *)
THEOREM ReadySurvives == Spec => ReadySurvivesSignaling
<1>1. IInv /\ [Next]_vars => [ready = "resolved" /\ loop # "failed" => loop' # "failed"]_vars
  BY SurvivalStep
<1> QED
  BY <1>1, Invariance, PTL DEF Spec, ReadySurvivesSignaling

-----------------------------------------------------------------------------
(* The dial implements ClientChannel without calls. *)

(* A closed data channel has had its close event, or the event is due. *)
CloseIsDue == dc = "closed" => closeEvent # "none"

(* What any step of the dial is to its channel. *)
LEMMA ChannelMove == [Next]_vars => ChanEnding \/ Channel!OnChannelOpen
  BY DEF Next, DialStep, LoopStep, Browser, Offer, OfferFails, DialFails, DialConnects, GiveUp,
     TimedOut, Terminate, IceConnects, ChannelOpens, ChannelEnds, Gathers, GatheringEnds,
     InitResponse, RemoteDescriptionSet, UpdateResponse, CandidateAdded, UpdateSent, CallEnds,
     LoopEnds, ChanEnding, vars

LEMMA CloseStaysDue == CloseIsDue /\ [Next]_vars => CloseIsDue'
  BY ChannelMove DEF CloseIsDue, ChanEnding, chanVars, Channel!CloseTransport,
     Channel!CloseWithReason, Channel!OnICEDown, Channel!ChannelLost, Channel!OnChannelClose,
     Channel!OnChannelOpen

LEMMA ChannelStep == CloseIsDue /\ [Next]_vars => [Channel!Next]_Channel!vars
<1> SUFFICES ASSUME CloseIsDue, [Next]_vars PROVE [Channel!Next]_Channel!vars
  OBVIOUS
<1>1. CASE UNCHANGED chanVars
  BY <1>1 DEF chanVars, Channel!vars, Channel!chanVars, Channel!mapVars, Channel!respVars
<1>2. CASE Channel!CloseTransport /\ UNCHANGED <<closed, ready>>
  <2>1. CASE dc = "closed"
    BY <1>1, <1>2, <2>1 DEF CloseIsDue, Channel!CloseTransport, chanVars
  <2>2. CASE dc # "closed"
    <3>1. Channel!ChannelLost
      BY <1>2, <2>2 DEF Channel!ChannelLost, Channel!mapVars, Channel!respVars
    <3> QED
      BY <3>1 DEF Channel!Next, Channel!Callback
  <2> QED
    BY <2>1, <2>2
<1> QED
  BY <1>1, <1>2, ChannelMove DEF ChanEnding, Channel!Next, Channel!Callback

LEMMA ChannelInit == Init => Channel!Init /\ CloseIsDue
  BY DEF Init, Channel!Init, Channel!Calls, Channel!NoId, CloseIsDue

(* Whatever the dial does to its data channel is a behaviour of ClientChannel. *)
THEOREM ImplementsChannel == Spec => ChannelSpec
<1>1. Spec => []CloseIsDue
  BY ChannelInit, CloseStaysDue, PTL DEF Spec
<1> QED
  BY <1>1, ChannelInit, ChannelStep, PTL DEF Spec, ChannelSpec, Channel!Spec

-----------------------------------------------------------------------------
(* That a dial can always go on: a timer that fired leaves the channel        *)
(* closed, who closes the channel settles ready, and from the offer on there  *)
(* is a call with a loop that reads it.                                       *)
FiredCloses == timer = "fired" => closed

OfferHasCall == phase = "exchange" => call # "none" /\ loop # "none"

GoesOn == Channel!ClosedReleasesReady /\ FiredCloses /\ OfferHasCall

LEMMA ReleasesStep ==
  ASSUME ChanTypeOK, Channel!ClosedReleasesReady, ChanEnding \/ Channel!OnChannelOpen
  PROVE  Channel!ClosedReleasesReady' /\ (closed => closed')
  BY DEF ChanTypeOK, Channel!ClosedReleasesReady, ChanEnding, chanVars, Channel!CloseTransport,
         Channel!CloseWithReason, Channel!OnICEDown, Channel!ChannelLost, Channel!OnChannelClose,
         Channel!OnConnectionTerminated, Channel!Reject, Channel!OnChannelOpen

LEMMA GoesOnInductive == IInv /\ GoesOn /\ [Next]_vars => GoesOn'
<1> SUFFICES ASSUME IInv, GoesOn, [Next]_vars PROVE GoesOn'
  OBVIOUS
<1>1. Channel!ClosedReleasesReady' /\ (closed => closed')
  BY ChannelMove, ReleasesStep, ChanType DEF IInv, TypeOK, GoesOn
<1>2. FiredCloses'
  <2>1. CASE TimedOut
    BY <2>1, Zenon DEF TimedOut, Terminate, Channel!CloseWithReason, FiredCloses, chanVars
  <2>2. CASE ~TimedOut
    <3>1. timer' = "fired" => timer = "fired"
      BY <2>2 DEF Next, DialStep, LoopStep, Browser, Offer, OfferFails, DialFails, DialConnects,
         GiveUp, IceConnects, ChannelOpens, ChannelEnds, Gathers, GatheringEnds, InitResponse,
         RemoteDescriptionSet, UpdateResponse, CandidateAdded, UpdateSent, CallEnds, LoopEnds,
         dialVars, vars
    <3> QED
      BY <1>1, <3>1 DEF GoesOn, FiredCloses
  <2> QED
    BY <2>1, <2>2
<1>3. OfferHasCall'
  BY DEF IInv, TypeOK, GoesOn, OfferHasCall, Next, DialStep, LoopStep, Browser, Offer, OfferFails,
         DialFails, DialConnects, GiveUp, TimedOut, IceConnects, ChannelOpens, ChannelEnds, Gathers,
         GatheringEnds, InitResponse, RemoteDescriptionSet, UpdateResponse, CandidateAdded,
         UpdateSent, CallEnds, LoopEnds, FirstInit, Refuse, Thrown, dialVars, loopVars, vars
<1> QED
  BY <1>1, <1>2, <1>3 DEF GoesOn

LEMMA GoesOnAlways == Spec => [](IInv /\ GoesOn)
<1>1. Init => GoesOn
  BY DEF Init, GoesOn, Channel!ClosedReleasesReady, FiredCloses, OfferHasCall
<1> QED
  BY <1>1, GoesOnInductive, Invariance, PTL DEF Spec

(* As long as the channel may become ready, the timer of the dial runs, if it *)
(* was not disabled.                                                          *)
THEOREM TimerGuardsReady == Spec => []PendingIsTimed
<1>1. IInv /\ GoesOn => PendingIsTimed
  BY DEF IInv, TypeOK, GoesOn, FiredCloses, Channel!ClosedReleasesReady, PendingIsTimed
<1> QED
  BY <1>1, GoesOnAlways, PTL

(* No dial gets stuck, in whatever order signaling, ICE, the timer and the    *)
(* channel's events come, unless it has no timer and waits for its channel:   *)
(* the part of DialEnds that needs no fairness.                               *)
THEOREM DialGoesOn == Spec => []NeverStuck
<1>1. IInv /\ GoesOn => NeverStuck
  <2> SUFFICES ASSUME IInv, GoesOn, phase = "exchange", timer # "armed", loop \in {"ended", "failed"},
                      ~(timer = "disabled" /\ ready = "pending")
               PROVE  Decided
    BY DEF IInv, TypeOK, GoesOn, OfferHasCall, NeverStuck
  <2>1. ready # "pending"
    BY DEF IInv, TypeOK, GoesOn, FiredCloses, Channel!ClosedReleasesReady
  <2>2. ready \in {"resolved", "rejected"}
    BY <2>1, ChanType DEF IInv, TypeOK, ChanTypeOK
  <2> QED
    BY <2>2 DEF Decided, Rejected, Fulfilled
<1> QED
  BY <1>1, GoesOnAlways, PTL

-----------------------------------------------------------------------------
(* The options are the application's, and each attempt uses its own of them. *)
UsedOptions == IF via = "webrtc" THEN SignalingExchangeOpts(opts) ELSE opts

Bought(o) == ExternalAuth(o) /\ (o.token # "undefined" \/ o.creds # NoCredentials)

AttemptUses ==
    stage \in {"authenticate", "authenticateTo", "config", "dialed"} => used = UsedOptions

(* External authentication is asked for the entity it is wanted for, and what *)
(* it answers is the bearer of everything that is sent from then on.          *)
ExternalIsAsked ==
    stage = "authenticateTo" => sent.at = used.ext /\ sent.entity = used.extTo

BearerIsBought ==
    stage \in {"config", "dialed"} /\ Bought(used) => bearer = [by |-> used.ext, to |-> used.extTo]

(* The inductive invariant: what a call carries was decided two requests ago, *)
(* so it is followed through each of them.                                    *)
OptionsInv ==
    /\ opts \in Options
    /\ AttemptUses
    /\ ExternalIsAsked
    /\ BearerIsBought
    /\ CallsCarryExternalToken
    /\ CredentialsReachTheirServer

-----------------------------------------------------------------------------
(* What a first request or a transport leaves of the invariant: the options   *)
(* of the attempt are settled, and it sends no call.                          *)
LEMMA MadeStep ==
  ASSUME NEW v, NEW b, TransportMade(v, b), via' = v, opts' = opts, opts \in Options,
         used' = UsedOptions',
         Bought(used') => b = [by |-> used'.ext, to |-> used'.extTo]
  PROVE  OptionsInv'
<1>1. /\ bearer' = b /\ stage' \in {"config", "dialed"}
      /\ sent'.kind \in {"config", "none"}
      /\ sent'.kind = "config" => v = "webrtc" /\ sent'.bearer = b
  <2>1. CASE v = "webrtc"
    <3>1. /\ bearer' = b /\ stage' = "config"
          /\ sent' = [kind |-> "config", at |-> Signaling, entity |-> "",
                      creds |-> NoCredentials, bearer |-> b]
      BY <2>1 DEF TransportMade, Request
    <3> QED
      BY <2>1, <3>1
  <2>2. CASE v # "webrtc"
    <3>1. bearer' = b /\ stage' = "dialed" /\ sent' = NoRequest
      BY <2>2 DEF TransportMade
    <3> QED
      BY <3>1 DEF NoRequest
  <2> QED
    BY <2>1, <2>2
<1>2. CallsCarryExternalToken'
  <2>1. ASSUME sent'.kind = "config", IsSet(opts'.sigExt), IsSet(opts'.sigExtTo), ~IsSet(opts'.token),
               \/ opts'.token = "" \/ opts'.sigToken # "undefined"
               \/ opts'.sigCreds # NoCredentials
        PROVE  sent'.bearer = [by |-> opts'.sigExt, to |-> opts'.sigExtTo]
    <3>1. used' = SignalingExchangeOpts(opts')
      BY <1>1, <2>1 DEF UsedOptions
    <3>2. used'.ext = opts'.sigExt /\ used'.extTo = opts'.sigExtTo /\ Bought(used')
      <4>1. /\ used'.ext = opts'.sigExt /\ used'.extTo = opts'.sigExtTo
            /\ used'.token = IF opts'.token = "undefined" THEN opts'.sigToken ELSE opts'.token
            /\ opts'.token = "undefined" => used'.creds = opts'.sigCreds
        BY <3>1, OptionsAssumption DEF SignalingExchangeOpts
      <4>2. opts'.token \in {"undefined", ""}
        BY <2>1 DEF IsSet
      <4> QED
        BY <2>1, <4>1, <4>2 DEF Bought, ExternalAuth
    <3> QED
      BY <1>1, <2>1, <3>2
  <2> QED
    BY <1>1, <2>1 DEF CallsCarryExternalToken
<1> QED
  BY <1>1, <1>2 DEF OptionsInv, AttemptUses, ExternalIsAsked, BearerIsBought,
         CredentialsReachTheirServer

LEMMA AskExternalStep ==
  ASSUME NEW t, AuthenticateTo(used', t), opts' = opts, opts \in Options,
         used' = UsedOptions'
  PROVE  OptionsInv'
<1>1. /\ stage' = "authenticateTo" /\ sent'.kind = "authenticateTo"
      /\ sent'.at = used'.ext /\ sent'.entity = used'.extTo
  BY DEF AuthenticateTo, Request
<1> QED
  BY <1>1 DEF OptionsInv, AttemptUses, ExternalIsAsked, BearerIsBought, CallsCarryExternalToken,
         CredentialsReachTheirServer

(* An attempt that is refused sends nothing.                                  *)
LEMMA RefusedStep ==
  ASSUME Refused, opts' = opts, opts \in Options
  PROVE  OptionsInv'
<1>1. stage' = "refused" /\ sent'.kind = "none"
  BY DEF Refused, NoRequest
<1> QED
  BY <1>1 DEF OptionsInv, AttemptUses, ExternalIsAsked, BearerIsBought, CallsCarryExternalToken,
         CredentialsReachTheirServer

(* dialDirect, up to its first request, for either way of dialling.           *)
LEMMA DialDirectStep ==
  ASSUME NEW v \in {"webrtc", "direct"}, NEW a, NEW e, via' = v, opts' = opts, opts \in Options,
         used' = UsedOptions', DialDirect(v, a, used', e)
  PROVE  OptionsInv'
<1>1. CASE Contradicts(used')
  BY <1>1, RefusedStep DEF DialDirect
<1>2. CASE ~Contradicts(used') /\ IsSet(used'.token) /\ ExternalAuth(used')
  <2>1. AuthenticateTo(used', Given(used'.token))
    BY <1>2 DEF DialDirect
  <2> QED
    BY <2>1, AskExternalStep
<1>3. CASE ~Contradicts(used') /\ IsSet(used'.token) /\ ~ExternalAuth(used')
  <2>1. TransportMade(v, Given(used'.token))
    BY <1>3 DEF DialDirect
  <2> QED
    BY <1>3, <2>1, MadeStep DEF Bought
<1>4. CASE /\ ~Contradicts(used') /\ ~IsSet(used'.token)
           /\ used'.creds = NoCredentials /\ used'.token = "undefined"
  <2>1. TransportMade(v, NoToken)
    BY <1>4 DEF DialDirect
  <2> QED
    BY <1>4, <2>1, MadeStep DEF Bought
<1>5. CASE /\ ~Contradicts(used') /\ ~IsSet(used'.token)
           /\ ~(used'.creds = NoCredentials /\ used'.token = "undefined")
  <2>1. stage' = "authenticate" /\ sent'.kind = "authenticate" /\ sent'.creds = used'.creds
    <3>1. /\ stage' = "authenticate"
          /\ \E at, entity : Request("authenticate", at, entity, used'.creds, NoToken)
      BY <1>5 DEF DialDirect
    <3> QED
      BY <3>1 DEF Request
  <2>2. CredentialsReachTheirServer'
    <3>1. CASE via' = "direct"
      BY <2>1, <3>1 DEF UsedOptions, CredentialsReachTheirServer
    <3>2. CASE via' = "webrtc" /\ opts'.token = "undefined"
      <4>1. UsedOptions'.creds = opts'.sigCreds
        BY <3>2, OptionsAssumption DEF UsedOptions, SignalingExchangeOpts
      <4> QED
        BY <2>1, <3>2, <4>1 DEF CredentialsReachTheirServer
    <3>3. CASE via' = "webrtc" /\ opts'.token # "undefined"
      <4>1. UsedOptions'.token = opts'.token
        BY <3>3, OptionsAssumption DEF UsedOptions, SignalingExchangeOpts
      <4>2. opts'.token = ""
        BY <1>5, <3>3, <4>1 DEF IsSet
      <4> QED
        BY <3>3, <4>2 DEF CredentialsReachTheirServer
    <3> QED
      BY <3>1, <3>2, <3>3
  <2> QED
    BY <2>1, <2>2 DEF OptionsInv, AttemptUses, ExternalIsAsked, BearerIsBought,
           CallsCarryExternalToken
<1> QED
  BY <1>1, <1>2, <1>3, <1>4, <1>5

-----------------------------------------------------------------------------
LEMMA OptionsInitInv == OptionsInit => OptionsInv
<1> SUFFICES ASSUME OptionsInit PROVE OptionsInv
  OBVIOUS
<1>1. opts \in Options /\ stage = "idle" /\ sent.kind = "none"
  BY DEF OptionsInit, NoRequest
<1> QED
  BY <1>1 DEF OptionsInv, AttemptUses, ExternalIsAsked, BearerIsBought, CallsCarryExternalToken,
         CredentialsReachTheirServer

(* The application's own header gives way to the bearer there is.             *)
LEMMA CallIInv ==
  ASSUME OptionsInv, Call
  PROVE  OptionsInv'
<1>1. PICK own : Request("call", Robot, "", NoCredentials, Headers(own))
  BY DEF Call
<1>2. /\ UNCHANGED <<opts, via, used, stage, bearer>> /\ stage = "dialed" /\ via = "direct"
      /\ sent'.kind = "call" /\ sent'.bearer = Headers(own)
  BY <1>1 DEF Call, Request, attemptVars
<1>3. CallsCarryExternalToken'
  <2>1. ASSUME IsSet(opts.ext), IsSet(opts.extTo),
               opts.token # "undefined" \/ opts.creds # NoCredentials
        PROVE  sent'.bearer = [by |-> opts.ext, to |-> opts.extTo]
    <3>1. used = opts /\ Bought(used)
      BY <1>2, <2>1 DEF OptionsInv, AttemptUses, UsedOptions, Bought, ExternalAuth
    <3>2. bearer = [by |-> opts.ext, to |-> opts.extTo]
      BY <1>2, <3>1 DEF OptionsInv, BearerIsBought
    <3>3. bearer.by # NoToken.by
      BY <3>2, OptionsAssumption DEF OptionsInv, NoToken
    <3> QED
      BY <1>2, <3>2, <3>3 DEF Headers
  <2> QED
    BY <1>2, <2>1 DEF CallsCarryExternalToken
<1> QED
  BY <1>2, <1>3 DEF OptionsInv, AttemptUses, ExternalIsAsked, BearerIsBought, UsedOptions,
         CredentialsReachTheirServer

LEMMA AnswerIInv ==
  ASSUME OptionsInv, Authenticated \/ AuthenticatedTo
  PROVE  OptionsInv'
<1> USE DEF OptionsInv, attemptVars
<1>1. used = UsedOptions /\ used' = UsedOptions' /\ opts' = opts /\ via' = via
  BY DEF Authenticated, AuthenticatedTo, AttemptUses, UsedOptions
<1>2. CASE Authenticated
  <2> DEFINE t == [by |-> sent.at, to |-> sent.entity]
  <2>1. CASE ExternalAuth(used)
    BY <1>1, <1>2, <2>1, AskExternalStep DEF Authenticated
  <2>2. CASE ~ExternalAuth(used)
    <3>1. TransportMade(via', t) /\ used' = used
      BY <1>1, <1>2, <2>2 DEF Authenticated
    <3> QED
      BY <1>1, <2>2, <3>1, MadeStep DEF Bought
  <2> QED
    BY <2>1, <2>2
<1>3. CASE AuthenticatedTo
  <2>1. sent.at = used.ext /\ sent.entity = used.extTo /\ used' = used
    BY <1>3 DEF AuthenticatedTo, ExternalIsAsked
  <2>2. TransportMade(via', [by |-> used'.ext, to |-> used'.extTo])
    BY <1>1, <1>3, <2>1 DEF AuthenticatedTo
  <2> QED
    BY <1>1, <2>2, MadeStep
<1> QED
  BY <1>2, <1>3

LEMMA BeginIInv ==
  ASSUME OptionsInv, BeginDirect \/ BeginWebRTC
  PROVE  OptionsInv'
<1>1. opts' = opts /\ opts \in Options
  BY DEF BeginDirect, BeginWebRTC, Begin, OptionsInv
<1>2. CASE BeginDirect
  <2>1. via' = "direct" /\ used' = opts /\ DialDirect("direct", Robot, opts, authEntity)
    BY <1>2 DEF BeginDirect, Begin
  <2>2. used' = UsedOptions'
    BY <1>1, <2>1 DEF UsedOptions
  <2>3. DialDirect("direct", Robot, used', authEntity)
    BY <2>1
  <2> QED
    BY <1>1, <2>1, <2>2, <2>3, DialDirectStep
<1>3. CASE BeginWebRTC
  <2>1. via' = "webrtc"
    BY <1>3 DEF BeginWebRTC, Begin
  <2>2. CASE Contradicts(opts)
    BY <1>1, <1>3, <2>2, RefusedStep DEF BeginWebRTC
  <2>3. CASE ~Contradicts(opts)
    <3>1. /\ used' = SignalingExchangeOpts(opts)
          /\ DialDirect("webrtc", Signaling, SignalingExchangeOpts(opts), FilledEntity(opts))
      BY <1>3, <2>3 DEF BeginWebRTC
    <3>2. used' = UsedOptions'
      BY <1>1, <2>1, <3>1 DEF UsedOptions
    <3>3. DialDirect("webrtc", Signaling, used', FilledEntity(opts))
      BY <3>1
    <3> QED
      BY <1>1, <2>1, <3>2, <3>3, DialDirectStep
  <2> QED
    BY <2>2, <2>3
<1> QED
  BY <1>2, <1>3

LEMMA RestIInv ==
  ASSUME OptionsInv, Configured \/ RequestFails \/ UNCHANGED optionsVars
  PROVE  OptionsInv'
<1>1. UNCHANGED <<opts, via, used, bearer, sent>>
  BY DEF Configured, RequestFails, optionsVars, attemptVars
<1>2. stage' = stage \/ stage' = "failed" \/ (stage = "config" /\ stage' = "dialed")
  BY DEF Configured, RequestFails, optionsVars
<1> QED
  BY <1>1, <1>2 DEF OptionsInv, AttemptUses, UsedOptions, ExternalIsAsked, BearerIsBought,
         CallsCarryExternalToken, CredentialsReachTheirServer

LEMMA OptionsInductive == OptionsInv /\ [OptionsNext]_optionsVars => OptionsInv'
  BY BeginIInv, AnswerIInv, CallIInv, RestIInv DEF OptionsNext

(* The inductive invariant holds in every reachable state. *)
THEOREM OptionsInvariance == OptionsSpec => []OptionsInv
<1>1. OptionsInit => OptionsInv
  BY OptionsInitInv
<1>2. OptionsInv /\ [OptionsNext]_optionsVars => OptionsInv'
  BY OptionsInductive
<1> QED
  BY <1>1, <1>2, PTL DEF OptionsSpec

(* What calls carry is the token of the external service, if one was asked    *)
(* for and no access token was given (makeAuthenticatedTransport,             *)
(* AuthenticatedTransport).                                                   *)
THEOREM ExternalTokenIsUsed == OptionsSpec => []CallsCarryExternalToken
<1>1. OptionsInv => CallsCarryExternalToken
  BY DEF OptionsInv
<1> QED
  BY <1>1, OptionsInvariance, PTL

(* Neither server is shown the credentials for the other, unless the access   *)
(* token is an empty string (processSignalingExchangeOpts).                   *)
THEOREM CredentialsAreSeparate == OptionsSpec => []CredentialsReachTheirServer
<1>1. OptionsInv => CredentialsReachTheirServer
  BY DEF OptionsInv
<1> QED
  BY <1>1, OptionsInvariance, PTL

-----------------------------------------------------------------------------
(* The type invariant, with what a request is sent to and with. *)
Servers == {Robot, Signaling, opts.ext, opts.sigExt}

Origins == {"nobody", "application", Robot, Signaling, opts.ext, opts.sigExt}

SentKept ==
    /\ sent.bearer.by \in Origins
    /\ sent.creds \in Credentials \union {NoCredentials}
    /\ stage \in {"authenticate", "authenticateTo"} => sent.at \in Servers

TokensKept == token.by \in Origins /\ bearer.by \in Origins

TInv ==
    /\ opts \in Options
    /\ OptionsTypeOK /\ SentKept /\ TokensKept
    /\ used.ext \in {opts.ext, opts.sigExt}
    /\ used.creds \in Credentials \union {NoCredentials}

(* What any step that makes a request or a transport leaves. *)
Sends ==
    /\ stage' \in {"refused", "authenticate", "authenticateTo", "config", "dialed"}
    /\ token'.by \in Origins /\ bearer'.by \in Origins
    /\ sent'.bearer.by \in Origins
    /\ sent'.creds \in Credentials \union {NoCredentials}
    /\ stage' \in {"authenticate", "authenticateTo"} => sent'.at \in Servers

LEMMA TransportSends ==
  ASSUME NEW v, NEW b, b.by \in Origins, TransportMade(v, b), token'.by \in Origins
  PROVE  Sends
<1>1. CASE v = "webrtc"
  <2>1. /\ bearer' = b /\ stage' = "config"
        /\ sent' = [kind |-> "config", at |-> Signaling, entity |-> "",
                    creds |-> NoCredentials, bearer |-> b]
    BY <1>1 DEF TransportMade, Request
  <2> QED
    BY <2>1 DEF Sends
<1>2. CASE v # "webrtc"
  <2>1. bearer' = b /\ stage' = "dialed" /\ sent' = NoRequest
    BY <1>2 DEF TransportMade
  <2>2. sent'.bearer.by = "nobody" /\ sent'.creds = NoCredentials
    BY <2>1 DEF NoRequest, NoToken
  <2> QED
    BY <2>1, <2>2 DEF Sends, Origins
<1> QED
  BY <1>1, <1>2

LEMMA AskSends ==
  ASSUME NEW o, NEW t, o.ext \in {opts.ext, opts.sigExt}, t.by \in Origins, AuthenticateTo(o, t)
  PROVE  Sends
<1>1. /\ stage' = "authenticateTo" /\ token' = t /\ bearer' = NoToken
      /\ sent' = [kind |-> "authenticateTo", at |-> o.ext, entity |-> o.extTo,
                  creds |-> NoCredentials, bearer |-> t]
  BY DEF AuthenticateTo, Request
<1>2. bearer'.by = "nobody" /\ sent'.at = o.ext /\ sent'.creds = NoCredentials /\ sent'.bearer = t
  BY <1>1 DEF NoToken
<1> QED
  BY <1>1, <1>2 DEF Sends, Origins, Servers

LEMMA DialSends ==
  ASSUME NEW v, NEW a \in {Robot, Signaling}, NEW o, NEW e,
         o.ext \in {opts.ext, opts.sigExt}, o.creds \in Credentials \union {NoCredentials},
         DialDirect(v, a, o, e)
  PROVE  Sends
<1>1. NoToken.by = "nobody" /\ \A t : Given(t).by = "application"
  BY DEF NoToken, Given
<1>2. \A t : Given(t).by \in Origins
  BY <1>1 DEF Origins
<1>3. NoToken.by \in Origins
  BY <1>1 DEF Origins
<1>4. CASE Contradicts(o)
  <2>1. stage' = "refused" /\ sent' = NoRequest /\ token' = NoToken /\ bearer' = NoToken
    BY <1>4 DEF DialDirect, Refused, NoTokens
  <2> QED
    BY <1>3, <2>1 DEF Sends, NoRequest
<1>5. CASE ~Contradicts(o) /\ IsSet(o.token) /\ ExternalAuth(o)
  <2>1. AuthenticateTo(o, Given(o.token))
    BY <1>5 DEF DialDirect
  <2> QED
    BY <1>2, <2>1, AskSends
<1>6. CASE ~Contradicts(o) /\ IsSet(o.token) /\ ~ExternalAuth(o)
  <2>1. TransportMade(v, Given(o.token)) /\ token' = NoToken
    BY <1>6 DEF DialDirect
  <2> QED
    BY <1>2, <1>3, <2>1, TransportSends
<1>7. CASE /\ ~Contradicts(o) /\ ~IsSet(o.token)
           /\ o.creds = NoCredentials /\ o.token = "undefined"
  <2>1. TransportMade(v, NoToken) /\ token' = NoToken
    BY <1>7 DEF DialDirect
  <2> QED
    BY <1>3, <2>1, TransportSends
<1>8. CASE /\ ~Contradicts(o) /\ ~IsSet(o.token)
           /\ ~(o.creds = NoCredentials /\ o.token = "undefined")
  <2>1. /\ stage' = "authenticate" /\ token' = NoToken /\ bearer' = NoToken
        /\ \E entity : Request("authenticate", IF o.ext = "undefined" THEN a ELSE o.ext, entity,
                               o.creds, NoToken)
    BY <1>8 DEF DialDirect, NoTokens
  <2>2. /\ sent'.at = (IF o.ext = "undefined" THEN a ELSE o.ext)
        /\ sent'.creds = o.creds /\ sent'.bearer = NoToken
    BY <2>1 DEF Request
  <2>3. sent'.at \in Servers
    BY <2>2 DEF Servers
  <2> QED
    BY <1>3, <2>1, <2>2, <2>3 DEF Sends
<1> QED
  BY <1>4, <1>5, <1>6, <1>7, <1>8

(* The rest of a step that sends. *)
LEMMA SendStep ==
  ASSUME TInv, Sends, opts' = opts, via' \in {"webrtc", "direct"},
         authEntity' \in [Credentials -> STRING \union {Signaling}], iceConfig' = iceConfig, dials' \in 0 .. MaxDials,
         used'.ext \in {opts.ext, opts.sigExt},
         used'.creds \in Credentials \union {NoCredentials}
  PROVE  TInv'
<1>1. Servers' = Servers /\ Origins' = Origins
  BY DEF Servers, Origins
<1>2. SentKept' /\ TokensKept'
  BY <1>1 DEF Sends, SentKept, TokensKept
<1>3. OptionsTypeOK'
  BY <1>1 DEF TInv, OptionsTypeOK, Sends, Origins
<1> QED
  BY <1>2, <1>3 DEF TInv

LEMMA InitTInv == OptionsInit => TInv
<1> SUFFICES ASSUME OptionsInit PROVE TInv
  OBVIOUS
<1>1. opts \in Options /\ used = opts /\ authEntity \in [Credentials -> STRING \union {Signaling}] /\ dials = 0
      /\ stage = "idle" /\ via = "direct" /\ sent = NoRequest /\ token = NoToken
      /\ bearer = NoToken /\ iceConfig = NoIce
  BY GivenEntityAssumption DEF OptionsInit
<1>2. /\ token.by = "nobody" /\ bearer.by = "nobody" /\ sent.bearer.by = "nobody"
      /\ sent.creds = NoCredentials /\ iceConfig.policy = "all"
  BY <1>1 DEF NoRequest, NoToken, NoIce
<1>3. OptionsTypeOK
  BY <1>1, <1>2, MaxDialsAssumption DEF OptionsTypeOK
<1>4. SentKept /\ TokensKept
  BY <1>1, <1>2 DEF SentKept, TokensKept, Origins
<1> QED
  BY <1>1, <1>3, <1>4, OptionsAssumption DEF TInv

LEMMA BeginTInv ==
  ASSUME TInv, BeginDirect \/ BeginWebRTC
  PROVE  TInv'
<1>1. /\ opts \in Options /\ opts' = opts /\ iceConfig' = iceConfig /\ dials' \in 0 .. MaxDials
      /\ via' \in {"webrtc", "direct"} /\ authEntity \in [Credentials -> STRING \union {Signaling}]
  BY MaxDialsAssumption DEF BeginDirect, BeginWebRTC, Begin, serverVars, TInv, OptionsTypeOK
<1>2. /\ opts.ext \in STRING /\ opts.sigExt \in STRING
      /\ opts.creds \in Credentials \union {NoCredentials}
      /\ opts.sigCreds \in Credentials \union {NoCredentials}
  BY <1>1, OptionsAssumption
<1>3. CASE BeginDirect
  <2>1. /\ used' = opts /\ authEntity' = authEntity
        /\ DialDirect("direct", Robot, opts, authEntity)
    BY <1>3 DEF BeginDirect
  <2>2. Sends
    BY <1>2, <2>1, DialSends
  <2> QED
    BY <1>1, <1>2, <2>1, <2>2, SendStep
<1>4. CASE BeginWebRTC /\ Contradicts(opts)
  <2>1. Refused /\ authEntity' = authEntity /\ used' = used
    BY <1>4 DEF BeginWebRTC
  <2>2. Sends
    BY <2>1 DEF Refused, NoTokens, Sends, NoRequest, NoToken, Origins
  <2> QED
    BY <1>1, <2>1, <2>2, SendStep DEF TInv
<1>5. CASE BeginWebRTC /\ ~Contradicts(opts)
  <2> DEFINE o == SignalingExchangeOpts(opts)
  <2>1. /\ used' = o /\ authEntity' = FilledEntity(opts)
        /\ DialDirect("webrtc", Signaling, o, FilledEntity(opts))
    BY <1>5 DEF BeginWebRTC
  <2>2. FilledEntity(opts) \in [Credentials -> STRING \union {Signaling}]
    <3>1. PICK entity \in STRING \union {Signaling} :
                entity = IF IsSet(opts.ext) THEN opts.ext ELSE Signaling
      BY <1>2
    <3>2. FilledEntity(opts) \in {authEntity, [authEntity EXCEPT ![opts.creds] = entity]}
      BY <3>1 DEF FilledEntity
    <3> QED
      BY <1>1, <3>2
  <2>3. o.ext \in {opts.ext, opts.sigExt} /\ o.creds \in Credentials \union {NoCredentials}
    BY <1>2 DEF SignalingExchangeOpts
  <2> HIDE DEF o
  <2>4. Sends
    BY <2>1, <2>3, DialSends
  <2> QED
    BY <1>1, <2>1, <2>2, <2>3, <2>4, SendStep
<1> QED
  BY <1>3, <1>4, <1>5

LEMMA AnswerTInv ==
  ASSUME TInv, Authenticated \/ AuthenticatedTo \/ Call
  PROVE  TInv'
<1>1. /\ UNCHANGED <<opts, authEntity, via, used, dials, iceConfig>>
      /\ via \in {"webrtc", "direct"} /\ authEntity \in [Credentials -> STRING \union {Signaling}]
      /\ dials \in 0 .. MaxDials /\ used.ext \in {opts.ext, opts.sigExt}
      /\ used.creds \in Credentials \union {NoCredentials} /\ opts \in Options
  BY DEF Authenticated, AuthenticatedTo, Call, attemptVars, serverVars, TInv, OptionsTypeOK
<1>2. CASE Authenticated \/ AuthenticatedTo
  <2> DEFINE t == [by |-> sent.at, to |-> sent.entity]
  <2>1. t.by \in Origins /\ token.by \in Origins
    BY <1>2 DEF Authenticated, AuthenticatedTo, TInv, SentKept, TokensKept, Servers, Origins
  <2>2. AuthenticateTo(used, t) \/ (TransportMade(via, t) /\ token' = token)
    BY <1>2 DEF Authenticated, AuthenticatedTo
  <2> HIDE DEF t
  <2>3. Sends
    BY <1>1, <2>1, <2>2, AskSends, TransportSends
  <2> QED
    BY <1>1, <2>3, SendStep
<1>3. CASE Call
  <2>1. PICK own \in {NoToken, Given("call")} : Request("call", Robot, "", NoCredentials, Headers(own))
    BY <1>3 DEF Call
  <2>2. own.by \in Origins /\ bearer.by \in Origins /\ token.by \in Origins
    BY DEF NoToken, Given, Origins, TInv, TokensKept
  <2>3. sent'.bearer = Headers(own) /\ sent'.creds = NoCredentials
    BY <2>1 DEF Request
  <2>4. UNCHANGED <<stage, token, bearer>> /\ stage = "dialed"
    BY <1>3 DEF Call
  <2>5. Sends
    BY <2>2, <2>3, <2>4 DEF Headers, Sends
  <2> QED
    BY <1>1, <2>5, SendStep
<1> QED
  BY <1>2, <1>3

LEMMA RestTInv ==
  ASSUME TInv, Configured \/ RequestFails \/ UNCHANGED optionsVars
  PROVE  TInv'
<1>1. /\ UNCHANGED <<opts, authEntity, via, used, dials, token, bearer, sent>>
      /\ stage' = stage \/ stage' \in {"dialed", "failed"}
  BY DEF Configured, RequestFails, optionsVars, attemptVars
<1>2. iceConfig'.policy \in {"all", "relay"}
  <2>1. CASE Configured
    <3>1. PICK additional : iceConfig' = IceConfig(opts, additional)
      BY <2>1 DEF Configured
    <3>2. iceConfig'.policy = IF opts.forceRelay THEN "relay" ELSE "all"
      BY <3>1 DEF IceConfig
    <3> QED
      BY <3>2
  <2>2. CASE RequestFails \/ UNCHANGED optionsVars
    BY <2>2 DEF RequestFails, optionsVars, serverVars, TInv, OptionsTypeOK
  <2> QED
    BY <2>1, <2>2
<1>3. OptionsTypeOK'
  BY <1>1, <1>2 DEF TInv, OptionsTypeOK
<1>4. SentKept' /\ TokensKept'
  BY <1>1 DEF TInv, SentKept, TokensKept, Servers, Origins
<1> QED
  BY <1>1, <1>3, <1>4 DEF TInv

(* Tokens and requests are well formed, and every token is by a server the    *)
(* options name.                                                              *)
THEOREM OptionsTypeCorrect == OptionsSpec => []OptionsTypeOK
<1>1. TInv /\ [OptionsNext]_optionsVars => TInv'
  BY BeginTInv, AnswerTInv, RestTInv DEF OptionsNext
<1>2. TInv => OptionsTypeOK
  BY DEF TInv
<1> QED
  BY <1>1, <1>2, InitTInv, PTL DEF OptionsSpec

-----------------------------------------------------------------------------
(* The entity of each credential object: the application's, or none, or what  *)
(* an attempt filled in, which it does to the robot's only.                   *)
EntityFilled ==
    \A c \in Credentials :
        \/ authEntity[c] = GivenEntity[c]
        \/ GivenEntity[c] = "" /\ c = opts.creds /\ authEntity[c] \in {Signaling, opts.ext}

LEMMA NothingIsAsked == NoRequest.kind = "none"
  BY DEF NoRequest

EntityInv == TInv /\ EntityFilled /\ EntityIsAsGiven

LEMMA FilledStep ==
  ASSUME TInv, EntityFilled, opts' = opts, authEntity' = FilledEntity(opts)
  PROVE  EntityFilled'
<1>1. authEntity \in [Credentials -> STRING \union {Signaling}]
  BY DEF TInv, OptionsTypeOK
<1>2. CASE authEntity' = authEntity
  BY <1>2 DEF EntityFilled
<1>3. CASE authEntity' # authEntity
  <2>1. PICK entity \in {Signaling, opts.ext} :
            entity = IF IsSet(opts.ext) THEN opts.ext ELSE Signaling
    OBVIOUS
  <2>2. authEntity[opts.creds] = "" /\ authEntity' = [authEntity EXCEPT ![opts.creds] = entity]
    BY <1>3, <2>1 DEF FilledEntity
  <2>3. ASSUME NEW c \in Credentials, c # opts.creds PROVE authEntity'[c] = authEntity[c]
    BY <1>1, <2>2, <2>3
  <2>4. opts.creds \in Credentials => authEntity'[opts.creds] = entity
    BY <1>1, <2>2
  <2>5. opts.creds \in Credentials => GivenEntity[opts.creds] = "" \/ entity = authEntity[opts.creds]
    BY <2>2, OptionsAssumption DEF EntityFilled, TInv
  <2> QED
    BY <2>1, <2>2, <2>3, <2>4, <2>5 DEF EntityFilled
<1> QED
  BY <1>2, <1>3

LEMMA DialEntity ==
  ASSUME NEW v, NEW o, o.creds \in Credentials \union {NoCredentials},
         EntityFilled', DialDirect(v, Address', o, authEntity')
  PROVE  EntityIsAsGiven'
<1>1. CASE Contradicts(o)
  <2>1. sent' = NoRequest
    BY <1>1 DEF DialDirect, Refused
  <2> QED
    BY <2>1, NothingIsAsked DEF EntityIsAsGiven
<1>2. ASSUME NEW b, TransportMade(v, b) PROVE EntityIsAsGiven'
  <2>1. CASE v = "webrtc"
    <3>1. sent' = [kind |-> "config", at |-> Signaling, entity |-> "",
                   creds |-> NoCredentials, bearer |-> b]
      BY <1>2, <2>1 DEF TransportMade, Request
    <3> QED
      BY <3>1 DEF EntityIsAsGiven
  <2>2. CASE v # "webrtc"
    BY <1>2, <2>2, NothingIsAsked DEF TransportMade, EntityIsAsGiven
  <2> QED
    BY <2>1, <2>2
<1>3. ASSUME NEW t, AuthenticateTo(o, t) PROVE EntityIsAsGiven'
  BY <1>3 DEF AuthenticateTo, Request, EntityIsAsGiven
<1>4. CASE /\ ~Contradicts(o) /\ ~IsSet(o.token)
           /\ ~(o.creds = NoCredentials /\ o.token = "undefined")
  <2>1. PICK at : Request("authenticate", at,
                    IF o.creds # NoCredentials /\ authEntity'[o.creds] # ""
                    THEN authEntity'[o.creds] ELSE Address', o.creds, NoToken)
    BY <1>4 DEF DialDirect
  <2>2. /\ sent'.creds = o.creds
        /\ sent'.entity = IF o.creds # NoCredentials /\ authEntity'[o.creds] # ""
                          THEN authEntity'[o.creds] ELSE Address'
    BY <2>1 DEF Request
  <2>3. CASE o.creds = NoCredentials
    BY <2>2, <2>3 DEF EntityIsAsGiven
  <2>4. CASE o.creds # NoCredentials
    <3>1. \/ authEntity'[o.creds] = GivenEntity[o.creds]
          \/ /\ GivenEntity[o.creds] = "" /\ o.creds = opts'.creds
             /\ authEntity'[o.creds] \in {Signaling, opts'.ext}
      BY <2>4 DEF EntityFilled
    <3> QED
      BY <2>2, <2>4, <3>1 DEF EntityIsAsGiven
  <2> QED
    BY <2>3, <2>4
<1>5. CASE /\ ~Contradicts(o)
           /\ IsSet(o.token) \/ (o.creds = NoCredentials /\ o.token = "undefined")
  <2>1. (\E t : AuthenticateTo(o, t)) \/ (\E b : TransportMade(v, b))
    BY <1>5 DEF DialDirect
  <2> QED
    BY <1>2, <1>3, <2>1
<1> QED
  BY <1>1, <1>4, <1>5

LEMMA EntityStep == EntityInv /\ TInv' /\ [OptionsNext]_optionsVars => EntityInv'
<1> SUFFICES ASSUME EntityInv, TInv', [OptionsNext]_optionsVars PROVE EntityInv'
  OBVIOUS
<1>1. opts' = opts /\ opts \in Options
  BY DEF EntityInv, TInv, OptionsNext, optionsVars, BeginDirect, BeginWebRTC, Begin, Authenticated,
         AuthenticatedTo, Configured, RequestFails, Call
<1>2. EntityFilled'
  <2>1. authEntity' = authEntity \/ authEntity' = FilledEntity(opts)
    BY DEF OptionsNext, optionsVars, BeginDirect, BeginWebRTC, Authenticated, AuthenticatedTo,
           Configured, RequestFails, Call
  <2>2. CASE authEntity' = authEntity
    BY <1>1, <2>2 DEF EntityInv, EntityFilled
  <2> QED
    BY <1>1, <2>1, <2>2, FilledStep DEF EntityInv
<1>3. EntityIsAsGiven'
  <2>1. CASE BeginDirect
    <3>1. via' = "direct" /\ Address' = Robot /\ authEntity' = authEntity
      BY <2>1 DEF BeginDirect, Begin, Address
    <3>2. DialDirect("direct", Address', opts, authEntity')
      BY <2>1, <3>1 DEF BeginDirect
    <3> QED
      BY <1>1, <1>2, <3>2, DialEntity, OptionsAssumption
  <2>2. CASE BeginWebRTC
    <3>1. via' = "webrtc" /\ Address' = Signaling
      BY <2>2 DEF BeginWebRTC, Begin, Address
    <3>2. CASE Contradicts(opts)
      BY <2>2, <3>2, NothingIsAsked DEF BeginWebRTC, Refused, EntityIsAsGiven
    <3>3. CASE ~Contradicts(opts)
      <4> DEFINE o == SignalingExchangeOpts(opts)
      <4>1. DialDirect("webrtc", Address', o, authEntity')
        BY <2>2, <3>1, <3>3 DEF BeginWebRTC
      <4>2. o.creds \in {opts.creds, opts.sigCreds}
        BY DEF SignalingExchangeOpts
      <4> HIDE DEF o
      <4> QED
        BY <1>1, <1>2, <4>1, <4>2, DialEntity, OptionsAssumption
    <3> QED
      BY <3>2, <3>3
  <2>3. CASE Authenticated \/ AuthenticatedTo
    <3>1. (\E o, t : AuthenticateTo(o, t)) \/ (\E v, b : TransportMade(v, b))
      BY <2>3 DEF Authenticated, AuthenticatedTo
    <3>2. ASSUME NEW o, NEW t, AuthenticateTo(o, t) PROVE sent'.kind = "authenticateTo"
      BY <3>2 DEF AuthenticateTo, Request
    <3>3. ASSUME NEW v, NEW b, TransportMade(v, b) PROVE sent'.kind \in {"config", "none"}
      <4>1. sent' = NoRequest \/ Request("config", Signaling, "", NoCredentials, b)
        BY <3>3 DEF TransportMade
      <4> QED
        <5>1. CASE sent' = NoRequest
          BY <5>1, NothingIsAsked
        <5>2. CASE Request("config", Signaling, "", NoCredentials, b)
          <6>1. sent'.kind = "config"
            BY <5>2 DEF Request
          <6> QED
            BY <6>1
        <5> QED
          BY <4>1, <5>1, <5>2
    <3> QED
      BY <3>1, <3>2, <3>3 DEF EntityIsAsGiven
  <2>4. CASE Call
    <3>1. PICK own : Request("call", Robot, "", NoCredentials, Headers(own))
      BY <2>4 DEF Call
    <3>2. sent'.kind = "call"
      BY <3>1 DEF Request
    <3> QED
      BY <3>2 DEF EntityIsAsGiven
  <2>5. CASE Configured \/ RequestFails \/ UNCHANGED optionsVars
    <3>1. UNCHANGED <<sent, via, opts>>
      BY <2>5 DEF Configured, RequestFails, attemptVars, optionsVars
    <3> QED
      BY <3>1 DEF EntityInv, EntityIsAsGiven, Address
  <2> QED
    BY <2>1, <2>2, <2>3, <2>4, <2>5 DEF OptionsNext
<1> QED
  BY <1>2, <1>3 DEF EntityInv

(* An entity the application gave its credentials is the one they are shown   *)
(* for, whatever objects its options share and whatever attempts wrote to     *)
(* them (processSignalingExchangeOpts, makeAuthenticatedTransport).           *)
THEOREM EntitiesAreAsGiven == OptionsSpec => []EntityIsAsGiven
<1>1. OptionsInit => EntityInv
  BY InitTInv, NothingIsAsked DEF OptionsInit, EntityInv, EntityFilled, EntityIsAsGiven
<1>2. TInv /\ [OptionsNext]_optionsVars => TInv'
  BY BeginTInv, AnswerTInv, RestTInv DEF OptionsNext
<1>3. EntityInv => TInv /\ EntityIsAsGiven
  BY DEF EntityInv
<1> QED
  BY <1>1, <1>2, <1>3, EntityStep, PTL DEF OptionsSpec

-----------------------------------------------------------------------------
(* What the filter makes of a server: nothing of one without TURN URIs, and of *)
(* its TURN URIs those that match turnUri.                                    *)
LEMMA FilteredPlain ==
  ASSUME NEW o, NEW s, \A u \in s : ~IsTurn(u)
  PROVE  Filtered(o, s) = s
<1>1. \A u \in s : Unparsed(u)
  BY DEF Unparsed
<1> QED
  BY <1>1 DEF Filtered

LEMMA FilteredMatches ==
  ASSUME NEW o, NEW s, NEW t, o.turnUri = {t}, NEW u \in Filtered(o, s), ~Unparsed(u)
  PROVE  u = Overridden(o, Parsed(t))
  BY DEF Filtered

LEMMA FilteredKeeps ==
  ASSUME NEW o, NEW s, NEW u \in s, ~Unparsed(u), NEW t \in o.turnUri, Parsed(u) = Parsed(t)
  PROVE  Overridden(o, Parsed(t)) \in Filtered(o, s)
  BY DEF Filtered

(* The servers of a dial that ended are those of its options and of the       *)
(* signaling server's answer.                                                *)
IceInv ==
    /\ opts \in Options
    /\ stage = "dialed" /\ via = "webrtc" => iceConfig = IceConfig(opts, named)

AllServers(o, additional) ==
    Stripped(o, o.iceServers \union {WithTcp(s) : s \in additional})

LEMMA IceServers ==
  ASSUME NEW o, NEW additional
  PROVE  IceConfig(o, additional).servers =
            IF FiltersTurn(o) THEN {Filtered(o, s) : s \in AllServers(o, additional)} \ {{}}
            ELSE AllServers(o, additional)
  BY DEF IceConfig, AllServers

(* Every server that was offered is there before the filter, with its URIs,   *)
(* unless forceP2P strips it.                                                *)
LEMMA OfferedServers ==
  ASSUME NEW o, NEW additional
  PROVE  /\ ~o.forceP2P => /\ \A s \in o.iceServers : s \in AllServers(o, additional)
                           /\ \A s \in additional : WithTcp(s) \in AllServers(o, additional)
         /\ o.forceP2P => \A s \in AllServers(o, additional) : \A u \in s : ~IsTurn(u)
         /\ \A s \in o.iceServers :
                (\A u \in s : ~IsTurn(u)) => s \in AllServers(o, additional)
  BY DEF AllServers, Stripped

LEMMA TurnOfConfig ==
  ASSUME IceInv
  PROVE  TurnIsAsAsked
<1> SUFFICES ASSUME stage = "dialed", via = "webrtc" PROVE TurnIsAsAsked
  BY DEF TurnIsAsAsked
<1> DEFINE all == AllServers(opts, named)
<1>1. iceConfig.servers = IF FiltersTurn(opts) THEN {Filtered(opts, s) : s \in all} \ {{}} ELSE all
  BY IceServers DEF IceInv
<1>2. /\ ~opts.forceP2P => /\ \A s \in opts.iceServers : s \in all
                           /\ \A s \in named : WithTcp(s) \in all
      /\ opts.forceP2P => \A s \in all : \A u \in s : ~IsTurn(u)
  BY OfferedServers
<1> HIDE DEF all
<1>3. ASSUME opts.forceP2P, NEW u \in Urls PROVE ~IsTurn(u)
  <2>1. PICK s \in iceConfig.servers : u \in s
    BY DEF Urls
  <2>2. CASE FiltersTurn(opts)
    <3>1. PICK r \in all : s = Filtered(opts, r)
      BY <1>1, <2>2
    <3>2. \A v \in r : ~IsTurn(v)
      BY <1>2, <1>3
    <3> QED
      BY <2>1, <3>1, <3>2, FilteredPlain
  <2>3. CASE ~FiltersTurn(opts)
    BY <1>1, <1>2, <1>3, <2>1, <2>3
  <2> QED
    BY <2>2, <2>3
<1>4. ASSUME NEW t \in opts.turnUri, ~Unparsed(t)
      PROVE  /\ \A u \in Urls : ~Unparsed(u) => u = Overridden(opts, Parsed(t))
             /\ ~opts.forceP2P /\ (\E u \in Offered : ~Unparsed(u) /\ Parsed(u) = Parsed(t))
                     => Overridden(opts, Parsed(t)) \in Urls
  <2>1. opts.turnUri = {t}
    BY OptionsAssumption DEF IceInv
  <2>2. iceConfig.servers = {Filtered(opts, s) : s \in all} \ {{}}
    BY <1>1, <1>4, <2>1 DEF FiltersTurn
  <2>3. ASSUME NEW u \in Urls, ~Unparsed(u) PROVE u = Overridden(opts, Parsed(t))
    <3>1. PICK s \in all : u \in Filtered(opts, s)
      BY <2>2 DEF Urls
    <3> QED
      BY <2>1, <2>3, <3>1, FilteredMatches
  <2>4. ASSUME ~opts.forceP2P, NEW u \in Offered, ~Unparsed(u), Parsed(u) = Parsed(t)
        PROVE  Overridden(opts, Parsed(t)) \in Urls
    <3>1. PICK s \in all : u \in s
      <4>1. PICK r \in opts.iceServers \union named : u \in r
        BY DEF Offered
      <4>2. u \in WithTcp(r)
        BY <4>1 DEF WithTcp
      <4> QED
        BY <1>2, <2>4, <4>1, <4>2
    <3>2. Overridden(opts, Parsed(t)) \in Filtered(opts, s)
      BY <1>4, <2>4, <3>1, FilteredKeeps
    <3>3. Filtered(opts, s) \in iceConfig.servers
      BY <2>2, <3>2
    <3> QED
      BY <3>2, <3>3 DEF Urls
  <2> QED
    BY <2>3, <2>4
<1> QED
  BY <1>3, <1>4 DEF TurnIsAsAsked

LEMMA OthersOfConfig ==
  ASSUME IceInv
  PROVE  OtherServersAreKept
<1> SUFFICES ASSUME stage = "dialed", via = "webrtc" PROVE OtherServersAreKept
  BY DEF OtherServersAreKept
<1> DEFINE all == AllServers(opts, named)
<1>1. iceConfig.servers = IF FiltersTurn(opts) THEN {Filtered(opts, s) : s \in all} \ {{}} ELSE all
  BY IceServers DEF IceInv
<1>2. ASSUME NEW s \in opts.iceServers \ {{}}, \A u \in s : ~IsTurn(u)
      PROVE  s \in iceConfig.servers
  <2>1. s \in all
    BY <1>2, OfferedServers
  <2>2. Filtered(opts, s) = s
    BY <1>2, FilteredPlain
  <2> QED
    BY <1>1, <2>1, <2>2
<1>3. ASSUME ~opts.forceP2P, ~FiltersTurn(opts), NEW u \in UNION named
      PROVE  u \in Urls /\ (u.transport = "udp" => [u EXCEPT !.transport = "tcp"] \in Urls)
  <2>1. PICK s \in named : u \in s
    OBVIOUS
  <2>2. WithTcp(s) \in iceConfig.servers
    BY <1>1, <1>3, OfferedServers
  <2>3. u \in WithTcp(s) /\ (u.transport = "udp" => [u EXCEPT !.transport = "tcp"] \in WithTcp(s))
    BY <2>1 DEF WithTcp
  <2> QED
    BY <2>2, <2>3 DEF Urls
<1> QED
  BY <1>2, <1>3 DEF OtherServersAreKept

LEMMA IceStep == IceInv /\ [OptionsNext]_optionsVars => IceInv'
<1> SUFFICES ASSUME IceInv, [OptionsNext]_optionsVars PROVE IceInv'
  OBVIOUS
<1>1. CASE BeginDirect \/ BeginWebRTC
  <2>1. opts' = opts
    BY <1>1 DEF BeginDirect, BeginWebRTC, Begin
  <2>2. CASE BeginDirect
    BY <2>1, <2>2 DEF BeginDirect, Begin, IceInv
  <2>3. CASE BeginWebRTC
    <3>1. stage' # "dialed"
      BY <2>3 DEF BeginWebRTC, Refused, DialDirect, TransportMade, AuthenticateTo
    <3> QED
      BY <2>1, <3>1 DEF IceInv
  <2> QED
    BY <1>1, <2>2, <2>3
<1>2. CASE Authenticated \/ AuthenticatedTo
  <2>1. UNCHANGED <<opts, via, named, iceConfig>>
    BY <1>2 DEF Authenticated, AuthenticatedTo, attemptVars, serverVars
  <2>2. via = "webrtc" => stage' # "dialed"
    BY <1>2 DEF Authenticated, AuthenticatedTo, TransportMade, AuthenticateTo
  <2> QED
    BY <2>1, <2>2 DEF IceInv
<1>3. CASE Configured
  BY <1>3 DEF Configured, attemptVars, IceInv
<1>4. CASE RequestFails \/ Call \/ UNCHANGED optionsVars
  <2>1. UNCHANGED <<opts, via, named, iceConfig>> /\ (stage' = stage \/ stage' = "failed")
    BY <1>4 DEF RequestFails, Call, optionsVars, attemptVars, serverVars
  <2> QED
    BY <2>1 DEF IceInv
<1> QED
  BY <1>1, <1>2, <1>3, <1>4 DEF OptionsNext

(* The ICE servers of the peer connection: only the TURN servers asked for,   *)
(* and no other server lost (processWebRTCOpts, applyTurnFilterOptions).      *)
THEOREM IceServersAreAsAsked == OptionsSpec => []ServersAreAsAsked
<1>1. OptionsInit => IceInv
  BY DEF OptionsInit, IceInv
<1>2. IceInv => ServersAreAsAsked
  BY TurnOfConfig, OthersOfConfig DEF ServersAreAsAsked
<1> QED
  BY <1>1, <1>2, IceStep, PTL DEF OptionsSpec
=============================================================================
