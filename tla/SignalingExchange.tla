------------------------- MODULE SignalingExchange -------------------------
(***************************************************************************)
(* One WebRTC dial of src/rpc: dialWebRTC from the moment it has a peer     *)
(* connection, and the SignalingExchange it runs.  Four parties race: the   *)
(* signaling server, whose responses one loop reads; the browser, which     *)
(* gathers ICE candidates and opens or closes the data channel; the handler *)
(* of the channel's ready promise; and the timer of the dial.               *)
(*                                                                          *)
(* The data channel is that of module ClientChannel, on which no call was   *)
(* made yet.  JavaScript runs to completion: once the outcome of the        *)
(* exchange is decided (Decided), dialWebRTC ends before anything else      *)
(* happens.  Descriptions, candidates and statistics have no content here.  *)
(***************************************************************************)
EXTENDS Integers

CONSTANT Candidates     \* the ICE candidates the browser gathers

VARIABLES
    disableTrickle,     \* DialWebRTCOptions.disableTrickleICE
    phase,              \* of dialWebRTC: "offer", "exchange", "connected", "failed"
    timer,              \* its timeout: "armed", "fired", "cleared", or "disabled"
                        \* where dialTimeoutMs is 0
    dc, closeEvent, closed, ready,      \* as in ClientChannel
    ice,                \* iceConnectionState: "new", "connected", "completed", "down"
    call,               \* the stream of responses: "none", "open", "ended", "error"
    loop,               \* processCallResponses: where it is
    haveInit,           \* haveInitResponse
    callUuid,           \* "unset", "given" or, as the server sent it, "empty"
    remoteSet,          \* the promise remoteDescriptionSet is resolved
    exchangeDone,
    iceComplete,
    candidate,          \* onLocalICECandidate of each candidate
    gathered,           \* the same for the null candidate that ends them
    final               \* the done or error update that was sent, or "none"

chanVars == <<dc, closeEvent, closed, ready>>
dialVars == <<disableTrickle, phase, timer>>
loopVars == <<call, loop, haveInit, callUuid, remoteSet>>
iceVars  == <<iceComplete, candidate, gathered>>
doneVars == <<exchangeDone, final>>
vars == <<dialVars, chanVars, ice, loopVars, iceVars, doneVars>>

(* The channel of the dial, before any call is made on it. *)
Channel == INSTANCE ClientChannel WITH
    UnaryCalls <- {}, StreamCalls <- {}, MaxStreamCount <- 256,
    streamIDCounter <- 0, streams <- {}, id <- [c \in {} |-> -1],
    streamClosed <- [c \in {} |-> FALSE], headersReceived <- [c \in {} |-> FALSE],
    trailersReceived <- [c \in {} |-> FALSE], message <- [c \in {} |-> FALSE],
    result <- [c \in {} |-> "none"], inputDone <- [c \in {} |-> FALSE]

-----------------------------------------------------------------------------
Init ==
    /\ disableTrickle \in BOOLEAN
    /\ phase = "offer"
    /\ timer \in {"armed", "disabled"}
    /\ dc = "connecting"
    /\ closeEvent = "none"
    /\ closed = FALSE
    /\ ready = "pending"
    /\ ice = "new"
    /\ call = "none"
    /\ loop = "none"
    /\ haveInit = FALSE
    /\ callUuid = "unset"
    /\ remoteSet = FALSE
    /\ exchangeDone = FALSE
    /\ iceComplete = FALSE
    /\ candidate = [k \in Candidates |-> "none"]
    /\ gathered = "none"
    /\ final = "none"

(* The outcome of Promise.all over ready and the loop. *)
Rejected  == phase = "exchange" /\ (ready = "rejected" \/ loop = "failed")
Fulfilled == phase = "exchange" /\ ready = "resolved" /\ loop = "ended"
Decided   == Rejected \/ Fulfilled

(* sendDone and sendError send one update between them, and only when the   *)
(* uuid of the call is known; they throw where it is not.                   *)
MaySend == final = "none" /\ callUuid = "given"
Final(v) == final' = IF MaySend THEN v ELSE final

ConnectedOnly == ice = "connected"                  \* mutant of DoneOrConnected

(* The exchange is over, or the peers are connected. *)
DoneOrConnected == exchangeDone \/ ice = "connected"

-----------------------------------------------------------------------------
(* dialWebRTC. *)

(* setup made the offer, or had it from newPeerConnectionForClient; the call*)
(* goes out.  A peer connection that is closed makes no offer.              *)
Offer ==
    /\ phase = "offer"
    /\ disableTrickle \/ dc # "closed"
    /\ phase' = "exchange"
    /\ call' = "open"
    /\ loop' = "reading"
    /\ UNCHANGED <<disableTrickle, timer, chanVars, ice, haveInit, callUuid, remoteSet, iceVars,
                   doneVars>>

(* The finally of dialWebRTC when the dial did not succeed. *)
GiveUp ==
    /\ phase' = "failed"
    /\ timer' = IF timer = "armed" THEN "cleared" ELSE timer
    /\ Channel!CloseTransport
    /\ ice' = "down"
    /\ UNCHANGED <<closed, ready, disableTrickle, loopVars, iceVars, doneVars>>

OfferFails == phase = "offer" /\ ~disableTrickle /\ GiveUp

DialFails == Rejected /\ GiveUp

DialConnects ==
    /\ Fulfilled
    /\ ~Rejected
    /\ phase' = "connected"
    /\ timer' = IF timer = "armed" THEN "cleared" ELSE timer
    /\ UNCHANGED <<disableTrickle, chanVars, ice, loopVars, iceVars, doneVars>>

TerminateQuietly == Channel!CloseTransport /\ closed' = TRUE /\ UNCHANGED ready
                                                    \* mutant of Terminate

(* terminate: closeWithReason, which returns on a channel closed before.    *)
Terminate == IF closed THEN UNCHANGED chanVars ELSE Channel!CloseWithReason

(* The timer of the dial. *)
TimedOut ==
    /\ ~Decided
    /\ timer = "armed"
    /\ timer' = "fired"
    /\ Terminate
    /\ ice' = IF closed THEN ice ELSE "down"
    /\ UNCHANGED <<disableTrickle, phase, loopVars, iceVars, doneVars>>

-----------------------------------------------------------------------------
(* The browser. *)

(* The peers find a path to each other. *)
IceConnects ==
    /\ ~Decided
    /\ ice = "new" /\ remoteSet /\ dc # "closed"
    /\ ice' \in {"connected", "completed"}
    /\ UNCHANGED <<dialVars, chanVars, loopVars, iceVars, doneVars>>

OnReadyForgets == UNCHANGED exchangeDone /\ Final("done")   \* mutants of OnReady

OnReadySilent  == exchangeDone' = TRUE /\ UNCHANGED final

(* What doExchange does once ready is resolved. *)
OnReady == exchangeDone' = TRUE /\ Final("done")

ChannelOpens ==
    /\ ~Decided
    /\ ice \in {"connected", "completed"}
    /\ Channel!OnChannelOpen
    /\ IF ready = "pending" THEN OnReady ELSE UNCHANGED doneVars
    /\ UNCHANGED <<dialVars, ice, loopVars, iceVars>>

(* ICE fails, or the peer or an error closes the channel. *)
ChannelEnds ==
    /\ ~Decided
    /\ \/ ice # "down" /\ ice' = "down" /\ Channel!OnICEDown
       \/ ice' = "down" /\ Channel!CloseWithReason
       \/ dc = "open" /\ Channel!ChannelLost /\ UNCHANGED ice
       \/ Channel!OnChannelClose /\ UNCHANGED ice
    /\ UNCHANGED <<dialVars, loopVars, iceVars, doneVars>>

EarlyCandidate(k) ==                                \* mutant of LocalCandidate
    candidate' = [candidate EXCEPT ![k] = "sent"]

(* What becomes of a candidate once the remote description is set: it is    *)
(* sent unless the exchange is over or the call has no uuid to send it for. *)
Dispatched == IF DoneOrConnected \/ callUuid # "given" THEN "dropped" ELSE "sent"

(* onLocalICECandidate waits for the remote description.                    *)
LocalCandidate(k) ==
    candidate' = [candidate EXCEPT ![k] = IF ~remoteSet THEN "waiting" ELSE Dispatched]

Gathers(k) ==
    /\ ~Decided
    /\ phase # "offer" /\ ~disableTrickle
    /\ dc # "closed"
    /\ candidate[k] = "none" /\ gathered = "none"
    /\ LocalCandidate(k)
    /\ UNCHANGED <<dialVars, chanVars, ice, loopVars, iceComplete, gathered, doneVars>>

(* The null candidate comes after the others. *)
GatheringEnds ==
    /\ ~Decided
    /\ phase # "offer" /\ ~disableTrickle
    /\ dc # "closed"
    /\ gathered = "none"
    /\ IF ~remoteSet
       THEN gathered' = "waiting" /\ UNCHANGED <<iceComplete, final>>
       ELSE /\ gathered' = "done"
            /\ IF DoneOrConnected
               THEN UNCHANGED <<iceComplete, final>>
               ELSE iceComplete' = TRUE /\ Final("done")
    /\ UNCHANGED <<dialVars, chanVars, ice, loopVars, candidate, exchangeDone>>

-----------------------------------------------------------------------------
(* processCallResponses.  Between its awaits it is one of: "reading" the    *)
(* stream, "remote" (setRemoteDescription), "adding" (addIceCandidate),     *)
(* "sending" its last update before it returns, "throwing" the same before  *)
(* it throws; or it "ended" or "failed".                                    *)

(* handleInitError swallows an error once the connection is established.    *)
Thrown == IF DoneOrConnected THEN "ended" ELSE "failed"

(* sendError, then return or throw.  It throws itself when no uuid is known.*)
Refuse(next) ==
    /\ Final("error")
    /\ loop' = IF MaySend THEN next
               ELSE IF final # "none" /\ next = "sending" THEN "ended" ELSE Thrown

(* The first init response: its description may not parse, and the channel  *)
(* may be closed, which is an error to send if there is a uuid to send it   *)
(* for; callUuid is what came, an empty string as well.                     *)
FirstInit ==
    /\ haveInit' = TRUE
    /\ \E u \in {"given", "empty"} :
        /\ callUuid' = u
        /\ \/ loop' = Thrown /\ UNCHANGED final
           \/ ~closed /\ loop' = "remote" /\ UNCHANGED final
           \/ /\ closed
              /\ final' = IF u = "given" THEN "error" ELSE final
              /\ loop' = IF u = "given" THEN "sending" ELSE Thrown

(* handleInitResponse *)
InitResponse ==
    /\ ~Decided
    /\ call = "open" /\ loop = "reading"
    /\ IF haveInit THEN Refuse("sending") /\ UNCHANGED <<haveInit, callUuid>> ELSE FirstInit
    /\ UNCHANGED <<dialVars, chanVars, ice, call, remoteSet, iceVars, exchangeDone>>

(* setRemoteDescription resolves: the candidates that waited go out, in     *)
(* their order; without trickle ICE the exchange is done.                   *)
RemoteDescriptionSet ==
    /\ ~Decided
    /\ loop = "remote" /\ dc # "closed"
    /\ remoteSet' = TRUE
    /\ candidate' = [k \in Candidates |->
            IF candidate[k] = "waiting" THEN Dispatched ELSE candidate[k]]
    /\ IF gathered = "waiting" THEN gathered' = "done" ELSE UNCHANGED gathered
    /\ iceComplete' = (iceComplete \/ (gathered = "waiting" /\ ~DoneOrConnected))
    /\ IF disableTrickle
       THEN /\ exchangeDone' = TRUE
            /\ loop' = IF MaySend THEN "sending" ELSE "ended"
       ELSE UNCHANGED exchangeDone /\ loop' = "reading"
    /\ IF disableTrickle \/ (gathered = "waiting" /\ ~DoneOrConnected)
       THEN Final("done") ELSE UNCHANGED final
    /\ UNCHANGED <<dialVars, chanVars, ice, call, haveInit, callUuid>>

(* handleUpdateResponse *)
UpdateResponse ==
    /\ ~Decided
    /\ call = "open" /\ loop = "reading"
    /\ \/ haveInit /\ loop' = "adding" /\ UNCHANGED final
       \/ Refuse("sending")     \* before init, another uuid, no candidate, unknown stage
    /\ UNCHANGED <<dialVars, chanVars, ice, call, haveInit, callUuid, remoteSet, iceVars, exchangeDone>>

CandidateAdded ==
    /\ ~Decided
    /\ loop = "adding"
    /\ \/ loop' = "reading" /\ dc # "closed" /\ UNCHANGED final
       \/ Refuse("throwing")
    /\ UNCHANGED <<dialVars, chanVars, ice, call, haveInit, callUuid, remoteSet, iceVars, exchangeDone>>

(* An update is answered, or fails: the loop ends as it was going to. *)
UpdateSent ==
    /\ ~Decided
    /\ loop \in {"sending", "throwing"}
    /\ loop' = IF loop = "sending" THEN "ended" ELSE Thrown
    /\ UNCHANGED <<dialVars, chanVars, ice, call, haveInit, callUuid, remoteSet, iceVars, doneVars>>

(* The server ends the stream of responses, with an error or without one.   *)
CallEnds ==
    /\ ~Decided
    /\ call = "open"
    /\ call' \in {"ended", "error"}
    /\ UNCHANGED <<dialVars, chanVars, ice, loop, haveInit, callUuid, remoteSet, iceVars, doneVars>>

(* The loop comes to the end of the stream, or setRemoteDescription fails.  *)
LoopEnds ==
    /\ ~Decided
    /\ \/ loop = "reading" /\ call = "ended" /\ loop' = "ended"
       \/ loop = "reading" /\ call = "error" /\ loop' = Thrown
       \/ loop = "remote" /\ loop' = Thrown
    /\ UNCHANGED <<dialVars, chanVars, ice, call, haveInit, callUuid, remoteSet, iceVars, doneVars>>

-----------------------------------------------------------------------------
DialStep == Offer \/ OfferFails \/ DialFails \/ DialConnects

LoopStep ==
    \/ InitResponse \/ RemoteDescriptionSet \/ UpdateResponse
    \/ CandidateAdded \/ UpdateSent \/ LoopEnds

Browser ==
    \/ IceConnects \/ ChannelOpens \/ ChannelEnds \/ GatheringEnds
    \/ \E k \in Candidates : Gathers(k)

Next == DialStep \/ TimedOut \/ LoopStep \/ CallEnds \/ Browser

(* The timer fires, promises of the browser settle, and the server does not *)
(* keep a call open for ever; nothing makes the peers connect.              *)
Fairness == WF_vars(DialStep) /\ WF_vars(TimedOut) /\ WF_vars(LoopStep) /\ WF_vars(CallEnds)

Spec == Init /\ [][Next]_vars /\ Fairness

-----------------------------------------------------------------------------
TypeOK ==
    /\ disableTrickle \in BOOLEAN
    /\ phase \in {"offer", "exchange", "connected", "failed"}
    /\ timer \in {"armed", "fired", "cleared", "disabled"}
    /\ timer = "armed" <=> phase \in {"offer", "exchange"} /\ timer \notin {"fired", "disabled"}
    /\ Channel!TypeOK
    /\ ice \in {"new", "connected", "completed", "down"}
    /\ call \in {"none", "open", "ended", "error"}
    /\ loop \in {"none", "reading", "remote", "adding", "sending", "throwing", "ended", "failed"}
    /\ haveInit \in BOOLEAN /\ remoteSet \in BOOLEAN
    /\ callUuid \in {"unset", "given", "empty"}
    /\ exchangeDone \in BOOLEAN /\ iceComplete \in BOOLEAN
    /\ candidate \in [Candidates -> {"none", "waiting", "sent", "dropped"}]
    /\ gathered \in {"none", "waiting", "done"}
    /\ final \in {"none", "done", "error"}

(* A candidate is sent only for a call whose uuid is known, however early   *)
(* the browser gathers it.                                                  *)
CandidatesFollowInit == \A k \in Candidates : candidate[k] = "sent" => callUuid = "given"

(* Once done was sent no candidate is sent any more, whether ready, the end *)
(* of gathering or the lack of trickle ICE sent it, and whatever waited.    *)
NoCandidateAfterDone ==
    [][\A k \in Candidates :
        final = "done" /\ candidate'[k] = "sent" => candidate[k] = "sent"]_vars

(* Once the channel is ready no error of the signaling can fail the dial,   *)
(* whatever state ICE is in ("no more work should be done nor should any    *)
(* errors be emitted").                                                     *)
ReadySurvivesSignaling ==
    [][ready = "resolved" /\ loop # "failed" => loop' # "failed"]_vars

(* A channel that became ready is announced to the other peer, if the call  *)
(* has a uuid: the ready handler always comes late enough to know it, and   *)
(* done is sent then, or before; or else an error was, before the channel   *)
(* became ready, and none is after it.                                      *)
ReadyIsAnnounced ==
    [][ready' = "resolved" /\ callUuid' = "given" => final' = "done" \/ final = "error"]_vars

(* Nobody waits in vain for a channel to become ready: as long as it may, the *)
(* timer of the dial has not fired, whatever closed the channel meanwhile and *)
(* whether or not the timer found it closed (the timeout of dialWebRTC and    *)
(* terminate); it runs, unless dialTimeoutMs disabled it.                     *)
PendingIsTimed ==
    phase \in {"offer", "exchange"} /\ ready = "pending" => timer \in {"armed", "disabled"}

(* A dial that has not ended can go on: Promise.all has its verdict, the      *)
(* timer runs, or the loop has a response, an end or an answer to come to.    *)
(* Only one without a timer may be left with nothing but the channel to wait  *)
(* for.                                                                       *)
NeverStuck ==
    phase = "exchange" =>
        \/ Decided
        \/ timer = "armed"
        \/ loop = "reading" /\ call # "none"
        \/ loop \in {"remote", "adding", "sending", "throwing"}
        \/ timer = "disabled" /\ ready = "pending"

(* The dial uses its channel as ClientChannel allows.                       *)
ChannelSpec == Channel!Spec

(* A dial that has a timer ends.                                            *)
DialEnds ==
    timer # "disabled" /\ phase \in {"offer", "exchange"} ~> phase \in {"connected", "failed"}
=============================================================================
