---------------------------- MODULE DialOptions ----------------------------
(***************************************************************************)
(* How rpc/dial.ts turns the options of a dial into what it sends: the     *)
(* checks, the credentials and tokens of a direct dial, those for the      *)
(* signaling server of a WebRTC dial, and the ICE servers the peer         *)
(* connection gets.  One set of options serves all attempts of a           *)
(* RobotClient: WebRTC, its fallback to gRPC, and the reconnections.  What *)
(* follows in a WebRTC dial is SignalingExchange.                          *)
(*                                                                         *)
(* An address stands for itself and, as an entity, for itself without its  *)
(* scheme.  Credentials are objects: options may share one, and an attempt *)
(* may write to it.                                                        *)
(***************************************************************************)
EXTENDS Integers, FiniteSets

CONSTANTS
    Options,        \* the options a dial may be made with
    Credentials,    \* the credential objects
    NoCredentials,
    GivenEntity,    \* the authEntity the application gave each of them, or ""
    Configs,        \* the additional ICE servers the signaling server may name
    MaxDials        \* bound: attempts

ASSUME NoCredentialsAssumption == NoCredentials \notin Credentials
ASSUME GivenEntityAssumption == GivenEntity \in [Credentials -> STRING]
ASSUME MaxDialsAssumption == MaxDials \in Nat

Robot     == "robot"        \* the addresses dialled
Signaling == "signaling"

VARIABLES
    opts,       \* DialOptions; those of webrtcOptions are its fields from sigToken on
    authEntity, \* Credential.authEntity of each credential object
    via,        \* "webrtc" or "direct"
    stage,      \* where the dial is
    used,       \* the options of its dialDirect
    token,      \* the access token authenticated for so far
    bearer,     \* what the transport puts in each call's authorization header
    sent,       \* the last request
    named,      \* the ICE servers the signaling server named
    iceConfig,        \* the ICE configuration of the peer connection
    dials       \* attempts made

attemptVars == <<via, used, dials>>
serverVars == <<named, iceConfig>>
optionsVars == <<opts, authEntity, attemptVars, stage, token, bearer, sent, serverVars>>

(* "nobody" stands for no address: no token is by it. *)
ASSUME OptionsAssumption ==
    \A o \in Options :
        /\ {o.ext, o.sigExt} \subseteq STRING \ {"nobody"}
        /\ {o.creds, o.sigCreds} \subseteq Credentials \union {NoCredentials}
        /\ \A t, u \in o.turnUri : t = u

NoToken == [by |-> "nobody", to |-> "nobody"]
Given(t) == [by |-> "application", to |-> t]
NoRequest == [kind |-> "none", at |-> "", entity |-> "", creds |-> NoCredentials, bearer |-> NoToken]
NoIce == [servers |-> {}, policy |-> "all"]

-----------------------------------------------------------------------------
(* Options that may be undefined, and strings that may be empty besides. *)
IsSet(x) == x \notin {"undefined", ""}

ExternalAuth(o) == IsSet(o.ext) /\ IsSet(o.extTo)

(* validateDialOptions *)
Contradicts(o) ==
    \/ IsSet(o.token) /\ (o.creds # NoCredentials \/ o.sigToken # "undefined"
                                                  \/ o.sigCreds # NoCredentials)
    \/ IsSet(o.sigToken) /\ o.sigCreds # NoCredentials

SignalingSharesCredentials(o) ==                    \* mutant of SignalingExchangeOpts
    [o EXCEPT !.token = IF o.token = "undefined" THEN o.sigToken ELSE @,
              !.ext = o.sigExt, !.extTo = o.sigExtTo]

(* processSignalingExchangeOpts, the options it returns. *)
SignalingExchangeOpts(o) ==
    [o EXCEPT !.creds = IF o.token = "undefined" THEN o.sigCreds ELSE @,
              !.token = IF o.token = "undefined" THEN o.sigToken ELSE @,
              !.ext = o.sigExt, !.extTo = o.sigExtTo]

EntityOverwritten(o) ==                             \* mutant of FilledEntity
    IF o.token = "undefined" /\ o.creds # NoCredentials
    THEN [authEntity EXCEPT ![o.creds] = IF IsSet(o.ext) THEN o.ext ELSE Signaling]
    ELSE authEntity

(* processSignalingExchangeOpts, what it writes: credentials without an     *)
(* entity get one, in the object the options share with their owner.        *)
FilledEntity(o) ==
    IF o.token = "undefined" /\ o.creds # NoCredentials /\ authEntity[o.creds] = ""
    THEN [authEntity EXCEPT ![o.creds] = IF IsSet(o.ext) THEN o.ext ELSE Signaling]
    ELSE authEntity

-----------------------------------------------------------------------------
(* ICE servers: a server is the set of its URIs. *)
IsTurn(u) == u.scheme \in {"turn", "turns"}
NoPort == 0

(* parseTurnUri gives undefined for these. *)
Unparsed(u) == ~IsTurn(u) \/ u.port = NoPort

Parsed(u) == [u EXCEPT !.transport = IF @ = "" THEN "udp" ELSE @]

WithTcp(s) == s \union {[u EXCEPT !.transport = "tcp"] : u \in {v \in s : v.transport = "udp"}}

Overridden(o, u) ==
    [u EXCEPT !.scheme = IF o.turnScheme = "undefined" THEN @ ELSE o.turnScheme,
              !.port = IF o.turnPort = NoPort THEN @ ELSE o.turnPort,
              !.transport = IF o.turnTransport = "undefined" THEN @ ELSE o.turnTransport]

(* applyTurnFilterOptions on one server: URIs that do not parse stay, the   *)
(* others must match turnUri and get the overrides.                         *)
Filtered(o, s) ==
    {u \in s : Unparsed(u)} \union
    {Overridden(o, Parsed(u)) : u \in {u \in s : ~Unparsed(u) /\
        (o.turnUri = {} \/ Parsed(u) \in {Parsed(t) : t \in o.turnUri})}}

(* turnUri is a set of at most one URI.  One that does not parse makes      *)
(* applyTurnFilterOptions ignore all the TURN options.                      *)
FiltersTurn(o) ==
    /\ \/ o.turnUri # {} \/ o.turnScheme # "undefined" \/ o.turnPort # NoPort
       \/ o.turnTransport # "undefined"
    /\ \A u \in o.turnUri : ~Unparsed(u)

StripTurnUris(o, all) ==                            \* mutant of Stripped
    IF o.forceP2P THEN {s \in all : \E u \in s : ~IsTurn(u)} ELSE all

(* forceP2P strips the servers with a TURN URI. *)
Stripped(o, all) == IF o.forceP2P THEN {s \in all : \A u \in s : ~IsTurn(u)} ELSE all

(* processWebRTCOpts, given the servers of the signaling server's answer:   *)
(* the TCP variants are added to those only.                                *)
IceConfig(o, additional) ==
    LET all == Stripped(o, o.iceServers \union {WithTcp(s) : s \in additional})
    IN  [servers |-> IF FiltersTurn(o) THEN {Filtered(o, s) : s \in all} \ {{}} ELSE all,
         policy |-> IF o.forceRelay THEN "relay" ELSE "all"]

-----------------------------------------------------------------------------
OptionsInit ==
    /\ opts \in Options
    /\ authEntity = GivenEntity
    /\ via = "direct"
    /\ stage = "idle"
    /\ used = opts
    /\ token = NoToken
    /\ bearer = NoToken
    /\ sent = NoRequest
    /\ named = {}
    /\ iceConfig = NoIce
    /\ dials = 0

(* The headers of AuthenticatedTransport go over those of the call. *)
CallHeadersWin(own) == IF own = NoToken THEN bearer ELSE own    \* mutant of Headers
Headers(own) == IF bearer = NoToken THEN own ELSE bearer

Request(kind, at, entity, creds, h) ==
    sent' = [kind |-> kind, at |-> at, entity |-> entity, creds |-> creds, bearer |-> h]

Address == IF via = "webrtc" THEN Signaling ELSE Robot

(* The transport of dialDirect is made.  A WebRTC dial goes on and asks the *)
(* signaling server for its configuration.                                  *)
TransportMade(v, b) ==
    /\ bearer' = b
    /\ IF v = "webrtc"
       THEN stage' = "config" /\ Request("config", Signaling, "", NoCredentials, b)
       ELSE stage' = "dialed" /\ sent' = NoRequest

AuthenticateTo(o, t) ==
    /\ stage' = "authenticateTo"
    /\ token' = t
    /\ Request("authenticateTo", o.ext, o.extTo, NoCredentials, t)
    /\ bearer' = NoToken

NoTokens == token' = NoToken /\ bearer' = NoToken

Refused == stage' = "refused" /\ sent' = NoRequest /\ NoTokens

(* dialDirect to address a with the options o, whose credentials have the   *)
(* entities e, up to its first request.                                     *)
DialDirect(v, a, o, e) ==
    IF Contradicts(o)
    THEN Refused
    ELSE IF IsSet(o.token) /\ ExternalAuth(o)
    THEN AuthenticateTo(o, Given(o.token))
    ELSE IF IsSet(o.token)
    THEN TransportMade(v, Given(o.token)) /\ token' = NoToken
    ELSE IF o.creds = NoCredentials /\ o.token = "undefined"
    THEN TransportMade(v, NoToken) /\ token' = NoToken
    ELSE /\ stage' = "authenticate"
         /\ Request("authenticate",
                    IF o.ext = "undefined" THEN a ELSE o.ext,
                    IF o.creds # NoCredentials /\ e[o.creds] # "" THEN e[o.creds] ELSE a,
                    o.creds, NoToken)
         /\ NoTokens

Over == stage \in {"idle", "dialed", "refused", "failed"}

Begin(v) ==
    /\ Over
    /\ dials < MaxDials
    /\ dials' = dials + 1
    /\ via' = v
    /\ UNCHANGED <<opts, serverVars>>

(* RobotClient dials without WebRTC. *)
BeginDirect ==
    /\ Begin("direct")
    /\ used' = opts
    /\ DialDirect("direct", Robot, opts, authEntity)
    /\ UNCHANGED authEntity

(* dialWebRTC checks the options, derives those for the signaling server    *)
(* and dials it.                                                            *)
BeginWebRTC ==
    /\ Begin("webrtc")
    /\ IF Contradicts(opts)
       THEN Refused /\ UNCHANGED <<authEntity, used>>
       ELSE /\ used' = SignalingExchangeOpts(opts)
            /\ authEntity' = FilledEntity(opts)
            /\ DialDirect("webrtc", Signaling, SignalingExchangeOpts(opts), FilledEntity(opts))

(* makeAuthenticatedTransport, when its first request is answered. *)
Authenticated ==
    /\ stage = "authenticate"
    /\ LET t == [by |-> sent.at, to |-> sent.entity]
       IN  IF ExternalAuth(used)
           THEN AuthenticateTo(used, t)
           ELSE TransportMade(via, t) /\ UNCHANGED token
    /\ UNCHANGED <<opts, authEntity, attemptVars, serverVars>>

AuthenticatedTo ==
    /\ stage = "authenticateTo"
    /\ TransportMade(via, [by |-> sent.at, to |-> sent.entity])
    /\ UNCHANGED <<opts, authEntity, attemptVars, token, serverVars>>

(* optionalWebRTCConfig is answered; Unimplemented stands for no servers.   *)
(* Its servers go to a deep copy of webrtcOptions, not to the owner's list. *)
Configured ==
    /\ stage = "config"
    /\ \E additional \in Configs \union {{}} :
            /\ named' = additional
            /\ iceConfig' = IceConfig(opts, additional)
    /\ stage' = "dialed"
    /\ UNCHANGED <<opts, authEntity, attemptVars, token, bearer, sent>>

RequestFails ==
    /\ ~Over
    /\ stage' = "failed"
    /\ UNCHANGED <<opts, authEntity, attemptVars, token, bearer, sent, serverVars>>

(* A call of the application over the transport of a direct dial, with an   *)
(* authorization header of its own or without.                              *)
Call ==
    /\ stage = "dialed"
    /\ via = "direct"
    /\ \E own \in {NoToken, Given("call")} :
            Request("call", Robot, "", NoCredentials, Headers(own))
    /\ UNCHANGED <<opts, authEntity, attemptVars, stage, token, bearer, serverVars>>

OptionsNext ==
    \/ BeginDirect \/ BeginWebRTC
    \/ Authenticated \/ AuthenticatedTo \/ Configured \/ RequestFails
    \/ Call

OptionsSpec == OptionsInit /\ [][OptionsNext]_optionsVars

-----------------------------------------------------------------------------
(* Type invariant.  The tokens are those of a server the options name. *)
OptionsTypeOK ==
    /\ stage \in {"idle", "authenticate", "authenticateTo", "config", "dialed", "refused", "failed"}
    /\ via \in {"webrtc", "direct"}
    /\ authEntity \in [Credentials -> STRING \union {Signaling}]
    /\ \A t \in {token, bearer, sent.bearer} :
            t.by \in {"nobody", "application", Robot, Signaling, opts.ext, opts.sigExt}
    /\ sent.creds \in Credentials \union {NoCredentials}
    /\ iceConfig.policy \in {"all", "relay"}
    /\ dials \in 0 .. MaxDials

(* With external authentication asked for, what calls carry is the token the  *)
(* external service gave out for externalAuthToEntity, never the one it was   *)
(* bought with (makeAuthenticatedTransport, of either server).  Of options    *)
(* with an access token nothing is claimed: see AccessTokenIsFinal.           *)
CallsCarryExternalToken ==
    ~IsSet(opts.token) =>
        /\ sent.kind = "call" /\ IsSet(opts.ext) /\ IsSet(opts.extTo)
                /\ (opts.token = "" \/ opts.creds # NoCredentials)
                => sent.bearer = [by |-> opts.ext, to |-> opts.extTo]
        /\ sent.kind = "config" /\ IsSet(opts.sigExt) /\ IsSet(opts.sigExtTo)
                /\ (opts.token = "" \/ opts.sigToken # "undefined" \/ opts.sigCreds # NoCredentials)
                => sent.bearer = [by |-> opts.sigExt, to |-> opts.sigExtTo]

(* The signaling server is shown the credentials for it only, and the robot   *)
(* those for the robot, in whatever order the two are dialled, unless the     *)
(* access token is an empty string: see SignalingCredentialsAreUsed.          *)
CredentialsReachTheirServer ==
    sent.kind = "authenticate" =>
        /\ via = "direct" => sent.creds = opts.creds
        /\ via = "webrtc" /\ opts.token # "" => sent.creds = opts.sigCreds

(* Credentials are shown for the entity the application gave them, whichever  *)
(* attempts came before.  Those it gave none are shown for the address        *)
(* dialled; or, the robot's own, for what a WebRTC attempt wrote to them: the *)
(* signaling server or the external service.                                  *)
EntityIsAsGiven ==
    sent.kind = "authenticate" /\ sent.creds # NoCredentials =>
        IF GivenEntity[sent.creds] # "" THEN sent.entity = GivenEntity[sent.creds]
        ELSE \/ sent.entity = Address
             \/ sent.creds = opts.creds /\ sent.entity \in {Signaling, opts.ext}

Urls == UNION iceConfig.servers
Offered == UNION (opts.iceServers \union named)

(* The TURN servers of the peer connection are the ones asked for: none with  *)
(* forceP2P; with turnUri, of those that parse, that one as overridden and no *)
(* other (applyTurnFilterOptions compares before it overrides).               *)
TurnIsAsAsked ==
    stage = "dialed" /\ via = "webrtc" =>
        /\ opts.forceP2P => \A u \in Urls : ~IsTurn(u)
        /\ \A t \in opts.turnUri : ~Unparsed(t) =>
                /\ \A u \in Urls : ~Unparsed(u) => u = Overridden(opts, Parsed(t))
                /\ ~opts.forceP2P /\ (\E u \in Offered : ~Unparsed(u) /\ Parsed(u) = Parsed(t))
                        => Overridden(opts, Parsed(t)) \in Urls

(* Whatever the TURN options say, no STUN server of the application is lost   *)
(* (only one that has no URI),                                               *)
(* and where they say nothing every server that the signaling server named is *)
(* there, by TCP too where it was named for UDP (processWebRTCOpts).          *)
OtherServersAreKept ==
    stage = "dialed" /\ via = "webrtc" =>
        /\ \A s \in opts.iceServers \ {{}} : (\A u \in s : ~IsTurn(u)) => s \in iceConfig.servers
        /\ ~opts.forceP2P /\ ~FiltersTurn(opts) =>
                \A u \in UNION named :
                    u \in Urls /\ (u.transport = "udp" => [u EXCEPT !.transport = "tcp"] \in Urls)

(* The ICE servers of the peer connection are what the options of the dial    *)
(* and the signaling server make of each other: the TURN servers asked for,   *)
(* and no other server lost.                                                  *)
ServersAreAsAsked == TurnIsAsAsked /\ OtherServersAreKept

(* What does not hold. *)

(* accessToken: "If enabled, other auth options have no affect".              *)
AccessTokenIsFinal == IsSet(opts.token) => sent.kind # "authenticateTo"

(* "signalingCredentials are used to authenticate the request to the          *)
(* signaling server".                                                         *)
SignalingCredentialsAreUsed ==
    sent.kind = "authenticate" /\ via = "webrtc" => sent.creds = opts.sigCreds

(* The robot is asked for a token for itself where the application gave no    *)
(* entity, as it is when no WebRTC attempt came before.                       *)
EntityFollowsTheAddress ==
    sent.kind = "authenticate" /\ via = "direct" /\ sent.creds # NoCredentials =>
        sent.entity \in {GivenEntity[sent.creds], Robot}

(* "signalingAccessToken only" is a legal set of options: a dial is refused   *)
(* only for options that contradict each other.                               *)
RefusesContradictions == stage = "refused" => Contradicts(opts)

(* "filters the signaling server's TURN list to only the server whose parsed  *)
(* URI matches".                                                              *)
TurnListIsFiltered ==
    stage = "dialed" /\ via = "webrtc" =>
        \A t \in opts.turnUri : ~Unparsed(t) =>
            \A u \in Urls : IsTurn(u) => u = Overridden(opts, Parsed(t))
=============================================================================
